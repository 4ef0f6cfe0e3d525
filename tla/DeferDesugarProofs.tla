-------------------------- MODULE DeferDesugarProofs -------------------------
(* Proofs about DeferDesugar, for functions of any length and any nesting.   *)
(*                                                                           *)
(* Code is described by its places: behind every instruction stand the       *)
(* bodies that are open there with the calls registered in each, and how     *)
(* many calls of the next exit have been made.  Code says that every         *)
(* instruction Fits its place; Links, while the desugarer is at work, that   *)
(* the place at the end is the stack of bodies being written; Runs, that a   *)
(* run is at its place and is owed what the defer statements it passed had   *)
(* as arguments.  Every action of the desugarer keeps the first two, every   *)
(* action of the run the third.                                              *)
EXTENDS DeferDesugar, Integers, SequencesExt, SequenceTheorems, WellFoundedInduction, TLAPS

-----------------------------------------------------------------------------
(* Lists: lists of lists laid end to end, reversed lists, and lists related  *)
(* element by element.  None of this can be proved by the library's          *)
(* induction theorems, which take a predicate; ShortestList does without: of *)
(* the lists for which a property fails one is shortest, and it is empty or  *)
(* one element longer than a list for which the property holds.              *)

(* Every set of natural numbers that is not empty has a least element. *)
LEMMA LeastNumber ==
    ASSUME NEW T \in SUBSET Nat, T # {}
    PROVE  \E x \in T : \A y \in T : x <= y
<1> DEFINE R == OpToRel(<, Nat)
<1>1. IsWellFoundedOn(R, Nat)
  BY NatLessThanWellFounded DEF OpToRel
<1> HIDE DEF R
<1>2. PICK x \in T : \A y \in T : ~(<<y, x>> \in R)
  BY <1>1, WFMin
<1>3. ASSUME NEW y \in T, y < x PROVE FALSE
  BY <1>2, <1>3 DEF R, OpToRel
<1> QED  BY <1>2, <1>3

\* What the recursive function in FlattenSeq maps a function to.
Flattening(f, ss) == [i \in 1 .. Len(ss) |-> IF i = 1 THEN ss[i] ELSE f[i - 1] \o ss[i]]

(* The partial concatenations FlattenSeq is made of exist. *)
LEMMA FlatteningExists ==
    ASSUME NEW S, NEW ss \in Seq(Seq(S))
    PROVE  \E f \in [1 .. Len(ss) -> Seq(S)] : f = Flattening(f, ss)
<1> DEFINE L == Len(ss)
           Upto(f, n) == \A i \in 1 .. L : i <= n => f[i] = (IF i = 1 THEN ss[i] ELSE f[i - 1] \o ss[i])
           T == {n \in Nat : ~ \E f \in [1 .. L -> Seq(S)] : Upto(f, n)}
<1>0. L \in Nat /\ \A i \in 1 .. L : ss[i] \in Seq(S)
  OBVIOUS
<1> HIDE DEF L
<1>1. CASE T # {}
  <2>1. PICK n \in T : \A m \in T : n <= m
    BY <1>1, LeastNumber
  <2>2. n # 0
    <3> DEFINE f == [i \in 1 .. L |-> ss[i]]
    <3>1. f \in [1 .. L -> Seq(S)] /\ Upto(f, 0)
      BY <1>0
    <3> QED  BY <2>1, <3>1
  <2>3. n - 1 \in Nat /\ n - 1 \notin T
    <3>1. n \in Nat /\ \A m \in T : m \in Nat /\ n <= m
      BY <2>1
    <3> HIDE DEF T
    <3> QED  BY <2>2, <3>1
  <2>4. PICK f \in [1 .. L -> Seq(S)] : Upto(f, n - 1)
    BY <2>3
  <2> DEFINE h == [i \in 1 .. L |-> IF i = 1 THEN ss[i] ELSE f[i - 1] \o ss[i]]
  <2>5. \A i \in 1 .. L : i # 1 => f[i - 1] \in Seq(S) /\ f[i - 1] \o ss[i] \in Seq(S)
    <3> TAKE i \in 1 .. L
    <3> SUFFICES ASSUME i # 1 PROVE f[i - 1] \in Seq(S) /\ f[i - 1] \o ss[i] \in Seq(S)
      OBVIOUS
    <3>1. i - 1 \in 1 .. L
      BY <1>0
    <3>2. f[i - 1] \in Seq(S) /\ ss[i] \in Seq(S)
      BY <1>0, <2>4, <3>1
    <3> QED  BY <3>2, ConcatProperties
  <2>6. h \in [1 .. L -> Seq(S)]
    BY <1>0, <2>5
  <2>7. \A i \in 1 .. L : i # 1 /\ i <= n => h[i - 1] = f[i - 1]
    <3> SUFFICES ASSUME NEW i \in 1 .. L, i # 1, i <= n PROVE h[i - 1] = f[i - 1]
      OBVIOUS
    <3>1. i - 1 \in 1 .. L /\ i - 1 <= n - 1
      BY <1>0, <2>1
    <3>2. f[i - 1] = (IF i - 1 = 1 THEN ss[i - 1] ELSE f[i - 1 - 1] \o ss[i - 1])
      BY <2>4, <3>1
    <3>3. h[i - 1] = (IF i - 1 = 1 THEN ss[i - 1] ELSE f[i - 1 - 1] \o ss[i - 1])
      BY <3>1
    <3> QED  BY <3>2, <3>3
  <2>8. Upto(h, n)
    BY <2>7
  <2> QED  BY <2>1, <2>6, <2>8
<1>2. CASE T = {}
  <2>1. PICK f \in [1 .. L -> Seq(S)] : Upto(f, L)
    BY <1>0, <1>2
  <2>2. f = [i \in 1 .. L |-> IF i = 1 THEN ss[i] ELSE f[i - 1] \o ss[i]]
    <3>1. \A i \in 1 .. L : i <= L
      BY <1>0
    <3>2. \A i \in 1 .. L : f[i] = (IF i = 1 THEN ss[i] ELSE f[i - 1] \o ss[i])
      BY <2>1, <3>1
    <3> QED  BY <2>1, <3>2
  <2> QED  BY <2>1, <2>2 DEF Flattening, L
<1> QED  BY <1>1, <1>2

(* FlattenSeq is the last of them. *)
LEMMA Flattened ==
    ASSUME NEW S, NEW ss \in Seq(Seq(S)), Len(ss) # 0
    PROVE  \E f \in [1 .. Len(ss) -> Seq(S)] : f = Flattening(f, ss) /\ FlattenSeq(ss) = f[Len(ss)]
<1> DEFINE g == CHOOSE f : f = Flattening(f, ss)
<1>1. PICK f \in [1 .. Len(ss) -> Seq(S)] : f = Flattening(f, ss)
  BY FlatteningExists
<1>2. g = Flattening(g, ss)
  BY <1>1
<1>3. FlattenSeq(ss) = g[Len(ss)]
  BY DEF FlattenSeq, Flattening
<1>4. g \in [1 .. Len(ss) -> Seq(S)]
  <2> DEFINE T == {n \in Nat : n \in 1 .. Len(ss) /\ g[n] \notin Seq(S)}
  <2>0. Len(ss) \in Nat /\ \A i \in 1 .. Len(ss) : ss[i] \in Seq(S)
    OBVIOUS
  <2>1. \A i \in 1 .. Len(ss) : g[i] = (IF i = 1 THEN ss[i] ELSE g[i - 1] \o ss[i])
    BY <1>2 DEF Flattening
  <2>2. g = [i \in 1 .. Len(ss) |-> IF i = 1 THEN ss[i] ELSE g[i - 1] \o ss[i]]
    BY <1>2 DEF Flattening
  <2> HIDE DEF g
  <2>3. CASE T # {}
    <3>1. PICK n \in T : \A m \in T : n <= m
      BY <2>3, LeastNumber
    <3>2. n # 1
      BY <2>0, <2>1, <3>1
    <3>3. n - 1 \in 1 .. Len(ss) /\ n - 1 \notin T
      BY <2>0, <3>1, <3>2
    <3>4. g[n - 1] \in Seq(S) /\ ss[n] \in Seq(S)
      BY <2>0, <3>1, <3>3
    <3>5. g[n - 1] \o ss[n] \in Seq(S)
      BY <3>4, ConcatProperties
    <3> QED  BY <2>1, <3>1, <3>2, <3>5
  <2>4. CASE T = {}
    <3>1. \A n \in 1 .. Len(ss) : n \in Nat
      BY <2>0
    <3>2. \A n \in 1 .. Len(ss) : g[n] \in Seq(S)
      BY <2>4, <3>1
    <3> QED  BY <2>2, <3>2
  <2> QED  BY <2>3, <2>4
<1> HIDE DEF g
<1> QED  BY <1>2, <1>3, <1>4

(* No lists, no elements. *)
LEMMA FlattenEmpty == ASSUME NEW ss, Len(ss) = 0 PROVE FlattenSeq(ss) = ss
BY DEF FlattenSeq

(* The elements of the lists are those of their concatenation. *)
LEMMA FlattenTyped ==
    ASSUME NEW S, NEW ss \in Seq(Seq(S))
    PROVE  FlattenSeq(ss) \in Seq(S)
<1>1. CASE Len(ss) = 0
  <2>1. ss = <<>>
    BY <1>1, EmptySeq
  <2>2. FlattenSeq(ss) = <<>>
    BY <1>1, <2>1, FlattenEmpty
  <2> QED  BY <2>2, EmptySeq
<1>2. CASE Len(ss) # 0
  <2>1. Len(ss) \in 1 .. Len(ss)
    BY <1>2, LenProperties
  <2> QED  BY <1>2, <2>1, Flattened
<1> QED  BY <1>1, <1>2

\* A function that flattens the first m lists step by step.
Flattens(f, ss, m) == \A i \in 1 .. m : f[i] = (IF i = 1 THEN ss[i] ELSE f[i - 1] \o ss[i])

(* The same, with the recursion spelled out up to m. *)
LEMMA FlattenedTo ==
    ASSUME NEW S, NEW ss \in Seq(Seq(S)), NEW m \in Nat, m # 0, Len(ss) = m
    PROVE  \E f \in [1 .. m -> Seq(S)] : FlattenSeq(ss) = f[m] /\ Flattens(f, ss, m)
<1>1. PICK f \in [1 .. Len(ss) -> Seq(S)] : f = Flattening(f, ss) /\ FlattenSeq(ss) = f[Len(ss)]
  BY Flattened
<1>2. \A i \in 1 .. Len(ss) : f[i] = (IF i = 1 THEN ss[i] ELSE f[i - 1] \o ss[i])
  BY <1>1 DEF Flattening
<1> QED  BY <1>1, <1>2 DEF Flattens

AgreeAt(f, g, n) == f[n] = g[n]

(* The partial concatenations are determined, whatever lists follow. *)
LEMMA FlatteningsAgree ==
    ASSUME NEW ss, NEW f, NEW g, NEW n, n \in Nat /\ n # 0, Flattens(f, ss, n), Flattens(g, ss, n)
    PROVE  AgreeAt(f, g, n)
<1>0. SUFFICES \A i \in 1 .. n : f[i] = g[i]
  BY DEF AgreeAt
<1> DEFINE T == {i \in 1 .. n : f[i] # g[i]}
<1>1. T \in SUBSET Nat
  OBVIOUS
<1>2. SUFFICES ASSUME T # {} PROVE FALSE
  OBVIOUS
<1>3. PICK i \in T : \A j \in T : i <= j
  BY <1>1, <1>2, LeastNumber
<1>4. i \in 1 .. n /\ f[i] # g[i]
  BY <1>3
<1>5. i # 1
  <2>1. i = 1 => f[i] = ss[i] /\ g[i] = ss[i]
    BY <1>4 DEF Flattens
  <2> QED  BY <1>4, <2>1
<1>6. i - 1 \in 1 .. n /\ i - 1 \notin T
  <2>1. i \in Nat /\ \A j \in T : i <= j
    BY <1>3, <1>4
  <2> HIDE DEF T
  <2> QED  BY <1>4, <1>5, <2>1
<1>7. f[i - 1] = g[i - 1]
  BY <1>6
<1>8. f[i] = f[i - 1] \o ss[i] /\ g[i] = g[i - 1] \o ss[i]
  BY <1>4, <1>5 DEF Flattens
<1> QED  BY <1>4, <1>7, <1>8


(* One more list is appended. *)
LEMMA FlatSnoc ==
    ASSUME NEW S, NEW ss \in Seq(Seq(S)), NEW e \in Seq(S)
    PROVE  FlattenSeq(Append(ss, e)) = FlattenSeq(ss) \o e
<1> DEFINE tt == Append(ss, e)
           n  == Len(ss)
           m  == n + 1
<1>0. n \in Nat /\ m \in Nat /\ m # 0 /\ m \in 1 .. m /\ m - 1 = n
  OBVIOUS
<1>1. tt \in Seq(Seq(S)) /\ Len(tt) = m /\ tt[m] = e /\ \A i \in 1 .. n : tt[i] = ss[i]
  OBVIOUS
<1> HIDE DEF tt
<1>2. PICK f \in [1 .. m -> Seq(S)] : FlattenSeq(tt) = f[m] /\ Flattens(f, tt, m)
  BY <1>0, <1>1, FlattenedTo
<1>3. CASE n = 0
  <2>1. ss = <<>>
    BY <1>3, EmptySeq
  <2>2. FlattenSeq(ss) = <<>>
    BY <1>3, <2>1, FlattenEmpty
  <2>3. m = 1
    BY <1>3
  <2>4. f[m] = e
    BY <1>0, <1>1, <1>2, <2>3 DEF Flattens
  <2>5. <<>> \o e = e
    BY ConcatEmptySeq
  <2> QED  BY <1>2, <2>2, <2>4, <2>5 DEF tt
<1>4. CASE n # 0
  <2>1. PICK g \in [1 .. n -> Seq(S)] : FlattenSeq(ss) = g[n] /\ Flattens(g, ss, n)
    BY <1>0, <1>4, FlattenedTo
  <2>2. \A i \in 1 .. n : i \in 1 .. m
    BY <1>0
  <2>3. m # 1
    BY <1>0, <1>4
  <2> HIDE DEF m, n
  <2>4. Flattens(f, ss, n)
    BY <1>1, <1>2, <2>2 DEF Flattens
  <2>5. f[n] = g[n]
    <3>1. Flattens(g, ss, n)
      BY <2>1
    <3>2. n \in Nat /\ n # 0
      BY <1>0, <1>4
    <3>3. AgreeAt(f, g, n)
      BY ONLY <2>4, <3>1, <3>2, FlatteningsAgree
    <3> QED  BY <3>3 DEF AgreeAt
  <2>6. f[m] = f[n] \o e
    <3>1. f[m] = IF m = 1 THEN tt[m] ELSE f[m - 1] \o tt[m]
      BY <1>0, <1>2 DEF Flattens
    <3> QED  BY <1>0, <1>1, <2>3, <3>1
  <2> QED  BY <1>2, <2>1, <2>5, <2>6 DEF tt
<1> QED  BY <1>3, <1>4

LEMMA FlattenNone == FlattenSeq(<<>>) = <<>>
<1>1. Len(<<>>) = 0
  OBVIOUS
<1> QED  BY <1>1, FlattenEmpty

(* A set of lists has a shortest one: induction over lists. *)
LEMMA ShortestList ==
    ASSUME NEW S, NEW Bad \in SUBSET Seq(S), Bad # {}
    PROVE  \/ <<>> \in Bad
           \/ \E t \in Seq(S) : t \notin Bad /\ \E e \in S : Append(t, e) \in Bad
<1> DEFINE T == {n \in Nat : \E s \in Bad : Len(s) = n}
<1>1. T \in SUBSET Nat /\ T # {}
  OBVIOUS
<1>2. PICK n \in T : \A m \in T : n <= m
  BY <1>1, LeastNumber
<1>3. PICK s \in Bad : Len(s) = n
  BY <1>2
<1>4. s \in Seq(S)
  BY <1>3
<1>5. CASE s # <<>>
  <2>1. PICK t \in Seq(S), e \in S : s = Append(t, e)
    BY <1>4, <1>5, SequenceEmptyOrAppend
  <2>2. Len(t) \in Nat /\ Len(s) = Len(t) + 1
    BY <2>1, AppendProperties, LenProperties
  <2>3. ~(n <= Len(t))
    BY <1>3, <2>2
  <2>4. t \notin Bad
    BY <1>2, <2>2, <2>3
  <2> QED  BY <1>3, <2>1, <2>4
<1> QED  BY <1>3, <1>5

(* Lists can be laid end to end in any grouping. *)
Regroups(a, b, c) == (a \o b) \o c = a \o (b \o c)

LEMMA GroupsAnyway ==
    ASSUME NEW S, NEW a \in Seq(S), NEW b \in Seq(S), NEW c \in Seq(S) PROVE Regroups(a, b, c)
  BY DEF Regroups

(* Concatenation is associative, for any number of lists. *)
LEMMA FlatConcat ==
    ASSUME NEW S, NEW aa \in Seq(Seq(S)), NEW bb \in Seq(Seq(S))
    PROVE  FlattenSeq(aa \o bb) = FlattenSeq(aa) \o FlattenSeq(bb)
<1> DEFINE Bad == {cc \in Seq(Seq(S)) : FlattenSeq(aa \o cc) # FlattenSeq(aa) \o FlattenSeq(cc)}
<1>0. FlattenSeq(aa) \in Seq(S)
  BY FlattenTyped
<1>1. Bad \in SUBSET Seq(Seq(S))
  OBVIOUS
<1>2. SUFFICES ASSUME Bad # {} PROVE FALSE
  OBVIOUS
<1>3. <<>> \notin Bad
  <2>1. aa \o <<>> = aa /\ FlattenSeq(aa) \o <<>> = FlattenSeq(aa)
    BY <1>0, ConcatEmptySeq
  <2> QED  BY <2>1, FlattenNone
<1>4. ASSUME NEW t \in Seq(Seq(S)), t \notin Bad, NEW e \in Seq(S) PROVE Append(t, e) \notin Bad
  <2>0. FlattenSeq(t) \in Seq(S)
    BY FlattenTyped
  <2>1. FlattenSeq(aa \o t) = FlattenSeq(aa) \o FlattenSeq(t)
    BY <1>4
  <2>2. aa \o Append(t, e) = Append(aa \o t, e) /\ aa \o t \in Seq(Seq(S))
    <3>1. Append(t, e) = t \o <<e>> /\ <<e>> \in Seq(Seq(S))
      BY AppendIsConcat
    <3>2. aa \o t \in Seq(Seq(S))
      BY ConcatProperties
    <3>3. Append(aa \o t, e) = (aa \o t) \o <<e>>
      BY <3>2, AppendIsConcat
    <3>4. (aa \o t) \o <<e>> = aa \o (t \o <<e>>)
      <4> DEFINE T == Seq(S)
                 d == <<e>>
      <4>1. aa \in Seq(T) /\ t \in Seq(T) /\ d \in Seq(T)
        BY <3>1
      <4> HIDE DEF T, d
      <4>2. (aa \o t) \o d = aa \o (t \o d)
        BY <4>1
      <4> QED  BY <4>2 DEF d
    <3> QED  BY <3>1, <3>2, <3>3, <3>4
  <2>3. FlattenSeq(Append(aa \o t, e)) = FlattenSeq(aa \o t) \o e
    BY <2>2, FlatSnoc
  <2>4. FlattenSeq(Append(t, e)) = FlattenSeq(t) \o e
    BY FlatSnoc
  <2>5. (FlattenSeq(aa) \o FlattenSeq(t)) \o e = FlattenSeq(aa) \o (FlattenSeq(t) \o e)
    <3> DEFINE a == FlattenSeq(aa)
               b == FlattenSeq(t)
    <3>0. e \in Seq(S)
      OBVIOUS
    <3>1. a \in Seq(S) /\ b \in Seq(S)
      BY <1>0, <2>0
    <3> HIDE DEF a, b
    <3>2. Regroups(a, b, e)
      BY ONLY <3>0, <3>1, GroupsAnyway
    <3> QED  BY ONLY <3>2 DEF a, b, Regroups
  <2>6. FlattenSeq(aa \o Append(t, e)) = FlattenSeq(aa) \o FlattenSeq(Append(t, e))
    <3>1. FlattenSeq(aa \o Append(t, e)) = FlattenSeq(aa \o t) \o e
      BY ONLY <2>2, <2>3, Zenon
    <3>2. FlattenSeq(aa \o t) \o e = (FlattenSeq(aa) \o FlattenSeq(t)) \o e
      BY ONLY <2>1, Zenon
    <3>3. FlattenSeq(aa) \o (FlattenSeq(t) \o e) = FlattenSeq(aa) \o FlattenSeq(Append(t, e))
      BY ONLY <2>4, Zenon
    <3> QED  BY ONLY <2>5, <3>1, <3>2, <3>3, Zenon
  <2> QED  BY <2>6
<1> HIDE DEF Bad
<1> QED  BY <1>1, <1>2, <1>3, <1>4, ShortestList

\* Two lists of one length, element by element in the relation R.
Pairwise(s, t, R) == Len(s) = Len(t) /\ \A j \in 1 .. Len(s) : <<s[j], t[j]>> \in R

LEMMA PairwiseConcat ==
    ASSUME NEW S, NEW T, NEW R, NEW s \in Seq(S), NEW t \in Seq(T), NEW a \in Seq(S), NEW b \in Seq(T),
           Pairwise(s, t, R), Pairwise(a, b, R)
    PROVE  Pairwise(s \o a, t \o b, R)
<1>1. /\ Len(s \o a) = Len(s) + Len(a)
      /\ \A i \in 1 .. Len(s) + Len(a) : (s \o a)[i] = IF i <= Len(s) THEN s[i] ELSE a[i - Len(s)]
  BY ConcatProperties
<1>2. /\ Len(t \o b) = Len(t) + Len(b)
      /\ \A i \in 1 .. Len(t) + Len(b) : (t \o b)[i] = IF i <= Len(t) THEN t[i] ELSE b[i - Len(t)]
  BY ConcatProperties
<1>3. Len(s) \in Nat /\ Len(a) \in Nat /\ Len(t) = Len(s) /\ Len(b) = Len(a)
  BY DEF Pairwise
<1>4. ASSUME NEW i \in 1 .. Len(s) + Len(a) PROVE <<(s \o a)[i], (t \o b)[i]>> \in R
  <2>1. CASE i <= Len(s)
    <3>1. i \in 1 .. Len(s)
      BY <1>3, <2>1
    <3>2. <<s[i], t[i]>> \in R
      BY <3>1 DEF Pairwise
    <3>3. (s \o a)[i] = s[i] /\ (t \o b)[i] = t[i]
      BY <1>1, <1>2, <1>3, <2>1
    <3> QED  BY <3>2, <3>3
  <2>2. CASE ~(i <= Len(s))
    <3>1. i - Len(s) \in 1 .. Len(a)
      BY <1>3, <2>2
    <3>2. <<a[i - Len(s)], b[i - Len(s)]>> \in R
      BY <3>1 DEF Pairwise
    <3>3. (s \o a)[i] = a[i - Len(s)] /\ (t \o b)[i] = b[i - Len(s)]
      BY <1>1, <1>2, <1>3, <2>2
    <3> QED  BY <3>2, <3>3
  <2> QED  BY <2>1, <2>2
<1>5. Len(s \o a) = Len(t \o b)
  BY <1>1, <1>2, <1>3
<1> QED  BY <1>1, <1>4, <1>5 DEF Pairwise

(* Lists related element by element have related concatenations. *)
LEMMA FlatPairwise ==
    ASSUME NEW S, NEW T, NEW R, NEW ss \in Seq(Seq(S)), NEW tt \in Seq(Seq(T)), Len(ss) = Len(tt),
           \A k \in 1 .. Len(ss) : Pairwise(ss[k], tt[k], R)
    PROVE  Pairwise(FlattenSeq(ss), FlattenSeq(tt), R)
<1> DEFINE Alike(x, y) == Len(x) = Len(y) /\ \A k \in 1 .. Len(x) : Pairwise(x[k], y[k], R)
           Fine(x) == \A y \in Seq(Seq(T)) : Alike(x, y) => Pairwise(FlattenSeq(x), FlattenSeq(y), R)
           Bad == {x \in Seq(Seq(S)) : ~Fine(x)}
<1>1. Bad \in SUBSET Seq(Seq(S))
  OBVIOUS
<1>2. Fine(<<>>)
  <2> SUFFICES ASSUME NEW y \in Seq(Seq(T)), Len(y) = 0 PROVE Pairwise(FlattenSeq(<<>>), FlattenSeq(y), R)
    OBVIOUS
  <2>1. y = <<>>
    BY EmptySeq
  <2>2. Pairwise(<<>>, <<>>, R)
    BY DEF Pairwise
  <2> QED  BY <2>1, <2>2, FlattenNone
<1>3. ASSUME NEW x \in Seq(Seq(S)), Fine(x), NEW e \in Seq(S) PROVE Fine(Append(x, e))
  <2>a. Append(x, e) \in Seq(Seq(S))
    OBVIOUS
  <2> SUFFICES ASSUME NEW z \in Seq(Seq(S)), z = Append(x, e), NEW y \in Seq(Seq(T)), Alike(z, y)
               PROVE  Pairwise(FlattenSeq(z), FlattenSeq(y), R)
    BY <2>a
  <2> HIDE DEF Fine, Bad
  <2>b. Len(z) = Len(x) + 1 /\ Len(x) \in Nat
    OBVIOUS
  <2>1. z[Len(x) + 1] = e /\ \A k \in 1 .. Len(x) : z[k] = x[k]
    OBVIOUS
  <2>0. Len(z) = Len(y)
    OBVIOUS
  <2>2. y # <<>>
    <3>1. Len(<<>>) = 0
      OBVIOUS
    <3>2. \A n \in Nat : n + 1 # 0
      OBVIOUS
    <3> QED  BY <2>0, <2>b, <3>1, <3>2, Zenon
  <2>3. PICK u \in Seq(Seq(T)), f \in Seq(T) : y = Append(u, f)
    BY <2>2, SequenceEmptyOrAppend
  <2>4. y[Len(u) + 1] = f /\ \A k \in 1 .. Len(u) : y[k] = u[k]
    BY <2>3
  <2>c. Len(y) = Len(u) + 1 /\ Len(u) \in Nat
    BY <2>3
  <2>5. Len(u) = Len(x)
    <3>1. \A n, m \in Nat : n + 1 = m + 1 => n = m
      OBVIOUS
    <3> QED  BY <2>0, <2>b, <2>c, <3>1, Zenon
  <2>6. \A k \in 1 .. Len(x) : Pairwise(x[k], u[k], R)
    <3> TAKE k \in 1 .. Len(x)
    <3>1. k \in 1 .. Len(z)
      BY <2>b
    <3>2. Pairwise(z[k], y[k], R)
      BY <3>1
    <3> QED  BY <2>1, <2>4, <2>5, <3>2
  <2>7. Pairwise(e, f, R)
    <3>1. Len(x) + 1 \in 1 .. Len(z)
      BY <2>b
    <3>2. Pairwise(z[Len(x) + 1], y[Len(x) + 1], R)
      BY <3>1
    <3> QED  BY <2>1, <2>4, <2>5, <3>2
  <2>8. Pairwise(FlattenSeq(x), FlattenSeq(u), R)
    BY <1>3, <2>5, <2>6 DEF Fine
  <2>9. FlattenSeq(z) = FlattenSeq(x) \o e /\ FlattenSeq(y) = FlattenSeq(u) \o f
    BY <2>3, FlatSnoc
  <2>10. FlattenSeq(x) \in Seq(S) /\ FlattenSeq(u) \in Seq(T)
    BY FlattenTyped
  <2> QED  BY <2>7, <2>8, <2>9, <2>10, PairwiseConcat
<1>4. ASSUME NEW x \in Seq(Seq(S)), x \notin Bad PROVE Fine(x)
  BY <1>4
<1>5. ASSUME NEW x \in Seq(Seq(S)), Fine(x) PROVE x \notin Bad
  BY <1>5
<1> HIDE DEF Bad, Fine
<1>6. <<>> \in Seq(Seq(S))
  OBVIOUS
<1>7. ASSUME NEW x \in Seq(Seq(S)), x \notin Bad, NEW e \in Seq(S) PROVE Append(x, e) \notin Bad
  <2>1. Append(x, e) \in Seq(Seq(S))
    OBVIOUS
  <2> QED  BY <1>3, <1>4, <1>5, <1>7, <2>1
<1>8. Bad = {}
  BY <1>1, <1>2, <1>5, <1>6, <1>7, ShortestList
<1>9. Fine(ss)
  BY <1>4, <1>8
<1> QED  BY <1>9 DEF Fine

(* The elements of a reversed list. *)
LEMMA Reversed ==
    ASSUME NEW S, NEW s \in Seq(S)
    PROVE  /\ Reverse(s) \in Seq(S) /\ Len(Reverse(s)) = Len(s)
           /\ \A i \in 1 .. Len(s) : Reverse(s)[i] = s[Len(s) - i + 1]
BY DEF Reverse

(* The reverse of a list begins with the reverse of its end. *)
LEMMA ReversedEnd ==
    ASSUME NEW S, NEW s \in Seq(S), NEW t \in Seq(S)
    PROVE  \A i \in 1 .. Len(t) : Reverse(s \o t)[i] = Reverse(t)[i]
<1> TAKE i \in 1 .. Len(t)
<1> DEFINE n == Len(s) + Len(t)
<1>1. s \o t \in Seq(S) /\ Len(s \o t) = n
  BY ConcatProperties
<1>2. Len(s) \in Nat /\ Len(t) \in Nat /\ i \in 1 .. n /\ n - i + 1 \in 1 .. n /\ ~(n - i + 1 <= Len(s))
  OBVIOUS
<1>3. Reverse(s \o t)[i] = (s \o t)[n - i + 1]
  BY <1>1, <1>2 DEF Reverse
<1>4. (s \o t)[n - i + 1] = t[(n - i + 1) - Len(s)]
  BY <1>2, ConcatProperties
<1>5. (n - i + 1) - Len(s) = Len(t) - i + 1
  BY <1>2
<1>6. Reverse(t)[i] = t[Len(t) - i + 1]
  BY Reversed
<1> QED  BY <1>3, <1>4, <1>5, <1>6

-----------------------------------------------------------------------------
(* Places. *)

\* A place in the code: the bodies it is in and the calls registered in each,
\* the calls just before it, and what else decides what may follow.
Frame   == [at : Nat, calls : Seq(Call)]
Place   == [open : Seq(Frame), made : Nat, saved : BOOLEAN, dead : BOOLEAN]
Start   == [open |-> << [at |-> 0, calls |-> <<>>] >>, made |-> 0, saved |-> FALSE, dead |-> FALSE]

Lists(open, n) == [i \in 1 .. (Len(open) - n + 1) |-> open[n + i - 1].calls]
Flat(open, n)  == FlattenSeq(Lists(open, n))

Entered(open, p)  == Append(open, [at |-> p, calls |-> <<>>])
Named(i)          == [defer |-> i.defer, name |-> i.name]
LastOf(open)      == open[Len(open)]
WithCall(open, c) == Append(Front(open), [LastOf(open) EXCEPT !.calls = Append(@, c)])

OpenAfter(p, i, open) ==
    CASE i.op \in AllKinds -> Entered(open, p)
      [] i.op = "close"    -> Front(open)
      [] i.op = "let"      -> WithCall(open, Named(i))
      [] OTHER             -> open

After(p, i, c) ==
    [open  |-> OpenAfter(p, i, c.open),
     made  |-> IF i.op = "call" THEN c.made + 1 ELSE 0,
     saved |-> i.op \in {"save", "tail"} \/ (i.op = "call" /\ c.saved),
     dead  |-> i.op \in Jumps \cup Exits \cup {"end"}]

\* What the desugarer does in every body it is made for.
Faithful == "loop-return" \notin Shapes /\ "hidden-exit" \notin Shapes

\* None of the calls is given &x.
NoRef(calls, ds) == \A j \in 1 .. Len(calls) : calls[j].defer \in 1 .. Len(ds) /\ ~ds[calls[j].defer]

\* What may stand at a place: a jump out of a body is preceded by the calls of
\* that body and of those in it, in the order of their execution.
FitsState(i, c) ==
    /\ c.dead => i.op \in {"close", "end"}
    /\ c.made # 0 => i.op \in {"call", "close", "end", "return-saved", "return-name"} \cup Jumps
    /\ i.op \in AllKinds => i.op \in Kinds
    /\ i.op = "return-saved" => c.saved
    /\ i.op = "end" => Len(c.open) = 1
FitsLet(i, c, ds) ==
    i.op = "let" =>
        /\ i.name \in 1 .. MaxStmts /\ i.defer \in 1 .. Len(ds)
        /\ \A j \in 1 .. Len(Flat(c.open, 1)) : Flat(c.open, 1)[j].name < i.name
FitsCall(i, c) ==
    i.op = "call" =>
        /\ c.made + 1 \in 1 .. Len(Flat(c.open, 1))
        /\ Named(i) = Reverse(Flat(c.open, 1))[c.made + 1]
FitsClose(i, c) ==
    i.op = "close" =>
        /\ Len(c.open) >= 2
        /\ i.at = LastOf(c.open).at
        /\ (Faithful /\ ~c.dead => c.made = Len(Flat(c.open, Len(c.open))))
FitsJump(i, c) ==
    i.op \in Jumps =>
        \E n \in 2 .. Len(c.open) :
            i.at = c.open[n].at /\ (Faithful => c.made = Len(Flat(c.open, n)))
FitsExit(i, c, ds) ==
    i.op \in Exits \cup {"end"} =>
        /\ (Faithful /\ ~c.dead => c.made = Len(Flat(c.open, 1)))
        /\ (i.op = "return-name" /\ "name" \notin Shapes => NoRef(Flat(c.open, 1), ds))
Fits(i, c, ds) ==
    FitsState(i, c) /\ FitsLet(i, c, ds) /\ FitsCall(i, c) /\ FitsClose(i, c)
        /\ FitsJump(i, c) /\ FitsExit(i, c, ds)

\* The bodies of a place are those that their opening instructions are in.
Encloses(code, ctx, open, p) ==
    /\ open # <<>> /\ open[1].at = 0
    /\ \A k \in 2 .. Len(open) :
          /\ open[k].at \in 1 .. p - 1
          /\ code[open[k].at].op \in Kinds
          /\ ctx[open[k].at].open = SubSeq(open, 1, k - 1)

InBody(open, a) == \E k \in 1 .. Len(open) : open[k].at = a

Placed(code, ctx, ds) ==
    /\ Len(ctx) = Len(code) + 1
    /\ ctx[1] = Start
    /\ \A p \in 1 .. Len(code) : Fits(code[p], ctx[p], ds) /\ ctx[p + 1] = After(p, code[p], ctx[p])
Nested(code, ctx) == \A p \in 1 .. Len(code) + 1 : Encloses(code, ctx, ctx[p].open, p)
Closed(code, ctx) ==
    \A a \in 1 .. Len(code) : code[a].op \in AllKinds =>
        \/ InBody(ctx[Len(code) + 1].open, a)
        \/ \E q \in 1 .. Len(code) : code[q].op = "close" /\ code[q].at = a
Code(code, ctx, ds) == Placed(code, ctx, ds) /\ Nested(code, ctx) /\ Closed(code, ctx)

TopOf(bs) == bs[Len(bs)]

\* The bodies of the place are those being written.
Mirrors(c, bs) ==
    /\ Len(c.open) = Len(bs)
    /\ \A k \in 1 .. Len(bs) : c.open[k].at = bs[k].at /\ c.open[k].calls = bs[k].defers
    /\ c.made = 0
    /\ c.dead <=> TopOf(bs).exited

Outers(bs) ==
    /\ \A k \in 1 .. Len(bs) - 1 : ~bs[k].exited
    /\ \A k \in 1 .. Len(bs) : ~bs[k].seen => bs[k].defers = <<>>
    /\ bs[1].seen /\ bs[1].kind = "fn"

\* The chain of body k: the bodies from the innermost loop on, or all.
ChainFrom(bs, k, n) ==
    /\ Len(Chain(bs[k])) = k - n + 1
    /\ \A i \in 1 .. k - n + 1 : Chain(bs[k])[i] = bs[n + i - 1].defers
    /\ n = 1 \/ bs[n].kind = "while"
    /\ \A m \in n + 1 .. k : bs[m].kind # "while"
Chains(bs) == \A k \in 1 .. Len(bs) : \E n \in 1 .. k : ChainFrom(bs, k, n)

Counted(c, ds, cnt, lft) ==
    /\ \A j \in 1 .. Len(Flat(c.open, 1)) :
          Flat(c.open, 1)[j].name <= cnt /\ Flat(c.open, 1)[j].defer \in 1 .. Len(ds)
    /\ Len(ds) + lft <= MaxStmts

Tails(code, bs) ==
    /\ \A p \in 1 .. Len(code) : code[p].op # "end"
    /\ \A p \in 1 .. Len(code) : code[p].op = "tail" =>
          p = Len(code) /\ Len(bs) = 1 /\ ("tail" \notin Shapes => TopOf(bs).defers = <<>>)

Links(c, code, bs, ds, cnt, lft) ==
    Mirrors(c, bs) /\ Outers(bs) /\ Chains(bs) /\ Counted(c, ds, cnt, lft) /\ Tails(code, bs)

Fresh == run = [pc |-> 1, x |-> 0, lets |-> [n \in 0 .. MaxStmts |-> Unset],
              saved |-> 0, result |-> Void, rounds |-> MaxRounds,
              live |-> <<[at |-> 0, owed |-> <<>>]>>,
              due |-> <<>>, ran |-> <<>>, want |-> 0]

\* The end of a list of lists, from m on.
From(ll, m) == SubSeq(ll, m, Len(ll))

(* The lists up to a point and those from it on. *)
LEMMA FlatParts ==
    ASSUME NEW S, NEW ll \in Seq(Seq(S)), NEW m \in 1 .. Len(ll) + 1
    PROVE  /\ SubSeq(ll, 1, m - 1) \in Seq(Seq(S)) /\ From(ll, m) \in Seq(Seq(S))
           /\ FlattenSeq(SubSeq(ll, 1, m - 1)) \in Seq(S) /\ FlattenSeq(From(ll, m)) \in Seq(S)
           /\ FlattenSeq(ll) = FlattenSeq(SubSeq(ll, 1, m - 1)) \o FlattenSeq(From(ll, m))
<1> DEFINE T == Seq(S)
           k == m - 1
           n == Len(ll)
<1>1. ll \in Seq(T) /\ n \in Nat /\ k \in Nat /\ k \in 1 - 1 .. n /\ n \in k .. n /\ 1 \in 1 .. n + 1 /\ k + 1 = m
  OBVIOUS
<1>2. \A i \in 1 .. n : ll[i] \in T
  OBVIOUS
<1>3. SubSeq(ll, 1, k) \in Seq(T) /\ SubSeq(ll, m, n) \in Seq(T)
  BY <1>1, <1>2, SubSeqProperties
<1>4. SubSeq(ll, 1, k) \o SubSeq(ll, k + 1, n) = SubSeq(ll, 1, n)
  <2> HIDE DEF T, k, n
  <2> QED  BY <1>1, ConcatAdjacentSubSeq DEF n
<1>5. SubSeq(ll, 1, n) = ll
  BY SubSeqFull
<1>6. FlattenSeq(ll) = FlattenSeq(SubSeq(ll, 1, k)) \o FlattenSeq(SubSeq(ll, m, n))
  <2> DEFINE a == SubSeq(ll, 1, k)
             b == SubSeq(ll, m, n)
  <2>1. ll = a \o b
    BY <1>1, <1>4, <1>5
  <2>2. a \in Seq(Seq(S)) /\ b \in Seq(Seq(S))
    BY <1>3
  <2> HIDE DEF k, n, T, a, b
  <2>3. FlattenSeq(a \o b) = FlattenSeq(a) \o FlattenSeq(b)
    BY <2>2, FlatConcat
  <2> QED  BY <2>1, <2>3 DEF a, b
<1> QED  BY <1>3, <1>6, FlattenTyped DEF From

\* The first calls of the reverse are those of the innermost bodies.
LEMMA ReversedFrom ==
    ASSUME NEW S, NEW ll \in Seq(Seq(S)), NEW m \in 1 .. Len(ll) + 1
    PROVE  LET f == FlattenSeq(From(ll, m))
           IN  /\ Len(f) \in Nat /\ Len(f) <= Len(FlattenSeq(ll))
               /\ \A i \in 1 .. Len(f) : Reverse(FlattenSeq(ll))[i] = Reverse(f)[i]
               /\ SubSeq(Reverse(FlattenSeq(ll)), 1, Len(f)) = Reverse(f)
<1> DEFINE f == FlattenSeq(From(ll, m))
           h == FlattenSeq(SubSeq(ll, 1, m - 1))
           g == FlattenSeq(ll)
<1>1. f \in Seq(S) /\ h \in Seq(S) /\ g = h \o f /\ g \in Seq(S)
  BY FlatParts, FlattenTyped
<1> HIDE DEF f, h, g
<1>2. Len(f) \in Nat /\ Len(g) \in Nat /\ Len(f) <= Len(g)
  BY <1>1
<1>3. \A i \in 1 .. Len(f) : Reverse(g)[i] = Reverse(f)[i]
  BY <1>1, ReversedEnd
<1>4. Reverse(g) \in Seq(S) /\ Len(Reverse(g)) = Len(g) /\ Reverse(f) \in Seq(S) /\ Len(Reverse(f)) = Len(f)
  BY <1>1, Reversed
<1>5. SubSeq(Reverse(g), 1, Len(f)) = Reverse(f)
  <2> DEFINE rg == Reverse(g)
             rf == Reverse(f)
             s  == SubSeq(rg, 1, Len(f))
  <2> HIDE DEF rg, rf
  <2>1. rg \in Seq(S) /\ rf \in Seq(S) /\ Len(rf) = Len(f) /\ Len(f) <= Len(rg)
    BY <1>2, <1>4 DEF rg, rf
  <2>2. s \in Seq(S) /\ Len(s) = Len(f) /\ \A i \in 1 .. Len(f) : s[i] = rg[i]
    BY <1>2, <2>1
  <2>3. \A i \in 1 .. Len(f) : s[i] = rf[i]
    BY <1>3, <2>2 DEF rg, rf
  <2> HIDE DEF s
  <2>4. s = rf
    BY <2>1, <2>2, <2>3, SeqEqual
  <2> QED  BY <2>4 DEF s, rf, rg
<1> QED  BY <1>2, <1>3, <1>5 DEF f, g

LEMMA FlatOne ==
    ASSUME NEW S, NEW s \in Seq(S)
    PROVE  FlattenSeq(<<s>>) = s
<1>1. <<s>> = Append(<<>>, s) /\ <<>> \in Seq(Seq(S))
  OBVIOUS
<1>2. FlattenSeq(<<s>>) = <<>> \o s
  BY <1>1, FlatSnoc, FlattenNone
<1> QED  BY <1>2, ConcatEmptySeq

----------------------------------------------------------------------------
(* The bodies of a place *)

\* All the lists of a place.
All(open) == Lists(open, 1)

(* The calls of the bodies of a place, from the n-th body on. *)
LEMMA ListsTyped ==
    ASSUME NEW open \in Seq(Frame), NEW n \in 1 .. Len(open) + 1
    PROVE  /\ Lists(open, n) \in Seq(Seq(Call)) /\ Len(Lists(open, n)) = Len(open) - n + 1
           /\ \A i \in 1 .. Len(open) - n + 1 : Lists(open, n)[i] = open[n + i - 1].calls
           /\ Flat(open, n) \in Seq(Call) /\ Len(Flat(open, n)) \in Nat
           /\ Lists(open, n) = From(All(open), n)
<1> DEFINE m == Len(open) - n + 1
<1>0. Len(open) \in Nat /\ m \in Nat /\ \A k \in 1 .. Len(open) : open[k].calls \in Seq(Call)
  <2>1. Len(open) \in Nat /\ m \in Nat
    OBVIOUS
  <2>2. ASSUME NEW k \in 1 .. Len(open) PROVE open[k].calls \in Seq(Call)
    <3>1. open[k] \in Frame
      BY ElementOfSeq
    <3> QED  BY <3>1 DEF Frame
  <2> QED  BY <2>1, <2>2
<1>1. \A i \in 1 .. m : n + i - 1 \in 1 .. Len(open)
  BY <1>0
<1>2. /\ Lists(open, n) \in Seq(Seq(Call)) /\ Len(Lists(open, n)) = m
      /\ \A i \in 1 .. m : Lists(open, n)[i] = open[n + i - 1].calls
  BY <1>0, <1>1 DEF Lists
<1>3. Flat(open, n) \in Seq(Call) /\ Len(Flat(open, n)) \in Nat
  BY <1>2, FlattenTyped, LenProperties DEF Flat
<1>4. /\ All(open) \in Seq(Seq(Call)) /\ Len(All(open)) = Len(open)
      /\ \A i \in 1 .. Len(open) : All(open)[i] = open[i].calls
  BY <1>0 DEF All, Lists
<1>5. /\ From(All(open), n) \in Seq(Seq(Call)) /\ Len(From(All(open), n)) = m
      /\ \A i \in 1 .. m : From(All(open), n)[i] = open[n + i - 1].calls
  <2> DEFINE a == All(open)
  <2> HIDE DEF a
  <2>1. a \in Seq(Seq(Call)) /\ Len(a) = Len(open) /\ \A i \in 1 .. Len(open) : a[i] = open[i].calls
    BY <1>4 DEF a
  <2>2. /\ SubSeq(a, n, Len(a)) \in Seq(Seq(Call)) /\ Len(SubSeq(a, n, Len(a))) = m
        /\ \A i \in 1 .. m : SubSeq(a, n, Len(a))[i] = a[n + i - 1]
    BY <1>0, <2>1
  <2> QED  BY <1>1, <2>1, <2>2 DEF a, From
<1>6. Lists(open, n) = From(All(open), n)
  <2> DEFINE a == Lists(open, n)
             b == From(All(open), n)
  <2>1. a \in Seq(Seq(Call)) /\ b \in Seq(Seq(Call)) /\ Len(a) = m /\ Len(b) = m /\ \A i \in 1 .. m : a[i] = b[i]
    BY <1>2, <1>5
  <2> HIDE DEF a, b
  <2>2. a = b
    BY <2>1, SeqEqual
  <2> QED  BY <2>2 DEF a, b
<1> QED  BY <1>2, <1>3, <1>6

(* In reverse, the calls of the inner bodies come first. *)
LEMMA FlatFrom ==
    ASSUME NEW open \in Seq(Frame), NEW n \in 1 .. Len(open) + 1
    PROVE  /\ Flat(open, 1) \in Seq(Call) /\ Flat(open, n) \in Seq(Call)
           /\ Len(Flat(open, n)) <= Len(Flat(open, 1))
           /\ \A i \in 1 .. Len(Flat(open, n)) : Reverse(Flat(open, 1))[i] = Reverse(Flat(open, n))[i]
           /\ SubSeq(Reverse(Flat(open, 1)), 1, Len(Flat(open, n))) = Reverse(Flat(open, n))
<1>1. 1 \in 1 .. Len(open) + 1 /\ Len(open) - 1 + 1 = Len(open)
  OBVIOUS
<1>2. All(open) \in Seq(Seq(Call)) /\ Len(All(open)) = Len(open) /\ Flat(open, 1) = FlattenSeq(All(open))
  BY <1>1, ListsTyped DEF All, Flat
<1>3. Flat(open, n) = FlattenSeq(From(All(open), n))
  BY ListsTyped DEF Flat
<1>4. n \in 1 .. Len(All(open)) + 1
  BY <1>2
<1>5. Flat(open, 1) \in Seq(Call) /\ Flat(open, n) \in Seq(Call)
  BY <1>1, ListsTyped
<1> QED  BY <1>2, <1>3, <1>4, <1>5, ReversedFrom

LEMMA FrameCalls ==
    ASSUME NEW open \in Seq(Frame), NEW k \in 1 .. Len(open)
    PROVE  open[k] \in Frame /\ open[k].calls \in Seq(Call) /\ open[k].at \in Nat
<1>1. open[k] \in Frame
  BY ElementOfSeq
<1> QED  BY <1>1 DEF Frame

(* A list without its last element. *)
LEMMA Fronts ==
    ASSUME NEW S, NEW s \in Seq(S), s # <<>>
    PROVE  /\ Front(s) \in Seq(S) /\ Len(Front(s)) = Len(s) - 1 /\ Len(s) \in Nat /\ Len(s) >= 1
           /\ Len(s) \in 1 .. Len(s) /\ s[Len(s)] \in S
           /\ \A k \in 1 .. Len(s) - 1 : Front(s)[k] = s[k]
<1>1. Len(s) \in Nat /\ Len(s) >= 1
  BY EmptySeq
<1>2. Len(s) - 1 \in Nat /\ \A k \in 1 .. Len(s) - 1 : s[k] \in S
  BY <1>1
<1>3. /\ SubSeq(s, 1, Len(s) - 1) \in Seq(S) /\ Len(SubSeq(s, 1, Len(s) - 1)) = Len(s) - 1
      /\ \A k \in 1 .. Len(s) - 1 : SubSeq(s, 1, Len(s) - 1)[k] = s[k]
  <2> DEFINE n == Len(s) - 1
  <2>1. n \in Nat /\ \A k \in 1 .. n : s[k] \in S
    BY <1>2
  <2> HIDE DEF n
  <2>2. SubSeq(s, 1, n) \in Seq(S) /\ Len(SubSeq(s, 1, n)) = n /\ \A k \in 1 .. n : SubSeq(s, 1, n)[k] = s[k]
    BY <2>1
  <2> QED  BY <2>2 DEF n
<1> QED  BY <1>1, <1>2, <1>3 DEF Front

LEMMA ConcatAppend ==
    ASSUME NEW S, NEW s \in Seq(S), NEW t \in Seq(S), NEW e \in S
    PROVE  s \o Append(t, e) = Append(s \o t, e)
OBVIOUS

(* The innermost body contributes the last calls. *)
LEMMA FlatSplitLast ==
    ASSUME NEW open \in Seq(Frame), open # <<>>, NEW n \in 1 .. Len(open)
    PROVE  Flat(open, n) = Flat(Front(open), n) \o LastOf(open).calls
<1> DEFINE f == Front(open)
           L == Len(open)
           e == LastOf(open).calls
           m == L - n
<1>1. f \in Seq(Frame) /\ Len(f) = L - 1 /\ L \in Nat /\ L >= 1 /\ L \in 1 .. L
  BY Fronts
<1>2. \A k \in 1 .. L - 1 : f[k] = open[k]
  BY Fronts
<1>3. e \in Seq(Call)
  BY <1>1, FrameCalls DEF LastOf
<1>4. n \in 1 .. Len(f) + 1 /\ n \in 1 .. L + 1 /\ m \in Nat /\ Len(f) - n + 1 = m /\ L - n + 1 = m + 1
  BY <1>1
<1>5. /\ Lists(f, n) \in Seq(Seq(Call)) /\ Len(Lists(f, n)) = m
      /\ \A i \in 1 .. m : Lists(f, n)[i] = f[n + i - 1].calls
  BY <1>1, <1>4, ListsTyped
<1>6. /\ Lists(open, n) \in Seq(Seq(Call)) /\ Len(Lists(open, n)) = m + 1
      /\ \A i \in 1 .. m + 1 : Lists(open, n)[i] = open[n + i - 1].calls
  BY <1>1, <1>4, ListsTyped
<1>7. \A i \in 1 .. m : n + i - 1 \in 1 .. L - 1 /\ i \in 1 .. m + 1
  BY <1>1, <1>4
<1>8. n + (m + 1) - 1 = L /\ m + 1 \in 1 .. m + 1
  BY <1>1, <1>4
<1>9. Lists(open, n) = Append(Lists(f, n), e)
  <2> DEFINE a == Lists(open, n)
             d == Lists(f, n)
             b == Append(d, e)
  <2>1. \A i \in 1 .. m : a[i] = d[i]
    BY <1>2, <1>5, <1>6, <1>7
  <2>2. a[m + 1] = e
    BY <1>6, <1>8 DEF LastOf
  <2>3. d \in Seq(Seq(Call)) /\ Len(d) = m /\ a \in Seq(Seq(Call)) /\ Len(a) = m + 1
    BY <1>5, <1>6
  <2> HIDE DEF a, d, e
  <2>4. b \in Seq(Seq(Call)) /\ Len(b) = m + 1 /\ b[m + 1] = e /\ \A i \in 1 .. m : b[i] = d[i]
    <3> DEFINE T == Seq(Call)
    <3>1. e \in T /\ d \in Seq(T)
      BY <1>3, <2>3
    <3> HIDE DEF T, m
    <3>2. /\ Append(d, e) \in Seq(T) /\ Len(Append(d, e)) = Len(d) + 1 /\ Append(d, e)[Len(d) + 1] = e
          /\ \A i \in 1 .. Len(d) : Append(d, e)[i] = d[i]
      BY <3>1, AppendProperties
    <3> QED  BY <2>3, <3>2 DEF T
  <2> HIDE DEF b
  <2>5. \A i \in 1 .. m + 1 : a[i] = b[i]
    <3> TAKE i \in 1 .. m + 1
    <3>1. CASE i = m + 1
      BY <2>2, <2>4, <3>1
    <3>2. CASE i # m + 1
      <4>1. i \in 1 .. m
        BY <1>4, <3>2
      <4> QED  BY <2>1, <2>4, <4>1
    <3> QED  BY <3>1, <3>2
  <2>6. a = b
    BY <2>3, <2>4, <2>5, SeqEqual
  <2> QED  BY <2>6 DEF a, b, d
<1>10. FlattenSeq(Append(Lists(f, n), e)) = FlattenSeq(Lists(f, n)) \o e
  BY <1>3, <1>5, FlatSnoc
<1> QED  BY <1>9, <1>10 DEF Flat

(* The bodies after one more was opened, *)
LEMMA EnteredFacts ==
    ASSUME NEW open \in Seq(Frame), NEW p \in Nat
    PROVE  /\ Entered(open, p) \in Seq(Frame) /\ Len(Entered(open, p)) = Len(open) + 1
           /\ Len(open) \in Nat /\ Entered(open, p) # <<>>
           /\ \A k \in 1 .. Len(open) : Entered(open, p)[k] = open[k]
           /\ Entered(open, p)[Len(open) + 1] = [at |-> p, calls |-> <<>>]
<1> DEFINE e == [at |-> p, calls |-> <<>>]
<1>1. e \in Frame
  BY DEF Frame
<1> HIDE DEF e
<1>2. Append(open, e) \in Seq(Frame) /\ Len(Append(open, e)) = Len(open) + 1
      /\ Len(open) \in Nat /\ Append(open, e) # <<>>
      /\ \A k \in 1 .. Len(open) : Append(open, e)[k] = open[k]
      /\ Append(open, e)[Len(open) + 1] = e
  BY <1>1
<1> QED  BY <1>2 DEF Entered, e

(* in which no call is registered yet. *)
LEMMA FlatEntered ==
    ASSUME NEW open \in Seq(Frame), NEW p \in Nat, NEW n \in 1 .. Len(open) + 1
    PROVE  Flat(Entered(open, p), n) = Flat(open, n)
<1> DEFINE o == Entered(open, p)
<1>1. /\ o \in Seq(Frame) /\ Len(o) = Len(open) + 1 /\ Len(open) \in Nat /\ o # <<>>
      /\ \A k \in 1 .. Len(open) : o[k] = open[k]
      /\ o[Len(open) + 1] = [at |-> p, calls |-> <<>>]
  BY EnteredFacts
<1> HIDE DEF o
<1>2. Front(o) = open
  <2>1. Front(o) \in Seq(Frame) /\ Len(Front(o)) = Len(o) - 1 /\ \A k \in 1 .. Len(o) - 1 : Front(o)[k] = o[k]
    BY <1>1, Fronts
  <2>2. Len(o) - 1 = Len(open)
    BY <1>1
  <2> QED  BY <1>1, <2>1, <2>2, SeqEqual
<1>3. LastOf(o).calls = <<>>
  BY <1>1 DEF LastOf
<1>4. n \in 1 .. Len(o)
  BY <1>1
<1>5. Flat(o, n) = Flat(open, n) \o <<>>
  BY <1>1, <1>2, <1>3, <1>4, FlatSplitLast
<1>6. Flat(open, n) \in Seq(Call)
  BY ListsTyped
<1>7. Flat(open, n) \o <<>> = Flat(open, n)
  BY <1>6, ConcatEmptySeq
<1> QED  BY <1>5, <1>7 DEF o

(* The bodies after one more call was registered in the innermost, *)
LEMMA WithCallFacts ==
    ASSUME NEW open \in Seq(Frame), open # <<>>, NEW c \in Call
    PROVE  /\ WithCall(open, c) \in Seq(Frame) /\ Len(WithCall(open, c)) = Len(open)
           /\ WithCall(open, c) # <<>> /\ Front(WithCall(open, c)) = Front(open)
           /\ \A k \in 1 .. Len(open) - 1 : WithCall(open, c)[k] = open[k]
           /\ \A k \in 1 .. Len(open) : WithCall(open, c)[k].at = open[k].at
           /\ WithCall(open, c)[Len(open)].calls = Append(LastOf(open).calls, c)
<1> DEFINE L == Len(open)
           e == [LastOf(open) EXCEPT !.calls = Append(@, c)]
           f == Front(open)
           w == Append(f, e)
<1>1. f \in Seq(Frame) /\ Len(f) = L - 1 /\ L \in Nat /\ L >= 1 /\ L \in 1 .. L /\ open[L] \in Frame
  BY Fronts
<1>2. \A k \in 1 .. L - 1 : f[k] = open[k]
  BY Fronts
<1>3. LastOf(open) \in Frame /\ LastOf(open).calls \in Seq(Call)
  BY <1>1, FrameCalls DEF LastOf
<1>4. Append(LastOf(open).calls, c) \in Seq(Call)
  BY <1>3
<1>5. e \in Frame /\ e.at = open[L].at /\ e.calls = Append(LastOf(open).calls, c)
  BY <1>3, <1>4 DEF Frame, LastOf
<1> HIDE DEF e, f
<1>6. w \in Seq(Frame) /\ Len(w) = L /\ w # <<>> /\ w[L] = e /\ \A k \in 1 .. L - 1 : w[k] = f[k]
  BY <1>1, <1>5
<1>7. Front(w) = f
  <2> HIDE DEF w
  <2>1. Front(w) \in Seq(Frame) /\ Len(Front(w)) = L - 1 /\ \A k \in 1 .. L - 1 : Front(w)[k] = w[k]
    BY <1>6, Fronts
  <2>2. \A k \in 1 .. L - 1 : Front(w)[k] = f[k]
    BY <1>6, <2>1
  <2> QED  BY <1>1, <2>1, <2>2, SeqEqual
<1> HIDE DEF w
<1>8. \A k \in 1 .. L : w[k].at = open[k].at
  <2> TAKE k \in 1 .. L
  <2>1. CASE k = L
    BY <1>5, <1>6, <2>1
  <2>2. CASE k # L
    <3>1. k \in 1 .. L - 1
      BY <1>1, <2>2
    <3> QED  BY <1>2, <1>6, <3>1
  <2> QED  BY <2>1, <2>2
<1> QED  BY <1>2, <1>5, <1>6, <1>7, <1>8 DEF WithCall, w, e, f

(* which is then the last call. *)
LEMMA FlatWithCall ==
    ASSUME NEW open \in Seq(Frame), open # <<>>, NEW c \in Call, NEW n \in 1 .. Len(open)
    PROVE  Flat(WithCall(open, c), n) = Append(Flat(open, n), c)
<1> DEFINE w == WithCall(open, c)
           e == LastOf(open).calls
           f == Flat(Front(open), n)
<1>1. w \in Seq(Frame) /\ Len(w) = Len(open) /\ w # <<>> /\ Front(w) = Front(open) /\ w[Len(w)].calls = Append(e, c)
  BY WithCallFacts
<1>2. Flat(w, n) = f \o Append(e, c)
  BY <1>1, FlatSplitLast DEF LastOf
<1>3. Flat(open, n) = f \o e
  BY FlatSplitLast
<1>4. e \in Seq(Call) /\ f \in Seq(Call)
  <2>1. Front(open) \in Seq(Frame) /\ Len(Front(open)) = Len(open) - 1 /\ Len(open) \in 1 .. Len(open) /\ Len(open) \in Nat
    BY Fronts
  <2>2. n \in 1 .. Len(Front(open)) + 1
    BY <2>1
  <2> QED  BY <2>1, <2>2, FrameCalls, ListsTyped DEF LastOf
<1> HIDE DEF w, e, f
<1>5. f \o Append(e, c) = Append(f \o e, c)
  BY <1>4, ConcatAppend
<1> QED  BY <1>2, <1>3, <1>5 DEF w
----------------------------------------------------------------------------
(* Code and its places *)

-----------------------------------------------------------------------------
(* One more instruction. *)

(* The instructions that open a body are none of the others. *)
LEMMA OpKinds ==
    /\ \A op \in AllKinds : op \notin {"let", "call", "assign", "save", "tail", "close", "end"} \cup Jumps \cup Exits
    /\ Kinds \subseteq AllKinds
BY DeferAssumption DEF AllKinds, Hidden, Jumps, Exits

(* Places and instructions by their fields. *)
LEMMA PlaceParts ==
    ASSUME NEW c \in Place
    PROVE  c.open \in Seq(Frame) /\ c.made \in Nat /\ c.saved \in BOOLEAN /\ c.dead \in BOOLEAN
BY DEF Place

LEMMA InstrParts ==
    ASSUME NEW i \in Instr
    PROVE  i.op \in Ops /\ i.defer \in Nat /\ i.name \in Nat /\ i.at \in Nat /\ Named(i) \in Call
<1>1. i.op \in Ops /\ i.defer \in Nat /\ i.name \in Nat /\ i.at \in Nat
  BY DEF Instr
<1> QED  BY <1>1 DEF Named, Call

\* Every other instruction leaves the stack alone.
LEMMA OpenKept ==
    ASSUME NEW i, NEW p, NEW open, i.op \notin AllKinds \cup {"close", "let"}
    PROVE  OpenAfter(p, i, open) = open
BY DEF OpenAfter

(* The bodies of the next place, by instruction. *)
LEMMA AfterOpen ==
    ASSUME NEW open \in Seq(Frame), open # <<>>, NEW i \in Instr, NEW p \in Nat
    PROVE  /\ i.op \in AllKinds => OpenAfter(p, i, open) = Entered(open, p)
           /\ i.op = "close" => OpenAfter(p, i, open) = Front(open)
           /\ i.op = "let" => OpenAfter(p, i, open) = WithCall(open, Named(i))
           /\ i.op \notin AllKinds \cup {"close", "let"} => OpenAfter(p, i, open) = open
           /\ OpenAfter(p, i, open) \in Seq(Frame)
<1>1. CASE i.op \in AllKinds
  <2>1. OpenAfter(p, i, open) = Entered(open, p) /\ i.op # "close" /\ i.op # "let"
    BY <1>1, OpKinds DEF OpenAfter
  <2> QED  BY <1>1, <2>1, EnteredFacts
<1>2. CASE i.op = "close"
  <2>1. i.op \notin AllKinds /\ i.op # "let"
    BY <1>2, OpKinds
  <2>2. OpenAfter(p, i, open) = Front(open)
    BY <1>2, <2>1 DEF OpenAfter
  <2>3. Front(open) \in Seq(Frame)
    BY Fronts
  <2> QED  BY <1>2, <2>1, <2>2, <2>3
<1>3. CASE i.op = "let"
  <2>1. i.op \notin AllKinds /\ i.op # "close"
    BY <1>3, OpKinds
  <2>2. OpenAfter(p, i, open) = WithCall(open, Named(i))
    BY <1>3, <2>1 DEF OpenAfter
  <2>3. WithCall(open, Named(i)) \in Seq(Frame)
    BY InstrParts, WithCallFacts
  <2> QED  BY <1>3, <2>1, <2>2, <2>3
<1>4. CASE i.op \notin AllKinds \cup {"close", "let"}
  BY <1>4 DEF OpenAfter
<1> QED  BY <1>1, <1>2, <1>3, <1>4

(* The next place. *)
LEMMA AfterTyped ==
    ASSUME NEW c \in Place, c.open # <<>>, NEW i \in Instr, NEW p \in Nat
    PROVE  /\ After(p, i, c) \in Place
           /\ After(p, i, c).open = OpenAfter(p, i, c.open)
           /\ After(p, i, c).made = IF i.op = "call" THEN c.made + 1 ELSE 0
           /\ After(p, i, c).saved <=> (i.op \in {"save", "tail"} \/ (i.op = "call" /\ c.saved))
           /\ After(p, i, c).dead <=> (i.op \in Jumps \cup Exits \cup {"end"})
<1>1. c.open \in Seq(Frame) /\ c.made \in Nat
  BY PlaceParts
<1>2. OpenAfter(p, i, c.open) \in Seq(Frame)
  BY <1>1, AfterOpen
<1>3. (IF i.op = "call" THEN c.made + 1 ELSE 0) \in Nat
  BY <1>1
<1> DEFINE o == OpenAfter(p, i, c.open)
           m == IF i.op = "call" THEN c.made + 1 ELSE 0
           s == i.op \in {"save", "tail"} \/ (i.op = "call" /\ c.saved)
           d == i.op \in Jumps \cup Exits \cup {"end"}
<1>4. s \in BOOLEAN /\ d \in BOOLEAN
  OBVIOUS
<1>5. After(p, i, c) = [open |-> o, made |-> m, saved |-> s, dead |-> d]
  BY DEF After
<1> HIDE DEF o, m, s, d
<1>6. [open |-> o, made |-> m, saved |-> s, dead |-> d] \in Place
  <2>1. o \in Seq(Frame) /\ m \in Nat
    BY <1>2, <1>3 DEF o, m
  <2> QED  BY <1>4, <2>1 DEF Place
<1>7. After(p, i, c).open = o /\ After(p, i, c).made = m /\ After(p, i, c).saved = s /\ After(p, i, c).dead = d
  BY <1>5
<1> QED  BY <1>5, <1>6, <1>7 DEF o, m, s, d

LEMMA SamePrefix ==
    ASSUME NEW S, NEW s \in Seq(S), NEW t \in Seq(S), NEW n \in Nat, n <= Len(s), n <= Len(t),
           \A j \in 1 .. n : s[j] = t[j]
    PROVE  SubSeq(s, 1, n) = SubSeq(t, 1, n)
<1> DEFINE a == SubSeq(s, 1, n)
           b == SubSeq(t, 1, n)
<1>1. a \in Seq(S) /\ Len(a) = n /\ \A j \in 1 .. n : a[j] = s[j]
  OBVIOUS
<1>2. b \in Seq(S) /\ Len(b) = n /\ \A j \in 1 .. n : b[j] = t[j]
  OBVIOUS
<1> HIDE DEF a, b
<1>3. a = b
  BY <1>1, <1>2, SeqEqual
<1> QED  BY <1>3 DEF a, b

\* How the bodies change: all but the last stay, it may end or get a call, or
\* one is opened behind it.
Grows(o, w, q) ==
    /\ w # <<>> /\ Len(w) \in Nat
    /\ \A k \in 1 .. Len(w) :
          \/ k <= Len(o) /\ w[k].at = o[k].at /\ \A j \in 1 .. k - 1 : w[j] = o[j]
          \/ k = Len(o) + 1 /\ w[k].at = q /\ \A j \in 1 .. k - 1 : w[j] = o[j]

(* So they do for every instruction: one that opens a body, *)
LEMMA GrowsEntered ==
    ASSUME NEW o \in Seq(Frame), NEW q \in Nat
    PROVE  Grows(o, Entered(o, q), q)
<1> DEFINE w == Entered(o, q)
<1>1. /\ w \in Seq(Frame) /\ Len(w) = Len(o) + 1 /\ Len(o) \in Nat /\ w # <<>>
      /\ \A k \in 1 .. Len(o) : w[k] = o[k]
      /\ w[Len(o) + 1] = [at |-> q, calls |-> <<>>]
  BY EnteredFacts
<1> HIDE DEF w
<1>2. ASSUME NEW k \in 1 .. Len(w)
      PROVE  \/ k <= Len(o) /\ w[k].at = o[k].at /\ \A j \in 1 .. k - 1 : w[j] = o[j]
             \/ k = Len(o) + 1 /\ w[k].at = q /\ \A j \in 1 .. k - 1 : w[j] = o[j]
  <2>1. \A j \in 1 .. k - 1 : j \in 1 .. Len(o)
    BY <1>1
  <2>2. \A j \in 1 .. k - 1 : w[j] = o[j]
    BY <1>1, <2>1
  <2>3. CASE k = Len(o) + 1
    BY <1>1, <2>2, <2>3
  <2>4. CASE k # Len(o) + 1
    <3>1. k \in 1 .. Len(o) /\ k <= Len(o)
      BY <1>1, <2>4
    <3> QED  BY <1>1, <2>2, <3>1
  <2> QED  BY <2>3, <2>4
<1>3. Grows(o, w, q)
  BY <1>1, <1>2 DEF Grows
<1> QED  BY <1>3 DEF w

(* one that closes it, *)
LEMMA GrowsFront ==
    ASSUME NEW o \in Seq(Frame), o # <<>>, Len(o) >= 2, NEW q \in Nat
    PROVE  Grows(o, Front(o), q)
<1> DEFINE w == Front(o)
<1>1. /\ w \in Seq(Frame) /\ Len(w) = Len(o) - 1 /\ Len(o) \in Nat
      /\ \A k \in 1 .. Len(o) - 1 : w[k] = o[k]
  BY Fronts
<1> HIDE DEF w
<1>2. w # <<>>
  <2>1. Len(w) # 0
    BY <1>1
  <2>2. Len(<<>>) = 0
    OBVIOUS
  <2> QED  BY <2>1, <2>2
<1>3. ASSUME NEW k \in 1 .. Len(w)
      PROVE  k <= Len(o) /\ w[k].at = o[k].at /\ \A j \in 1 .. k - 1 : w[j] = o[j]
  <2>1. k \in 1 .. Len(o) - 1 /\ k <= Len(o) /\ \A j \in 1 .. k - 1 : j \in 1 .. Len(o) - 1
    BY <1>1
  <2> QED  BY <1>1, <2>1
<1>4. Len(w) \in Nat
  BY <1>1
<1>5. Grows(o, w, q)
  BY <1>2, <1>3, <1>4 DEF Grows
<1> QED  BY <1>5 DEF w

(* one that registers a call, *)
LEMMA GrowsWithCall ==
    ASSUME NEW o \in Seq(Frame), o # <<>>, NEW c \in Call, NEW q \in Nat
    PROVE  Grows(o, WithCall(o, c), q)
<1> DEFINE w == WithCall(o, c)
<1>1. /\ w \in Seq(Frame) /\ Len(w) = Len(o) /\ Len(o) \in Nat /\ w # <<>>
      /\ \A k \in 1 .. Len(o) - 1 : w[k] = o[k]
      /\ \A k \in 1 .. Len(o) : w[k].at = o[k].at
  BY WithCallFacts, LenProperties
<1> HIDE DEF w
<1>2. ASSUME NEW k \in 1 .. Len(w)
      PROVE  k <= Len(o) /\ w[k].at = o[k].at /\ \A j \in 1 .. k - 1 : w[j] = o[j]
  <2>1. k \in 1 .. Len(o) /\ k <= Len(o) /\ \A j \in 1 .. k - 1 : j \in 1 .. Len(o) - 1
    BY <1>1
  <2> QED  BY <1>1, <2>1
<1>3. Grows(o, w, q)
  BY <1>1, <1>2 DEF Grows
<1> QED  BY <1>3 DEF w

(* and any other. *)
LEMMA GrowsSame ==
    ASSUME NEW o \in Seq(Frame), o # <<>>, NEW q \in Nat
    PROVE  Grows(o, o, q)
<1>1. Len(o) \in Nat
  OBVIOUS
<1> QED  BY <1>1 DEF Grows

LEMMA GrowsAfter ==
    ASSUME NEW o \in Seq(Frame), o # <<>>, NEW i \in Instr, NEW q \in Nat,
           i.op = "close" => Len(o) >= 2
    PROVE  Grows(o, OpenAfter(q, i, o), q) /\ OpenAfter(q, i, o) \in Seq(Frame)
<1>1. Named(i) \in Call
  BY InstrParts
<1>2. CASE i.op \in AllKinds
  BY <1>2, AfterOpen, GrowsEntered
<1>3. CASE i.op = "close"
  BY <1>3, AfterOpen, GrowsFront
<1>4. CASE i.op = "let"
  BY <1>1, <1>4, AfterOpen, GrowsWithCall
<1>5. CASE i.op \notin AllKinds \cup {"close", "let"}
  BY <1>5, AfterOpen, GrowsSame
<1> QED  BY <1>2, <1>3, <1>4, <1>5

(* Only an opening instruction adds a body. *)
LEMMA NotDeeper ==
    ASSUME NEW o \in Seq(Frame), o # <<>>, NEW i \in Instr, NEW q \in Nat, i.op \notin AllKinds
    PROVE  Len(OpenAfter(q, i, o)) <= Len(o)
<1>1. Len(o) \in Nat /\ Named(i) \in Call
  BY InstrParts, LenProperties
<1>2. CASE i.op = "close"
  <2>1. OpenAfter(q, i, o) = Front(o)
    BY <1>2, AfterOpen
  <2>2. Len(Front(o)) = Len(o) - 1
    BY Fronts
  <2> QED  BY <1>1, <2>1, <2>2
<1>3. CASE i.op = "let"
  <2>1. OpenAfter(q, i, o) = WithCall(o, Named(i))
    BY <1>3, AfterOpen
  <2>2. Len(WithCall(o, Named(i))) = Len(o)
    BY <1>1, WithCallFacts
  <2> QED  BY <1>1, <2>1, <2>2
<1>4. CASE i.op \notin AllKinds \cup {"close", "let"}
  <2>1. OpenAfter(q, i, o) = o
    BY <1>4, AfterOpen
  <2> QED  BY <1>1, <2>1
<1> QED  BY <1>2, <1>3, <1>4

\* A list that is longer by one element.
Longer(ss, tt, e) ==
    Len(tt) = Len(ss) + 1 /\ tt[Len(ss) + 1] = e /\ \A j \in 1 .. Len(ss) : tt[j] = ss[j]

LEMMA Appended ==
    ASSUME NEW S, NEW s \in Seq(S), NEW e \in S
    PROVE  Append(s, e) \in Seq(S) /\ Longer(s, Append(s, e), e) /\ Len(s) \in Nat
BY DEF Longer

(* What encloses a place stays when code follows. *)
LEMMA EnclosesMore ==
    ASSUME NEW code, NEW cc, NEW i, NEW ctx, NEW cx, NEW c,
           NEW p \in Nat, NEW open \in Seq(Frame), Len(code) \in Nat,
           Longer(code, cc, i), Longer(ctx, cx, c), Len(ctx) = Len(code) + 1,
           p <= Len(code) + 1, Encloses(code, ctx, open, p)
    PROVE  Encloses(cc, cx, open, p)
<1>1. ASSUME NEW k \in 2 .. Len(open)
      PROVE  /\ open[k].at \in 1 .. p - 1
             /\ cc[open[k].at].op \in Kinds
             /\ cx[open[k].at].open = SubSeq(open, 1, k - 1)
  <2>1. /\ open[k].at \in 1 .. p - 1
        /\ code[open[k].at].op \in Kinds
        /\ ctx[open[k].at].open = SubSeq(open, 1, k - 1)
    BY <1>1 DEF Encloses
  <2>2. open[k].at \in 1 .. Len(code) /\ open[k].at \in 1 .. Len(ctx)
    BY <2>1
  <2>3. cc[open[k].at] = code[open[k].at] /\ cx[open[k].at] = ctx[open[k].at]
    BY <2>2 DEF Longer
  <2> QED  BY <2>1, <2>3
<1> QED  BY <1>1 DEF Encloses

(* What encloses the place at the end, after one more instruction. *)
LEMMA EnclosesGrown ==
    ASSUME NEW code \in Seq(Instr), NEW cc, NEW i, NEW ctx \in Seq(Place), NEW cx, NEW c,
           NEW o \in Seq(Frame), NEW w \in Seq(Frame),
           Longer(code, cc, i), Longer(ctx, cx, c), Len(ctx) = Len(code) + 1,
           ctx[Len(code) + 1].open = o, Encloses(code, ctx, o, Len(code) + 1),
           Grows(o, w, Len(code) + 1), i.op \notin Kinds => Len(w) <= Len(o)
    PROVE  Encloses(cc, cx, w, Len(code) + 2)
<1> DEFINE n == Len(code)
<1>0. n \in Nat /\ Len(w) \in Nat /\ Len(o) \in Nat
  OBVIOUS
<1>1. o # <<>> /\ o[1].at = 0 /\ w # <<>> /\ Len(o) >= 1 /\ Len(w) >= 1
  <2>1. o # <<>> /\ o[1].at = 0 /\ w # <<>>
    BY DEF Encloses, Grows
  <2> QED  BY <2>1, EmptySeq
<1>2. w[1].at = 0
  <2>1. 1 \in 1 .. Len(w) /\ 1 # Len(o) + 1
    BY <1>0, <1>1
  <2>2. w[1].at = o[1].at
    BY <2>1 DEF Grows
  <2> QED  BY <1>1, <2>2
<1>3. ASSUME NEW k \in 2 .. Len(w)
      PROVE  /\ w[k].at \in 1 .. n + 1
             /\ cc[w[k].at].op \in Kinds
             /\ cx[w[k].at].open = SubSeq(w, 1, k - 1)
  <2>0. k \in 1 .. Len(w) /\ k - 1 \in Nat /\ k - 1 <= Len(w)
    BY <1>0
  <2>1. CASE k <= Len(o) /\ w[k].at = o[k].at /\ \A j \in 1 .. k - 1 : w[j] = o[j]
    <3>1. k \in 2 .. Len(o) /\ k - 1 <= Len(o)
      BY <1>0, <2>1
    <3>2. /\ o[k].at \in 1 .. (n + 1) - 1
          /\ code[o[k].at].op \in Kinds
          /\ ctx[o[k].at].open = SubSeq(o, 1, k - 1)
      BY <3>1 DEF Encloses
    <3>3. o[k].at \in 1 .. Len(code) /\ o[k].at \in 1 .. Len(ctx) /\ o[k].at \in 1 .. n + 1
      BY <1>0, <3>2
    <3>4. cc[o[k].at] = code[o[k].at] /\ cx[o[k].at] = ctx[o[k].at]
      BY <3>3 DEF Longer
    <3>5. SubSeq(o, 1, k - 1) = SubSeq(w, 1, k - 1)
      BY <2>0, <2>1, <3>1, SamePrefix
    <3> QED  BY <2>1, <3>2, <3>3, <3>4, <3>5
  <2>2. CASE k = Len(o) + 1 /\ w[k].at = n + 1 /\ \A j \in 1 .. k - 1 : w[j] = o[j]
    <3>1. k - 1 = Len(o) /\ ~(Len(w) <= Len(o)) /\ k - 1 <= Len(o)
      BY <1>0, <2>0, <2>2
    <3>2. i.op \in Kinds
      BY <3>1
    <3>3. cc[n + 1] = i
      BY DEF Longer
    <3>4. cx[n + 1] = ctx[n + 1]
      <4>1. n + 1 \in 1 .. Len(ctx)
        BY <1>0
      <4> QED  BY <4>1 DEF Longer
    <3>5. SubSeq(o, 1, k - 1) = SubSeq(w, 1, k - 1)
      BY <2>0, <2>2, <3>1, SamePrefix
    <3>6. SubSeq(o, 1, k - 1) = o
      BY <3>1, SubSeqFull
    <3>7. n + 1 \in 1 .. n + 1
      BY <1>0
    <3> QED  BY <2>2, <3>2, <3>3, <3>4, <3>5, <3>6, <3>7
  <2>3. \/ k <= Len(o) /\ w[k].at = o[k].at /\ \A j \in 1 .. k - 1 : w[j] = o[j]
        \/ k = Len(o) + 1 /\ w[k].at = n + 1 /\ \A j \in 1 .. k - 1 : w[j] = o[j]
    BY <2>0 DEF Grows
  <2> QED  BY <2>1, <2>2, <2>3
<1>4. (n + 2) - 1 = n + 1
  BY <1>0
<1> QED  BY <1>1, <1>2, <1>3, <1>4 DEF Encloses

(* A body is open at the end or was closed, after one more instruction. *)
LEMMA ClosedMore ==
    ASSUME NEW code \in Seq(Instr), NEW cc, NEW i \in Instr, NEW ctx \in Seq(Place), NEW cx, NEW c \in Place,
           Longer(code, cc, i), Longer(ctx, cx, c), Len(ctx) = Len(code) + 1,
           ctx[Len(code) + 1].open # <<>>,
           c.open = OpenAfter(Len(code) + 1, i, ctx[Len(code) + 1].open),
           i.op = "close" => i.at = LastOf(ctx[Len(code) + 1].open).at,
           Closed(code, ctx)
    PROVE  Closed(cc, cx)
<1> DEFINE n == Len(code)
           o == ctx[n + 1].open
           w == c.open
<1>0. n \in Nat /\ n + 1 \in Nat /\ Len(cc) = n + 1 /\ n + 1 \in 1 .. Len(ctx)
      /\ cx[n + 2] = c /\ (n + 1) + 1 = n + 2
  <2>1. n \in Nat /\ n + 1 \in Nat /\ n + 1 \in 1 .. Len(ctx) /\ (n + 1) + 1 = n + 2 /\ Len(ctx) = n + 1
    OBVIOUS
  <2> QED  BY <2>1 DEF Longer
<1>1. o \in Seq(Frame) /\ o # <<>> /\ Len(o) \in Nat /\ Len(o) \in 1 .. Len(o)
  <2>1. ctx[n + 1] \in Place
    BY <1>0, ElementOfSeq
  <2>2. o \in Seq(Frame)
    BY <2>1, PlaceParts
  <2> QED  BY <2>2, Fronts
<1>2. ASSUME NEW a \in 1 .. n + 1, cc[a].op \in AllKinds
      PROVE  \/ InBody(w, a)
             \/ \E q \in 1 .. n + 1 : cc[q].op = "close" /\ cc[q].at = a
  <2>1. CASE a = n + 1
    <3>1. i.op \in AllKinds
      BY <1>2, <2>1 DEF Longer
    <3>2. w = Entered(o, n + 1)
      BY <1>0, <1>1, <3>1, AfterOpen
    <3>3. Len(w) = Len(o) + 1 /\ w[Len(o) + 1].at = n + 1
      <4> DEFINE m == n + 1
      <4>0. m \in Nat
        BY <1>0
      <4> HIDE DEF m, o
      <4>1. Len(Entered(o, m)) = Len(o) + 1 /\ Entered(o, m)[Len(o) + 1] = [at |-> m, calls |-> <<>>]
        BY <1>1, <4>0, EnteredFacts
      <4> QED  BY <3>2, <4>1 DEF m
    <3>4. Len(o) + 1 \in 1 .. Len(w)
      BY <1>1, <3>3
    <3> QED  BY <2>1, <3>3, <3>4 DEF InBody
  <2>2. CASE a # n + 1
    <3>1. a \in 1 .. n /\ cc[a] = code[a]
      <4>1. a \in 1 .. n
        BY <1>0, <2>2
      <4> QED  BY <4>1 DEF Longer
    <3>2. InBody(o, a) \/ \E q \in 1 .. n : code[q].op = "close" /\ code[q].at = a
      BY <1>2, <3>1 DEF Closed
    <3>3. CASE \E q \in 1 .. n : code[q].op = "close" /\ code[q].at = a
      <4>1. PICK q \in 1 .. n : code[q].op = "close" /\ code[q].at = a
        BY <3>3
      <4>2. cc[q] = code[q] /\ q \in 1 .. n + 1
        BY <1>0, <4>1 DEF Longer
      <4> QED  BY <4>1, <4>2
    <3>4. CASE InBody(o, a)
      <4>1. PICK k \in 1 .. Len(o) : o[k].at = a
        BY <3>4 DEF InBody
      <4>2. CASE i.op \in AllKinds
        <5>1. w = Entered(o, n + 1)
          BY <1>0, <1>1, <4>2, AfterOpen
        <5>2. Len(w) = Len(o) + 1 /\ w[k] = o[k]
          <6> DEFINE m == n + 1
          <6>0. m \in Nat
            BY <1>0
          <6> HIDE DEF m, o
          <6>1. Len(Entered(o, m)) = Len(o) + 1 /\ \A j \in 1 .. Len(o) : Entered(o, m)[j] = o[j]
            BY <1>1, <6>0, EnteredFacts
          <6> QED  BY <4>1, <5>1, <6>1 DEF m
        <5>3. k \in 1 .. Len(w)
          BY <1>1, <5>2
        <5> QED  BY <4>1, <5>2, <5>3 DEF InBody
      <4>3. CASE i.op = "close" /\ k = Len(o)
        <5>1. i.at = a
          BY <4>1, <4>3 DEF LastOf
        <5>2. cc[n + 1] = i /\ n + 1 \in 1 .. n + 1
          BY <1>0 DEF Longer
        <5> QED  BY <4>3, <5>1, <5>2
      <4>4. CASE i.op = "close" /\ k # Len(o)
        <5>1. w = Front(o)
          BY <1>0, <1>1, <4>4, AfterOpen
        <5>2. Len(Front(o)) = Len(o) - 1 /\ \A j \in 1 .. Len(o) - 1 : Front(o)[j] = o[j]
          BY <1>1, Fronts
        <5>3. k \in 1 .. Len(o) - 1
          BY <1>1, <4>4
        <5>4. w[k] = o[k] /\ k \in 1 .. Len(w)
          BY <5>1, <5>2, <5>3
        <5> QED  BY <4>1, <5>4 DEF InBody
      <4>5. CASE i.op = "let"
        <5>1. w = WithCall(o, Named(i))
          BY <1>0, <1>1, <4>5, AfterOpen
        <5>2. Named(i) \in Call
          BY InstrParts
        <5>3. Len(w) = Len(o) /\ w[k].at = o[k].at
          BY <1>1, <5>1, <5>2, WithCallFacts
        <5> QED  BY <4>1, <5>3 DEF InBody
      <4>6. CASE i.op \notin AllKinds \cup {"close", "let"}
        <5>1. w = o
          BY <4>6, OpenKept
        <5> QED  BY <4>1, <5>1 DEF InBody
      <4> QED  BY <4>2, <4>3, <4>4, <4>5, <4>6
    <3> QED  BY <3>2, <3>3, <3>4
  <2> QED  BY <2>1, <2>2
<1>3. Len(cc) + 1 = n + 2
  BY <1>0
<1> QED  BY <1>0, <1>2, <1>3 DEF Closed

\* Code that ends at the place c.
Here(code, ctx) == ctx[Len(code) + 1]
Written(code, ds, c) == \E ctx \in Seq(Place) : Code(code, ctx, ds) /\ Here(code, ctx) = c

(* The facts about one place. *)
LEMMA PlaceOf ==
    ASSUME NEW code \in Seq(Instr), NEW ctx \in Seq(Place), NEW ds, Code(code, ctx, ds),
           NEW p \in 1 .. Len(code) + 1
    PROVE  /\ ctx[p] \in Place /\ ctx[p].open \in Seq(Frame) /\ ctx[p].open # <<>>
           /\ ctx[p].open[1].at = 0 /\ ctx[p].made \in Nat
           /\ Encloses(code, ctx, ctx[p].open, p)
<1>1. Len(ctx) = Len(code) + 1 /\ Encloses(code, ctx, ctx[p].open, p)
  BY DEF Code, Placed, Nested
<1>2. ctx[p] \in Place
  BY <1>1, ElementOfSeq
<1>3. ctx[p].open \in Seq(Frame) /\ ctx[p].made \in Nat
  BY <1>2, PlaceParts
<1> QED  BY <1>1, <1>2, <1>3 DEF Encloses

(* The three parts of Code, after one more instruction. *)
LEMMA PlacedMore ==
    ASSUME NEW code \in Seq(Instr), NEW cc, NEW i, NEW ctx \in Seq(Place), NEW cx, NEW c, NEW ds,
           Longer(code, cc, i), Longer(ctx, cx, c), Placed(code, ctx, ds),
           Fits(i, ctx[Len(code) + 1], ds), c = After(Len(code) + 1, i, ctx[Len(code) + 1])
    PROVE  Placed(cc, cx, ds)
<1> DEFINE n == Len(code)
<1>0. n \in Nat /\ n + 1 \in Nat /\ Len(ctx) = n + 1 /\ (n + 1) + 1 = n + 2
  BY DEF Placed
<1>1. Len(cc) = n + 1 /\ cc[n + 1] = i /\ Len(cx) = n + 2 /\ cx[n + 2] = c
  BY <1>0 DEF Longer
<1>2. \A j \in 1 .. n : cc[j] = code[j]
  BY DEF Longer
<1>3. \A j \in 1 .. n + 1 : cx[j] = ctx[j]
  BY <1>0 DEF Longer
<1>4. cx[1] = Start
  <2>1. 1 \in 1 .. n + 1
    BY <1>0
  <2> QED  BY <1>3, <2>1 DEF Placed
<1>5. ASSUME NEW p \in 1 .. n + 1 PROVE Fits(cc[p], cx[p], ds) /\ cx[p + 1] = After(p, cc[p], cx[p])
  <2>1. CASE p = n + 1
    BY <1>0, <1>1, <1>3, <2>1
  <2>2. CASE p # n + 1
    <3>1. p \in 1 .. n /\ p + 1 \in 1 .. n + 1
      BY <1>0, <2>2
    <3>2. Fits(code[p], ctx[p], ds) /\ ctx[p + 1] = After(p, code[p], ctx[p])
      BY <3>1 DEF Placed
    <3> QED  BY <1>2, <1>3, <3>1, <3>2
  <2> QED  BY <2>1, <2>2
<1>6. Len(cx) = Len(cc) + 1
  BY <1>0, <1>1
<1> QED  BY <1>1, <1>4, <1>5, <1>6 DEF Placed

LEMMA NestedMore ==
    ASSUME NEW code \in Seq(Instr), NEW cc, NEW i \in Instr, NEW ctx \in Seq(Place), NEW cx, NEW c, NEW ds,
           Longer(code, cc, i), Longer(ctx, cx, c), Code(code, ctx, ds),
           Fits(i, ctx[Len(code) + 1], ds), c = After(Len(code) + 1, i, ctx[Len(code) + 1])
    PROVE  Nested(cc, cx)
<1> DEFINE n == Len(code)
           h == ctx[n + 1]
           w == OpenAfter(n + 1, i, h.open)
<1>0. n \in Nat /\ n + 1 \in Nat /\ Len(ctx) = n + 1 /\ (n + 1) + 1 = n + 2 /\ n + 1 \in 1 .. n + 1
  BY DEF Code, Placed
<1>1. Len(cc) = n + 1 /\ cx[n + 2] = c
  BY <1>0 DEF Longer
<1>2. h \in Place /\ h.open \in Seq(Frame) /\ h.open # <<>> /\ Encloses(code, ctx, h.open, n + 1)
  BY <1>0, PlaceOf
<1>3. c.open = w
  BY <1>0, <1>2, AfterTyped
<1>4. /\ i.op = "close" => Len(h.open) >= 2
      /\ i.op \in AllKinds => i.op \in Kinds
  BY DEF Fits, FitsState, FitsClose
<1>5. Grows(h.open, w, n + 1) /\ w \in Seq(Frame)
  BY <1>0, <1>2, <1>4, GrowsAfter
<1>6. i.op \notin Kinds => Len(w) <= Len(h.open)
  BY <1>0, <1>2, <1>4, NotDeeper
<1>7. Encloses(cc, cx, w, n + 2)
  <2> HIDE DEF w
  <2> QED  BY <1>0, <1>2, <1>5, <1>6, EnclosesGrown
<1>8. ASSUME NEW p \in 1 .. n + 2 PROVE Encloses(cc, cx, cx[p].open, p)
  <2>1. CASE p = n + 2
    BY <1>1, <1>3, <1>7, <2>1
  <2>2. CASE p # n + 2
    <3>1. p \in 1 .. n + 1 /\ p \in Nat /\ p <= n + 1 /\ p \in 1 .. Len(ctx)
      BY <1>0, <2>2
    <3>2. ctx[p].open \in Seq(Frame) /\ Encloses(code, ctx, ctx[p].open, p)
      BY <3>1, PlaceOf
    <3>3. cx[p] = ctx[p]
      BY <3>1 DEF Longer
    <3>4. Encloses(cc, cx, ctx[p].open, p)
      <4> DEFINE o == ctx[p].open
      <4> HIDE DEF o
      <4>1. o \in Seq(Frame) /\ Encloses(code, ctx, o, p)
        BY <3>2 DEF o
      <4>2. Encloses(cc, cx, o, p)
        BY <1>0, <3>1, <4>1, EnclosesMore
      <4> QED  BY <4>2 DEF o
    <3> QED  BY <3>3, <3>4
  <2> QED  BY <2>1, <2>2
<1>9. Len(cc) + 1 = n + 2
  BY <1>0, <1>1
<1> QED  BY <1>8, <1>9 DEF Nested

(* An instruction that fits may be written. *)
LEMMA WrittenMore ==
    ASSUME NEW code \in Seq(Instr), NEW ds, NEW h, NEW i \in Instr, Written(code, ds, h), Fits(i, h, ds)
    PROVE  /\ Written(Append(code, i), ds, After(Len(code) + 1, i, h))
           /\ After(Len(code) + 1, i, h) \in Place /\ After(Len(code) + 1, i, h).open # <<>>
           /\ Append(code, i) \in Seq(Instr) /\ Len(Append(code, i)) = Len(code) + 1
<1>1. PICK ctx \in Seq(Place) : Code(code, ctx, ds) /\ ctx[Len(code) + 1] = h
  BY DEF Written, Here
<1> DEFINE n  == Len(code)
           c  == After(n + 1, i, h)
           cc == Append(code, i)
           cx == Append(ctx, c)
<1>0. n \in Nat /\ n + 1 \in Nat /\ n + 1 \in 1 .. n + 1 /\ Len(ctx) = n + 1
  BY <1>1 DEF Code, Placed
<1>2. h \in Place /\ h.open \in Seq(Frame) /\ h.open # <<>>
  BY <1>0, <1>1, PlaceOf
<1>3. c \in Place /\ c.open = OpenAfter(n + 1, i, h.open)
  BY <1>0, <1>2, AfterTyped
<1>4. i.op = "close" => i.at = LastOf(h.open).at /\ Len(h.open) >= 2
  BY DEF Fits, FitsClose
<1>5. c.open # <<>>
  BY <1>0, <1>2, <1>3, <1>4, GrowsAfter DEF Grows
<1> HIDE DEF c
<1>6. cc \in Seq(Instr) /\ Longer(code, cc, i) /\ cx \in Seq(Place) /\ Longer(ctx, cx, c)
  BY <1>3, Appended
<1> HIDE DEF cc, cx
<1>7. Placed(cc, cx, ds)
  BY <1>1, <1>6, PlacedMore DEF c, Code
<1>8. Nested(cc, cx)
  BY <1>1, <1>6, NestedMore DEF c
<1>9. Closed(cc, cx)
  BY <1>0, <1>1, <1>2, <1>3, <1>4, <1>6, ClosedMore DEF Code
<1>10. Len(cc) = n + 1 /\ cx[Len(cc) + 1] = c
  BY <1>0, <1>6 DEF Longer
<1>11. Written(cc, ds, c)
  BY <1>6, <1>7, <1>8, <1>9, <1>10 DEF Written, Here, Code
<1> QED  BY <1>3, <1>5, <1>6, <1>10, <1>11 DEF c, cc

(* One more defer statement takes nothing from what was written. *)
LEMMA FitsMore ==
    ASSUME NEW i, NEW c, NEW ds \in Seq(BOOLEAN), NEW b \in BOOLEAN, Fits(i, c, ds)
    PROVE  Fits(i, c, Append(ds, b))
<1> DEFINE e == Append(ds, b)
<1>1. Len(e) = Len(ds) + 1 /\ Len(ds) \in Nat /\ \A j \in 1 .. Len(ds) : e[j] = ds[j]
  OBVIOUS
<1> HIDE DEF e
<1>2. \A j \in 1 .. Len(ds) : j \in 1 .. Len(e) /\ e[j] = ds[j]
  BY <1>1
<1>3. FitsLet(i, c, e)
  <2>1. FitsLet(i, c, ds)
    BY DEF Fits
  <2> QED  BY <1>2, <2>1 DEF FitsLet
<1>4. FitsExit(i, c, e)
  <2>1. FitsExit(i, c, ds)
    BY DEF Fits
  <2>2. NoRef(Flat(c.open, 1), ds) => NoRef(Flat(c.open, 1), e)
    BY <1>2 DEF NoRef
  <2> QED  BY <2>1, <2>2 DEF FitsExit
<1> QED  BY <1>3, <1>4 DEF Fits, e

LEMMA WrittenDefer ==
    ASSUME NEW code \in Seq(Instr), NEW ds \in Seq(BOOLEAN), NEW b \in BOOLEAN, NEW c, Written(code, ds, c)
    PROVE  Written(code, Append(ds, b), c)
<1>1. PICK ctx \in Seq(Place) : Code(code, ctx, ds) /\ Here(code, ctx) = c
  BY DEF Written
<1>2. ASSUME NEW p \in 1 .. Len(code) PROVE Fits(code[p], ctx[p], Append(ds, b))
  <2>1. Fits(code[p], ctx[p], ds)
    BY <1>1 DEF Code, Placed
  <2> QED  BY <2>1, FitsMore
<1>3. Placed(code, ctx, Append(ds, b))
  BY <1>1, <1>2 DEF Code, Placed
<1>4. Code(code, ctx, Append(ds, b))
  BY <1>1, <1>3 DEF Code
<1> QED  BY <1>1, <1>4 DEF Written

LEMMA WrittenPlace ==
    ASSUME NEW code \in Seq(Instr), NEW ds, NEW c, Written(code, ds, c)
    PROVE  c \in Place /\ c.open \in Seq(Frame) /\ c.open # <<>> /\ c.open[1].at = 0 /\ c.made \in Nat
<1>1. PICK ctx \in Seq(Place) : Code(code, ctx, ds) /\ ctx[Len(code) + 1] = c
  BY DEF Written, Here
<1>2. Len(code) + 1 \in 1 .. Len(code) + 1
  OBVIOUS
<1> QED  BY <1>1, <1>2, PlaceOf

(* Before the first instruction. *)
LEMMA WrittenNothing ==
    ASSUME NEW ds
    PROVE  Written(<<>>, ds, Start) /\ Start \in Place
<1> DEFINE f == [at |-> 0, calls |-> <<>>]
           ctx == <<Start>>
<1>1. f \in Frame
  BY DEF Frame
<1>2. Start \in Place /\ Start.open = <<f>>
  BY <1>1 DEF Start, Place
<1>3. ctx \in Seq(Place) /\ Len(ctx) = 1 /\ ctx[1] = Start /\ Len(<<>>) = 0
  BY <1>2
<1>4. <<f>> # <<>> /\ Len(<<f>>) = 1 /\ <<f>>[1].at = 0
  OBVIOUS
<1> HIDE DEF ctx
<1>5. Placed(<<>>, ctx, ds)
  BY <1>3 DEF Placed
<1>6. Nested(<<>>, ctx)
  <2>1. Encloses(<<>>, ctx, <<f>>, 1)
    BY <1>4 DEF Encloses
  <2> QED  BY <1>2, <1>3, <2>1 DEF Nested
<1>7. Closed(<<>>, ctx)
  BY <1>3 DEF Closed
<1> QED  BY <1>2, <1>3, <1>5, <1>6, <1>7 DEF Written, Here, Code
----------------------------------------------------------------------------
(* Copies of the calls *)

-----------------------------------------------------------------------------
(* Blocks of calls. *)

\* A copy of the first calls that leaving every body would make.
CallBlock(b, open) ==
    /\ Len(b) <= Len(Flat(open, 1))
    /\ \A i \in 1 .. Len(b) : b[i].op = "call" /\ Named(b[i]) = Reverse(Flat(open, 1))[i]

Behind(code, ds, h, b) ==
    \E c \in Place : /\ Written(code \o b, ds, c)
                     /\ c.open = h.open /\ c.made = Len(b) /\ ~c.dead /\ c.saved = h.saved

(* A block of calls may be written, one call after the other. *)
LEMMA WrittenCalls ==
    ASSUME NEW code \in Seq(Instr), NEW ds, NEW h, Written(code, ds, h), ~h.dead, h.made = 0,
           NEW b \in Seq(Instr), CallBlock(b, h.open)
    PROVE  Behind(code, ds, h, b) /\ code \o b \in Seq(Instr)
<1> DEFINE Fine(t) == CallBlock(t, h.open) => Behind(code, ds, h, t)
           Bad == {t \in Seq(Instr) : ~Fine(t)}
<1>0. h \in Place /\ h.open \in Seq(Frame) /\ h.open # <<>> /\ ~h.dead
      /\ Flat(h.open, 1) \in Seq(Call) /\ Len(Flat(h.open, 1)) \in Nat
  <2>1. h \in Place /\ h.open \in Seq(Frame) /\ h.open # <<>>
    BY WrittenPlace
  <2>2. 1 \in 1 .. Len(h.open) + 1
    BY <2>1
  <2> QED  BY <2>1, <2>2, ListsTyped, PlaceParts
<1>1. Bad \in SUBSET Seq(Instr)
  OBVIOUS
<1>2. Fine(<<>>)
  <2>1. code \o <<>> = code /\ Len(<<>>) = 0
    OBVIOUS
  <2> QED  BY <1>0, <2>1 DEF Behind
<1>3. ASSUME NEW t \in Seq(Instr), Fine(t), NEW e \in Instr PROVE Fine(Append(t, e))
  <2> SUFFICES ASSUME CallBlock(Append(t, e), h.open) PROVE Behind(code, ds, h, Append(t, e))
    OBVIOUS
  <2>1. /\ Len(Append(t, e)) = Len(t) + 1 /\ Append(t, e)[Len(t) + 1] = e /\ Len(t) \in Nat
        /\ \A j \in 1 .. Len(t) : Append(t, e)[j] = t[j]
    OBVIOUS
  <2>2. Len(t) + 1 <= Len(Flat(h.open, 1)) /\ e.op = "call" /\ Named(e) = Reverse(Flat(h.open, 1))[Len(t) + 1]
    <3>1. Len(t) + 1 \in 1 .. Len(Append(t, e))
      BY <2>1
    <3> QED  BY <2>1, <3>1 DEF CallBlock
  <2>3. CallBlock(t, h.open)
    <3>1. Len(t) <= Len(Flat(h.open, 1))
      BY <1>0, <2>1, <2>2
    <3>2. \A j \in 1 .. Len(t) : j \in 1 .. Len(Append(t, e))
      BY <2>1
    <3> QED  BY <2>1, <3>1, <3>2 DEF CallBlock
  <2>4. PICK c \in Place : /\ Written(code \o t, ds, c)
                           /\ c.open = h.open /\ c.made = Len(t) /\ ~c.dead /\ c.saved = h.saved
    BY <1>3, <2>3 DEF Behind
  <2>5. code \o t \in Seq(Instr)
    BY ConcatProperties
  <2>6. Fits(e, c, ds)
    <3>1. c.made + 1 \in 1 .. Len(Flat(c.open, 1)) /\ Named(e) = Reverse(Flat(c.open, 1))[c.made + 1]
      BY <1>0, <2>1, <2>2, <2>4
    <3>2. e.op \notin AllKinds
      BY <2>2, OpKinds
    <3> QED  BY <2>2, <2>4, <3>1, <3>2
             DEF Fits, FitsState, FitsLet, FitsCall, FitsClose, FitsJump, FitsExit, Jumps, Exits
  <2>7. Written(Append(code \o t, e), ds, After(Len(code \o t) + 1, e, c))
    BY <2>4, <2>5, <2>6, WrittenMore
  <2>8. code \o Append(t, e) = Append(code \o t, e)
    BY ConcatAppend
  <2> DEFINE d == After(Len(code \o t) + 1, e, c)
  <2>9. Len(code \o t) + 1 \in Nat /\ c.open # <<>> /\ c \in Place
    <3>1. Len(code \o t) \in Nat
      BY <2>5, LenProperties
    <3> QED  BY <1>0, <2>4, <3>1
  <2>10. d \in Place /\ d.made = Len(t) + 1 /\ ~d.dead /\ d.saved = h.saved
    <3>1. /\ d \in Place /\ d.made = (IF e.op = "call" THEN c.made + 1 ELSE 0)
          /\ d.saved <=> (e.op \in {"save", "tail"} \/ (e.op = "call" /\ c.saved))
          /\ d.dead <=> (e.op \in Jumps \cup Exits \cup {"end"})
      BY <2>9, AfterTyped
    <3>2. c.saved \in BOOLEAN
      BY PlaceParts
    <3> HIDE DEF d
    <3>3. d.made = Len(t) + 1
      BY <2>2, <2>4, <3>1
    <3>4. ~d.dead
      BY <2>2, <3>1 DEF Jumps, Exits
    <3>5. d.saved <=> c.saved
      BY <2>2, <3>1
    <3>6. d.saved = c.saved
      <4>1. d.saved \in BOOLEAN
        BY <3>1, PlaceParts
      <4> QED  BY <3>2, <3>5, <4>1
    <3> QED  BY <2>4, <3>1, <3>3, <3>4, <3>6
  <2>11. d.open = h.open
    <3>1. d.open = OpenAfter(Len(code \o t) + 1, e, c.open)
      BY <2>9, AfterTyped
    <3>2. e.op \notin AllKinds \cup {"close", "let"}
      BY <2>2, OpKinds
    <3>3. c.open \in Seq(Frame)
      BY <1>0, <2>4
    <3> QED  BY <2>4, <2>9, <3>1, <3>2, <3>3, AfterOpen
  <2> HIDE DEF d
  <2> QED  BY <2>1, <2>7, <2>8, <2>10, <2>11 DEF Behind, d
<1>4. ASSUME NEW t \in Seq(Instr), t \notin Bad PROVE Fine(t)
  BY <1>4
<1>5. ASSUME NEW t \in Seq(Instr), Fine(t) PROVE t \notin Bad
  BY <1>5
<1> HIDE DEF Bad, Fine
<1>6. <<>> \in Seq(Instr)
  OBVIOUS
<1>7. ASSUME NEW t \in Seq(Instr), t \notin Bad, NEW e \in Instr PROVE Append(t, e) \notin Bad
  <2>1. Append(t, e) \in Seq(Instr)
    OBVIOUS
  <2> QED  BY <1>3, <1>4, <1>5, <1>7, <2>1
<1>8. Bad = {}
  BY <1>1, <1>2, <1>5, <1>6, <1>7, ShortestList
<1>9. Fine(b)
  BY <1>4, <1>8
<1> QED  BY <1>9, ConcatProperties DEF Fine

LEMMA PlainParts ==
    ASSUME NEW op \in Ops
    PROVE  Plain(op) \in Instr /\ Plain(op).op = op /\ \A at \in Nat : Bound(op, at) \in Instr /\ Bound(op, at).op = op /\ Bound(op, at).at = at
BY DEF Plain, Bound, Instr

(* The copies are the calls, in reverse. *)
LEMMA EmitBlock ==
    ASSUME NEW lists \in Seq(Seq(Call))
    PROVE  /\ EmitDefers(lists) \in Seq(Instr) /\ Len(EmitDefers(lists)) = Len(FlattenSeq(lists))
           /\ Len(FlattenSeq(lists)) \in Nat
           /\ \A i \in 1 .. Len(FlattenSeq(lists)) :
                 /\ EmitDefers(lists)[i].op = "call"
                 /\ Named(EmitDefers(lists)[i]) = Reverse(FlattenSeq(lists))[i]
<1> DEFINE calls == Reverse(FlattenSeq(lists))
           n == Len(FlattenSeq(lists))
           b == [i \in 1 .. n |-> [Plain("call") EXCEPT !.defer = calls[i].defer, !.name = calls[i].name]]
<1>1. FlattenSeq(lists) \in Seq(Call)
  BY FlattenTyped
<1>2. calls \in Seq(Call) /\ Len(calls) = n /\ n \in Nat /\ DOMAIN calls = 1 .. n
  BY <1>1, Reversed, LenProperties
<1>3. EmitDefers(lists) = b
  BY <1>2 DEF EmitDefers
<1> HIDE DEF calls, n
<1>4. ASSUME NEW i \in 1 .. n
      PROVE  LET e == [Plain("call") EXCEPT !.defer = calls[i].defer, !.name = calls[i].name]
             IN  e \in Instr /\ e.op = "call" /\ Named(e) = calls[i]
  <2>1. calls[i] \in Call
    BY <1>2
  <2>2. calls[i].defer \in Nat /\ calls[i].name \in Nat /\ calls[i] = [defer |-> calls[i].defer, name |-> calls[i].name]
    BY <2>1 DEF Call
  <2> DEFINE e == [Plain("call") EXCEPT !.defer = calls[i].defer, !.name = calls[i].name]
  <2>3. Plain("call") \in Instr /\ Plain("call").op = "call"
    <3>1. "call" \in Ops
      BY DEF Ops
    <3> QED  BY <3>1, PlainParts
  <2>4. e \in Instr /\ e.op = "call" /\ e.defer = calls[i].defer /\ e.name = calls[i].name
    BY <2>2, <2>3 DEF Instr
  <2> HIDE DEF e
  <2>5. Named(e) = calls[i]
    BY <2>2, <2>4 DEF Named
  <2> QED  BY <2>4, <2>5 DEF e
<1> DEFINE E(i) == [Plain("call") EXCEPT !.defer = calls[i].defer, !.name = calls[i].name]
<1>5. \A i \in 1 .. n : E(i) \in Instr
  BY <1>4
<1>6. \A i \in 1 .. n : E(i).op = "call" /\ Named(E(i)) = calls[i]
  BY <1>4
<1>7. EmitDefers(lists) = [i \in 1 .. n |-> E(i)]
  BY <1>3
<1> HIDE DEF E
<1>8. [i \in 1 .. n |-> E(i)] \in Seq(Instr) /\ Len([i \in 1 .. n |-> E(i)]) = n
  BY <1>2, <1>5
<1>9. \A i \in 1 .. n : [j \in 1 .. n |-> E(j)][i] = E(i)
  OBVIOUS
<1> QED  BY <1>2, <1>6, <1>7, <1>8, <1>9 DEF calls, n

\* The copies of what leaving the bodies from n inwards makes.
LEMMA CopiesFit ==
    ASSUME NEW open \in Seq(Frame), NEW n \in 1 .. Len(open) + 1, NEW lists \in Seq(Seq(Call)),
           FlattenSeq(lists) = Flat(open, n)
    PROVE  /\ EmitDefers(lists) \in Seq(Instr) /\ Len(EmitDefers(lists)) = Len(Flat(open, n))
           /\ CallBlock(EmitDefers(lists), open)
<1> DEFINE b == EmitDefers(lists)
           m == Len(Flat(open, n))
<1>1. /\ b \in Seq(Instr) /\ Len(b) = m /\ m \in Nat
      /\ \A i \in 1 .. m : b[i].op = "call" /\ Named(b[i]) = Reverse(Flat(open, n))[i]
  BY EmitBlock
<1>2. /\ m <= Len(Flat(open, 1))
      /\ \A i \in 1 .. m : Reverse(Flat(open, 1))[i] = Reverse(Flat(open, n))[i]
  BY FlatFrom
<1> HIDE DEF b, m
<1>3. CallBlock(b, open)
  BY <1>1, <1>2 DEF CallBlock
<1> QED  BY <1>1, <1>3 DEF b, m
----------------------------------------------------------------------------
(* The bodies being written *)

-----------------------------------------------------------------------------
(* The stack of bodies. *)

(* A call of processBlock by its fields. *)
LEMMA BodyParts ==
    ASSUME NEW b \in Body
    PROVE  /\ b.kind \in AllKinds \cup {"fn"} /\ b.at \in Nat /\ b.outer \in Seq(Seq(Call))
           /\ b.defers \in Seq(Call) /\ b.exited \in BOOLEAN /\ b.seen \in BOOLEAN
BY DEF Body

LEMMA TopTyped ==
    ASSUME NEW bs \in Seq(Body), bs # <<>>
    PROVE  /\ TopOf(bs) \in Body /\ Len(bs) \in Nat /\ Len(bs) >= 1 /\ Len(bs) \in 1 .. Len(bs)
           /\ Last(bs) = TopOf(bs)
<1>1. Len(bs) \in Nat /\ Len(bs) >= 1 /\ Len(bs) \in 1 .. Len(bs) /\ bs[Len(bs)] \in Body
  BY Fronts
<1> QED  BY <1>1 DEF TopOf, Last

(* The chain of a body. *)
LEMMA ChainTyped ==
    ASSUME NEW b \in Body
    PROVE  /\ Chain(b) \in Seq(Seq(Call)) /\ Len(Chain(b)) = Len(b.outer) + 1 /\ Len(b.outer) \in Nat
           /\ \A i \in 1 .. Len(b.outer) : Chain(b)[i] = b.outer[i]
           /\ Chain(b)[Len(b.outer) + 1] = b.defers
<1> DEFINE T == Seq(Call)
           o == b.outer
           d == b.defers
<1>1. o \in Seq(T) /\ d \in T
  BY BodyParts
<1> HIDE DEF T, o, d
<1>2. /\ Append(o, d) \in Seq(T) /\ Len(Append(o, d)) = Len(o) + 1 /\ Len(o) \in Nat
      /\ \A i \in 1 .. Len(o) : Append(o, d)[i] = o[i]
      /\ Append(o, d)[Len(o) + 1] = d
  BY <1>1
<1> QED  BY <1>2 DEF Chain, o, d, T

\* The bodies with another one on top.
Topped(bs, b) == Append(Front(bs), b)

LEMMA ToppedFacts ==
    ASSUME NEW bs \in Seq(Body), bs # <<>>, NEW b \in Body
    PROVE  /\ Topped(bs, b) \in Seq(Body) /\ Len(Topped(bs, b)) = Len(bs) /\ Topped(bs, b) # <<>>
           /\ TopOf(Topped(bs, b)) = b
           /\ \A k \in 1 .. Len(bs) - 1 : Topped(bs, b)[k] = bs[k]
<1> DEFINE f == Front(bs)
           n == Len(bs)
<1>1. f \in Seq(Body) /\ Len(f) = n - 1 /\ n \in Nat /\ n >= 1 /\ \A k \in 1 .. n - 1 : f[k] = bs[k]
  BY Fronts
<1> HIDE DEF f, n
<1>2. /\ Append(f, b) \in Seq(Body) /\ Len(Append(f, b)) = n /\ Append(f, b) # <<>>
      /\ Append(f, b)[n] = b /\ \A k \in 1 .. n - 1 : Append(f, b)[k] = f[k]
  BY <1>1
<1> QED  BY <1>1, <1>2 DEF Topped, TopOf, f, n

\* Bodies that differ at most in whether they were left.
SameBodies(w, bs) ==
    /\ Len(w) = Len(bs)
    /\ \A k \in 1 .. Len(bs) :
          /\ w[k].at = bs[k].at /\ w[k].outer = bs[k].outer /\ w[k].defers = bs[k].defers
          /\ w[k].kind = bs[k].kind /\ w[k].seen = bs[k].seen

(* Chains depend on what the bodies registered, not on whether they jumped. *)
LEMMA ChainsSame ==
    ASSUME NEW w, NEW bs, SameBodies(w, bs), Len(bs) \in Nat, Chains(bs)
    PROVE  Chains(w)
<1>1. ASSUME NEW k \in 1 .. Len(bs) PROVE \E n \in 1 .. k : ChainFrom(w, k, n)
  <2>1. PICK n \in 1 .. k : ChainFrom(bs, k, n)
    BY DEF Chains
  <2>2. Chain(w[k]) = Chain(bs[k])
    BY DEF SameBodies, Chain
  <2>3. /\ \A i \in 1 .. k - n + 1 : n + i - 1 \in 1 .. Len(bs)
        /\ \A m \in n + 1 .. k : m \in 1 .. Len(bs)
        /\ n \in 1 .. Len(bs)
    BY <2>1
  <2>4. \A j \in 1 .. Len(bs) : w[j].defers = bs[j].defers /\ w[j].kind = bs[j].kind
    BY DEF SameBodies
  <2>5. ChainFrom(w, k, n)
    BY <2>1, <2>2, <2>3, <2>4 DEF ChainFrom
  <2> QED  BY <2>1, <2>5
<1> QED  BY <1>1 DEF Chains, SameBodies

\* The top body is left.
Left(b) == [b EXCEPT !.exited = TRUE]

LEMMA LeftFacts ==
    ASSUME NEW bs \in Seq(Body), bs # <<>>
    PROVE  /\ Left(TopOf(bs)) \in Body /\ Left(TopOf(bs)).exited
           /\ SameBodies(Topped(bs, Left(TopOf(bs))), bs)
<1> DEFINE b == TopOf(bs)
           e == Left(b)
           w == Topped(bs, e)
           n == Len(bs)
<1>1. b \in Body /\ n \in Nat /\ n \in 1 .. n
  BY TopTyped
<1>2. /\ e \in Body /\ e.exited /\ e.at = b.at /\ e.outer = b.outer /\ e.defers = b.defers
      /\ e.kind = b.kind /\ e.seen = b.seen
  BY <1>1 DEF Left, Body
<1> HIDE DEF e
<1>3. Len(w) = n /\ w[n] = e /\ \A k \in 1 .. n - 1 : w[k] = bs[k]
  <2>1. Len(w) = n /\ TopOf(w) = e /\ \A k \in 1 .. n - 1 : w[k] = bs[k]
    BY <1>2, ToppedFacts
  <2> HIDE DEF w, n
  <2> QED  BY <2>1 DEF TopOf
<1> HIDE DEF w
<1>4. ASSUME NEW k \in 1 .. n
      PROVE  /\ w[k].at = bs[k].at /\ w[k].outer = bs[k].outer /\ w[k].defers = bs[k].defers
             /\ w[k].kind = bs[k].kind /\ w[k].seen = bs[k].seen
  <2>1. CASE k = n
    BY <1>2, <1>3, <2>1 DEF TopOf
  <2>2. CASE k # n
    <3>1. k \in 1 .. n - 1
      BY <1>1, <2>2
    <3> QED  BY <1>3, <3>1
  <2> QED  BY <2>1, <2>2
<1>5. SameBodies(w, bs)
  BY <1>3, <1>4 DEF SameBodies
<1> QED  BY <1>2, <1>5 DEF w, e

(* The top body may jump. *)
LEMMA OutersLeft ==
    ASSUME NEW bs \in Seq(Body), bs # <<>>, Outers(bs)
    PROVE  Outers(Topped(bs, Left(TopOf(bs))))
<1> DEFINE w == Topped(bs, Left(TopOf(bs)))
<1>1. SameBodies(w, bs) /\ Left(TopOf(bs)) \in Body
  BY LeftFacts
<1>2. \A k \in 1 .. Len(bs) - 1 : w[k] = bs[k]
  BY <1>1, ToppedFacts
<1>3. Len(w) = Len(bs) /\ 1 \in 1 .. Len(bs)
  BY <1>1, TopTyped DEF SameBodies
<1> HIDE DEF w
<1>4. \A k \in 1 .. Len(bs) : w[k].seen = bs[k].seen /\ w[k].defers = bs[k].defers /\ w[k].kind = bs[k].kind
  BY <1>1 DEF SameBodies
<1>5. Outers(w)
  BY <1>2, <1>3, <1>4 DEF Outers
<1> QED  BY <1>5 DEF w

\* The top body gets a call.
Registered(b, call) == [b EXCEPT !.defers = Append(@, call)]

LEMMA RegisteredFacts ==
    ASSUME NEW b \in Body, NEW call \in Call
    PROVE  /\ Registered(b, call) \in Body /\ Registered(b, call).defers = Append(b.defers, call)
           /\ Registered(b, call).at = b.at /\ Registered(b, call).outer = b.outer
           /\ Registered(b, call).kind = b.kind /\ Registered(b, call).seen = b.seen
           /\ Registered(b, call).exited = b.exited
<1>1. Append(b.defers, call) \in Seq(Call)
  BY BodyParts
<1> QED  BY <1>1 DEF Registered, Body

(* The top body may register a call. *)
LEMMA ChainsRegistered ==
    ASSUME NEW bs \in Seq(Body), bs # <<>>, NEW call \in Call, Chains(bs)
    PROVE  Chains(Topped(bs, Registered(TopOf(bs), call)))
<1> DEFINE b == TopOf(bs)
           e == Registered(b, call)
           w == Topped(bs, e)
           L == Len(bs)
<1>1. b \in Body /\ L \in Nat /\ L >= 1 /\ L \in 1 .. L
  BY TopTyped
<1>2. e \in Body /\ e.outer = b.outer /\ e.kind = b.kind
  BY <1>1, RegisteredFacts
<1> HIDE DEF e
<1>3. Len(w) = L /\ w[L] = e /\ \A k \in 1 .. L - 1 : w[k] = bs[k]
  <2>1. Len(w) = L /\ TopOf(w) = e /\ \A k \in 1 .. L - 1 : w[k] = bs[k]
    BY <1>2, ToppedFacts
  <2> HIDE DEF w, L
  <2> QED  BY <2>1 DEF TopOf
<1> HIDE DEF w
<1>4. ASSUME NEW k \in 1 .. L PROVE \E n \in 1 .. k : ChainFrom(w, k, n)
  <2>1. PICK n \in 1 .. k : ChainFrom(bs, k, n)
    BY DEF Chains
  <2>2. \A m \in 1 .. L : w[m].kind = bs[m].kind
    <3> TAKE m \in 1 .. L
    <3>1. CASE m = L
      BY <1>2, <1>3, <3>1 DEF TopOf
    <3>2. CASE m # L
      <4>1. m \in 1 .. L - 1
        BY <1>1, <3>2
      <4> QED  BY <1>3, <4>1
    <3> QED  BY <3>1, <3>2
  <2>3. (n = 1 \/ w[n].kind = "while") /\ \A m \in n + 1 .. k : w[m].kind # "while"
    <3>1. n \in 1 .. L /\ \A m \in n + 1 .. k : m \in 1 .. L
      BY <1>1, <2>1
    <3> QED  BY <2>1, <2>2, <3>1 DEF ChainFrom
  <2>4. Len(Chain(w[k])) = k - n + 1 /\ \A i \in 1 .. k - n + 1 : Chain(w[k])[i] = w[n + i - 1].defers
    <3>1. CASE k # L
      <4>1. k \in 1 .. L - 1 /\ \A i \in 1 .. k - n + 1 : n + i - 1 \in 1 .. L - 1
        BY <1>1, <2>1, <3>1
      <4>2. Chain(w[k]) = Chain(bs[k])
        BY <1>3, <4>1
      <4> QED  BY <1>3, <2>1, <4>1, <4>2 DEF ChainFrom
    <3>2. CASE k = L
      <4>1. Len(b.outer) + 1 = L - n + 1 /\ Len(b.outer) \in Nat
        BY <1>1, <2>1, <3>2, ChainTyped DEF ChainFrom, TopOf
      <4>2. /\ Len(Chain(e)) = Len(b.outer) + 1
            /\ \A i \in 1 .. Len(b.outer) : Chain(e)[i] = b.outer[i]
            /\ Chain(e)[Len(b.outer) + 1] = e.defers
        BY <1>2, ChainTyped
      <4>3. \A i \in 1 .. Len(b.outer) : Chain(b)[i] = b.outer[i]
        BY <1>1, ChainTyped
      <4>4. ASSUME NEW i \in 1 .. L - n + 1 PROVE Chain(e)[i] = w[n + i - 1].defers
        <5>1. CASE i = L - n + 1
          <6>1. n + i - 1 = L /\ i = Len(b.outer) + 1
            BY <1>1, <4>1, <5>1
          <6> QED  BY <1>3, <4>2, <6>1
        <5>2. CASE i # L - n + 1
          <6>1. i \in 1 .. Len(b.outer) /\ n + i - 1 \in 1 .. L - 1
            BY <1>1, <2>1, <4>1, <5>2
          <6>2. Chain(b)[i] = bs[n + i - 1].defers
            BY <2>1, <3>2 DEF ChainFrom, TopOf
          <6> QED  BY <1>3, <4>2, <4>3, <6>1, <6>2
        <5> QED  BY <5>1, <5>2
      <4> QED  BY <1>3, <3>2, <4>1, <4>2, <4>4
    <3> QED  BY <3>1, <3>2
  <2> QED  BY <2>1, <2>3, <2>4 DEF ChainFrom
<1>5. Chains(w)
  BY <1>3, <1>4 DEF Chains
<1> QED  BY <1>5 DEF w, e

\* A body is opened in the top one.
Opened(bs, kind, p) ==
    [kind |-> kind, at |-> p, outer |-> OuterOf(kind, TopOf(bs)), defers |-> <<>>, exited |-> FALSE,
     seen |-> TopOf(bs).seen /\ kind \notin Hidden]

LEMMA OpenedFacts ==
    ASSUME NEW bs \in Seq(Body), bs # <<>>, NEW kind \in Kinds, NEW p \in Nat
    PROVE  /\ Opened(bs, kind, p) \in Body /\ Opened(bs, kind, p).at = p
           /\ Opened(bs, kind, p).defers = <<>> /\ ~Opened(bs, kind, p).exited
           /\ Opened(bs, kind, p).outer = OuterOf(kind, TopOf(bs)) /\ Opened(bs, kind, p).kind = kind
<1>1. TopOf(bs) \in Body
  BY TopTyped
<1>2. Chain(TopOf(bs)) \in Seq(Seq(Call)) /\ <<>> \in Seq(Seq(Call))
  BY <1>1, ChainTyped
<1>3. OuterOf(kind, TopOf(bs)) \in Seq(Seq(Call))
  BY <1>2 DEF OuterOf
<1>4. kind \in AllKinds \cup {"fn"} /\ <<>> \in Seq(Call)
  BY OpKinds
<1> DEFINE s == TopOf(bs).seen /\ kind \notin Hidden
           o == OuterOf(kind, TopOf(bs))
<1>5. s \in BOOLEAN
  OBVIOUS
<1>6. Opened(bs, kind, p) = [kind |-> kind, at |-> p, outer |-> o, defers |-> <<>>, exited |-> FALSE, seen |-> s]
  BY DEF Opened
<1> HIDE DEF s, o
<1>7. [kind |-> kind, at |-> p, outer |-> o, defers |-> <<>>, exited |-> FALSE, seen |-> s] \in Body
  BY <1>3, <1>4, <1>5 DEF Body, o
<1> QED  BY <1>6, <1>7 DEF o

(* A new body starts from the chain of the body around it, or from none. *)
LEMMA ChainsOpened ==
    ASSUME NEW bs \in Seq(Body), bs # <<>>, NEW e \in Body, e.outer = OuterOf(e.kind, TopOf(bs)),
           e.defers = <<>>, Chains(bs)
    PROVE  Chains(Append(bs, e))
<1> DEFINE b == TopOf(bs)
           w == Append(bs, e)
           L == Len(bs)
<1>1. b \in Body /\ L \in Nat /\ L >= 1 /\ L \in 1 .. L
  BY TopTyped
<1>2. Len(w) = L + 1 /\ w[L + 1] = e /\ \A k \in 1 .. L : w[k] = bs[k]
  OBVIOUS
<1> HIDE DEF w
<1>3. ASSUME NEW k \in 1 .. L PROVE \E n \in 1 .. k : ChainFrom(w, k, n)
  <2>1. PICK n \in 1 .. k : ChainFrom(bs, k, n)
    BY DEF Chains
  <2>2. /\ n \in 1 .. L /\ \A i \in 1 .. k - n + 1 : n + i - 1 \in 1 .. L
        /\ \A m \in n + 1 .. k : m \in 1 .. L
    BY <1>1, <2>1
  <2>3. ChainFrom(w, k, n)
    BY <1>2, <2>1, <2>2 DEF ChainFrom
  <2> QED  BY <2>1, <2>3
<1>4. \E n \in 1 .. L + 1 : ChainFrom(w, L + 1, n)
  <2>0. /\ Len(Chain(e)) = Len(e.outer) + 1 /\ Len(e.outer) \in Nat
        /\ \A i \in 1 .. Len(e.outer) : Chain(e)[i] = e.outer[i]
        /\ Chain(e)[Len(e.outer) + 1] = <<>>
    BY ChainTyped
  <2>1. CASE e.kind = "while"
    <3>1. e.outer = <<>> /\ Len(e.outer) = 0
      BY <2>1 DEF OuterOf
    <3>2. Len(Chain(e)) = 1 /\ Chain(e)[1] = <<>>
      BY <2>0, <3>1
    <3>3. (L + 1) - (L + 1) + 1 = 1 /\ (L + 1) + 1 - 1 = L + 1 /\ (L + 1) + 1 .. L + 1 = {} /\ 1 .. 1 = {1}
      BY <1>1
    <3>4. ChainFrom(w, L + 1, L + 1)
      BY <1>2, <2>1, <3>2, <3>3 DEF ChainFrom
    <3> QED  BY <1>1, <3>4
  <2>2. CASE e.kind # "while"
    <3>1. e.outer = Chain(b)
      BY <2>2 DEF OuterOf
    <3>2. PICK n \in 1 .. L : ChainFrom(bs, L, n)
      BY <1>1 DEF Chains
    <3>3. Len(e.outer) = L - n + 1 /\ \A i \in 1 .. L - n + 1 : e.outer[i] = bs[n + i - 1].defers
      BY <3>1, <3>2 DEF ChainFrom, TopOf
    <3>4. n \in 1 .. L + 1 /\ Len(Chain(e)) = (L + 1) - n + 1 /\ n \in Nat
      BY <1>1, <2>0, <3>2, <3>3
    <3>5. ASSUME NEW i \in 1 .. (L + 1) - n + 1 PROVE Chain(e)[i] = w[n + i - 1].defers
      <4>1. CASE i = (L + 1) - n + 1
        <5>1. n + i - 1 = L + 1 /\ i = Len(e.outer) + 1
          BY <1>1, <3>3, <3>4, <4>1
        <5> QED  BY <1>2, <2>0, <5>1
      <4>2. CASE i # (L + 1) - n + 1
        <5>1. i \in 1 .. L - n + 1 /\ i \in 1 .. Len(e.outer) /\ n + i - 1 \in 1 .. L
          BY <1>1, <3>2, <3>3, <3>4, <4>2
        <5> QED  BY <1>2, <2>0, <3>3, <5>1
      <4> QED  BY <4>1, <4>2
    <3>6. (n = 1 \/ w[n].kind = "while")
      BY <1>2, <3>2 DEF ChainFrom
    <3>7. ASSUME NEW m \in n + 1 .. L + 1 PROVE w[m].kind # "while"
      <4>1. CASE m = L + 1
        BY <1>2, <2>2, <4>1
      <4>2. CASE m # L + 1
        <5>1. m \in n + 1 .. L /\ m \in 1 .. L
          BY <1>1, <3>2, <4>2
        <5> QED  BY <1>2, <3>2, <5>1 DEF ChainFrom
      <4> QED  BY <4>1, <4>2
    <3>8. ChainFrom(w, L + 1, n)
      BY <1>2, <3>4, <3>5, <3>6, <3>7 DEF ChainFrom
    <3> QED  BY <3>4, <3>8
  <2> QED  BY <2>1, <2>2
<1>5. ASSUME NEW k \in 1 .. L + 1 PROVE \E n \in 1 .. k : ChainFrom(w, k, n)
  <2>1. CASE k = L + 1
    BY <1>4, <2>1
  <2>2. CASE k # L + 1
    <3>1. k \in 1 .. L
      BY <1>1, <2>2
    <3> QED  BY <1>3, <3>1
  <2> QED  BY <2>1, <2>2
<1>6. Chains(w)
  BY <1>2, <1>5 DEF Chains
<1> QED  BY <1>6 DEF w

LEMMA OutersOpened ==
    ASSUME NEW bs \in Seq(Body), bs # <<>>, NEW e \in Body, e.defers = <<>>, ~TopOf(bs).exited, Outers(bs)
    PROVE  Outers(Append(bs, e))
<1> DEFINE w == Append(bs, e)
           L == Len(bs)
<1>1. L \in Nat /\ L >= 1 /\ L \in 1 .. L /\ 1 \in 1 .. L
  BY TopTyped
<1>2. Len(w) = L + 1 /\ w[L + 1] = e /\ \A k \in 1 .. L : w[k] = bs[k]
  OBVIOUS
<1> HIDE DEF w
<1>3. \A k \in 1 .. L : ~w[k].exited
  <2> TAKE k \in 1 .. L
  <2>1. CASE k = L
    BY <1>2, <2>1 DEF TopOf
  <2>2. CASE k # L
    <3>1. k \in 1 .. L - 1
      BY <1>1, <2>2
    <3> QED  BY <1>2, <3>1 DEF Outers
  <2> QED  BY <2>1, <2>2
<1>4. \A k \in 1 .. L + 1 : ~w[k].seen => w[k].defers = <<>>
  <2> TAKE k \in 1 .. L + 1
  <2>1. CASE k = L + 1
    BY <1>2, <2>1
  <2>2. CASE k # L + 1
    <3>1. k \in 1 .. L
      BY <1>1, <2>2
    <3> QED  BY <1>2, <3>1 DEF Outers
  <2> QED  BY <2>1, <2>2
<1>5. w[1].seen /\ w[1].kind = "fn"
  BY <1>1, <1>2 DEF Outers
<1>6. Len(w) - 1 = L
  BY <1>1, <1>2
<1>7. Outers(w)
  BY <1>2, <1>3, <1>4, <1>5, <1>6 DEF Outers
<1> QED  BY <1>7 DEF w

\* The top body is closed.
LEMMA Popped ==
    ASSUME NEW bs \in Seq(Body), Len(bs) > 1, Outers(bs), Chains(bs)
    PROVE  /\ Front(bs) \in Seq(Body) /\ Front(bs) # <<>> /\ Len(Front(bs)) = Len(bs) - 1
           /\ \A k \in 1 .. Len(bs) - 1 : Front(bs)[k] = bs[k]
           /\ Outers(Front(bs)) /\ Chains(Front(bs)) /\ ~TopOf(Front(bs)).exited
<1> DEFINE w == Front(bs)
           L == Len(bs) - 1
<1>0. bs # <<>> /\ Len(bs) \in Nat /\ L \in Nat /\ L >= 1
  <2>1. Len(<<>>) = 0
    OBVIOUS
  <2> QED  BY <2>1
<1>1. w \in Seq(Body) /\ Len(w) = L /\ \A k \in 1 .. L : w[k] = bs[k]
  BY <1>0, Fronts
<1> HIDE DEF w
<1>2. w # <<>>
  <2>1. Len(<<>>) = 0 /\ Len(w) # 0
    BY <1>0, <1>1
  <2> QED  BY <2>1
<1>3. \A k \in 1 .. L : k \in 1 .. Len(bs)
  BY <1>0
<1>4. \A k \in 1 .. L : ~w[k].exited
  BY <1>1 DEF Outers
<1>5. 1 \in 1 .. L /\ L \in 1 .. L /\ \A k \in 1 .. L - 1 : k \in 1 .. L
  BY <1>0
<1>6. Outers(w)
  BY <1>1, <1>3, <1>4, <1>5 DEF Outers
<1>7. ~TopOf(w).exited
  BY <1>1, <1>4, <1>5 DEF TopOf
<1>8. Chains(w)
  <2>1. ASSUME NEW k \in 1 .. L PROVE \E n \in 1 .. k : ChainFrom(w, k, n)
    <3>1. PICK n \in 1 .. k : ChainFrom(bs, k, n)
      BY <1>3 DEF Chains
    <3>2. /\ n \in 1 .. L /\ \A i \in 1 .. k - n + 1 : n + i - 1 \in 1 .. L
          /\ \A m \in n + 1 .. k : m \in 1 .. L
      BY <1>0, <3>1
    <3>3. ChainFrom(w, k, n)
      BY <1>1, <3>1, <3>2 DEF ChainFrom
    <3> QED  BY <3>1, <3>3
  <2> QED  BY <1>1, <2>1 DEF Chains
<1> QED  BY <1>1, <1>2, <1>6, <1>7, <1>8 DEF w

----------------------------------------------------------------------------
(* The place that the bodies being written are in *)

\* The calls of the bodies from n on.
Defers(bs, n) == [i \in 1 .. (Len(bs) - n + 1) |-> bs[n + i - 1].defers]

(* What the bodies being written registered is what the place has. *)
LEMMA CrossedFlat ==
    ASSUME NEW c \in Place, NEW bs \in Seq(Body), Mirrors(c, bs), NEW n \in 1 .. Len(bs) + 1
    PROVE  FlattenSeq(Defers(bs, n)) = Flat(c.open, n)
<1>1. Len(c.open) = Len(bs) /\ Len(bs) \in Nat
  BY DEF Mirrors
<1>2. \A i \in 1 .. Len(bs) - n + 1 : n + i - 1 \in 1 .. Len(bs)
  BY <1>1
<1>3. \A i \in 1 .. Len(bs) - n + 1 : bs[n + i - 1].defers = c.open[n + i - 1].calls
  BY <1>2 DEF Mirrors
<1>4. Defers(bs, n) = Lists(c.open, n)
  BY <1>1, <1>3 DEF Defers, Lists
<1> QED  BY <1>4 DEF Flat

(* The chain of the top body: the calls from the innermost loop on, or all. *)
LEMMA ChainFlat ==
    ASSUME NEW c \in Place, NEW bs \in Seq(Body), bs # <<>>, Mirrors(c, bs), Chains(bs)
    PROVE  /\ Chain(TopOf(bs)) \in Seq(Seq(Call))
           /\ \E n \in 1 .. Len(bs) : /\ FlattenSeq(Chain(TopOf(bs))) = Flat(c.open, n)
                                      /\ n = 1 \/ bs[n].kind = "while"
                                      /\ \A m \in n + 1 .. Len(bs) : bs[m].kind # "while"
<1> DEFINE L == Len(bs)
           q == Chain(TopOf(bs))
<1>1. L \in Nat /\ L \in 1 .. L /\ TopOf(bs) \in Body /\ q \in Seq(Seq(Call)) /\ Len(c.open) = L /\ c.open \in Seq(Frame)
  BY TopTyped, ChainTyped, PlaceParts DEF Mirrors
<1>2. PICK n \in 1 .. L : ChainFrom(bs, L, n)
  BY <1>1 DEF Chains
<1>3. /\ Lists(c.open, n) \in Seq(Seq(Call)) /\ Len(Lists(c.open, n)) = L - n + 1
      /\ \A i \in 1 .. L - n + 1 : Lists(c.open, n)[i] = c.open[n + i - 1].calls
  <2>1. n \in 1 .. Len(c.open) + 1
    BY <1>1
  <2> QED  BY <1>1, <2>1, ListsTyped
<1>4. Len(q) = L - n + 1 /\ \A i \in 1 .. L - n + 1 : q[i] = bs[n + i - 1].defers
  BY <1>2 DEF ChainFrom, TopOf
<1>5. \A i \in 1 .. L - n + 1 : n + i - 1 \in 1 .. L
  BY <1>1
<1>6. \A i \in 1 .. L - n + 1 : q[i] = Lists(c.open, n)[i]
  <2>1. \A k \in 1 .. L : c.open[k].calls = bs[k].defers
    BY DEF Mirrors
  <2> HIDE DEF q, L
  <2> QED  BY <1>3, <1>4, <1>5, <2>1
<1>7. q = Lists(c.open, n)
  <2> DEFINE T == Seq(Call)
             s == Lists(c.open, n)
  <2>1. q \in Seq(T) /\ s \in Seq(T) /\ Len(q) = Len(s) /\ \A i \in 1 .. Len(q) : q[i] = s[i]
    BY <1>1, <1>3, <1>4, <1>6
  <2> HIDE DEF T, s, q
  <2>2. q = s
    BY <2>1, SeqEqual
  <2> QED  BY <2>2 DEF s
<1> QED  BY <1>1, <1>2, <1>7 DEF Flat, ChainFrom
----------------------------------------------------------------------------
(* The steps of the desugarer *)

-----------------------------------------------------------------------------
(* The steps of the desugarer. *)

NoneOf(code, ops) == \A p \in 1 .. Len(code) : code[p].op \notin ops

LEMMA NoneMore ==
    ASSUME NEW ops, NEW code \in Seq(Instr), NEW b \in Seq(Instr), NoneOf(code, ops), NoneOf(b, ops)
    PROVE  NoneOf(code \o b, ops) /\ code \o b \in Seq(Instr) /\ Len(code \o b) = Len(code) + Len(b)
<1> DEFINE n == Len(code)
           m == Len(b)
<1>1. /\ code \o b \in Seq(Instr) /\ Len(code \o b) = n + m /\ n \in Nat /\ m \in Nat
      /\ \A i \in 1 .. n + m : (code \o b)[i] = IF i <= n THEN code[i] ELSE b[i - n]
  BY ConcatProperties, LenProperties
<1>2. ASSUME NEW p \in 1 .. n + m PROVE (code \o b)[p].op \notin ops
  <2>1. CASE p <= n
    <3>1. p \in 1 .. n /\ (code \o b)[p] = code[p]
      BY <1>1, <2>1
    <3> QED  BY <3>1 DEF NoneOf
  <2>2. CASE ~(p <= n)
    <3>1. p - n \in 1 .. m /\ (code \o b)[p] = b[p - n]
      BY <1>1, <2>2
    <3> QED  BY <3>1 DEF NoneOf
  <2> QED  BY <2>1, <2>2
<1> QED  BY <1>1, <1>2 DEF NoneOf

LEMMA NoneOne ==
    ASSUME NEW ops, NEW code \in Seq(Instr), NEW i \in Instr, NoneOf(code, ops), i.op \notin ops
    PROVE  NoneOf(Append(code, i), ops)
<1>1. /\ Len(Append(code, i)) = Len(code) + 1 /\ Len(code) \in Nat /\ Append(code, i)[Len(code) + 1] = i
      /\ \A p \in 1 .. Len(code) : Append(code, i)[p] = code[p]
  OBVIOUS
<1>2. ASSUME NEW p \in 1 .. Len(code) + 1 PROVE Append(code, i)[p].op \notin ops
  <2>1. CASE p = Len(code) + 1
    BY <1>1, <2>1
  <2>2. CASE p # Len(code) + 1
    <3>1. p \in 1 .. Len(code)
      BY <1>1, <2>2
    <3> QED  BY <1>1, <3>1 DEF NoneOf
  <2> QED  BY <2>1, <2>2
<1> QED  BY <1>1, <1>2 DEF NoneOf

\* The state of the desugarer while it writes.
Bodies(code, bs, ds, cnt, lft) ==
    /\ bs \in Seq(Body) /\ bs # <<>> /\ code \in Seq(Instr) /\ ds \in Seq(BOOLEAN)
    /\ cnt \in 0 .. Len(ds) /\ lft \in 0 .. MaxStmts
    /\ \E c : Written(code, ds, c) /\ Links(c, code, bs, ds, cnt, lft)

TailFree == {"tail", "end"}

LEMMA NoTails ==
    ASSUME NEW code, NEW bs, NoneOf(code, TailFree)
    PROVE  Tails(code, bs)
BY DEF NoneOf, TailFree, Tails

(* The guard of every statement. *)
LEMMA WritingFacts ==
    ASSUME Bodies(out, bodies, defers, counter, left), Writing
    PROVE  /\ NoneOf(out, TailFree) /\ ~TopOf(bodies).exited /\ Top = TopOf(bodies)
           /\ left - 1 \in 0 .. MaxStmts /\ left \in Nat /\ left > 0 /\ TopOf(bodies) \in Body
           /\ phase = "body"
<1>1. PICK c : Links(c, out, bodies, defers, counter, left)
  BY DEF Bodies
<1>2. bodies \in Seq(Body) /\ bodies # <<>> /\ out \in Seq(Instr) /\ left \in 0 .. MaxStmts /\ MaxStmts \in Nat
  BY DeferAssumption DEF Bodies
<1>3. Top = TopOf(bodies) /\ TopOf(bodies) \in Body
  BY <1>2, TopTyped DEF Top
<1>4. NoneOf(out, TailFree)
  <2> SUFFICES ASSUME NEW p \in 1 .. Len(out) PROVE out[p].op # "tail" /\ out[p].op # "end"
    BY DEF NoneOf, TailFree
  <2>1. out[p].op # "end" /\ (out[p].op = "tail" => p = Len(out))
    BY <1>1 DEF Links, Tails
  <2>2. out # <<>>
    BY <1>2
  <2>3. out[Len(out)].op # "tail"
    BY <2>2 DEF Writing, Last
  <2> QED  BY <2>1, <2>3
<1>5. left > 0 /\ left - 1 \in 0 .. MaxStmts /\ left \in Nat
  BY <1>2 DEF Writing
<1> QED  BY <1>3, <1>4, <1>5 DEF Writing

LEMMA ConcatOne ==
    ASSUME NEW S, NEW s \in Seq(S), NEW e \in S
    PROVE  s \o <<e>> = Append(s, e)
OBVIOUS

LEMMA CountedLess ==
    ASSUME NEW c, NEW d, NEW ds \in Seq(BOOLEAN), NEW cnt, NEW lft \in Nat, lft > 0,
           d.open = c.open, Counted(c, ds, cnt, lft)
    PROVE  Counted(d, ds, cnt, lft - 1)
<1>1. Len(ds) \in Nat /\ MaxStmts \in Nat
  BY DeferAssumption
<1>2. Len(ds) + (lft - 1) <= MaxStmts
  BY <1>1 DEF Counted
<1> QED  BY <1>2 DEF Counted

\* An instruction that neither opens, closes nor registers leaves the bodies alone.
LEMMA AfterPlain ==
    ASSUME NEW c \in Place, c.open # <<>>, NEW i \in Instr, NEW p \in Nat,
           i.op \notin AllKinds, i.op # "close", i.op # "let", i.op # "call"
    PROVE  LET d == After(p, i, c)
           IN  /\ d \in Place /\ d.open = c.open /\ d.made = 0
               /\ d.saved <=> i.op \in {"save", "tail"}
               /\ d.dead <=> i.op \in Jumps \cup Exits \cup {"end"}
<1> DEFINE d == After(p, i, c)
<1>1. c.open \in Seq(Frame)
  BY PlaceParts
<1>2. d.open = OpenAfter(p, i, c.open) /\ d \in Place
  BY AfterTyped
<1>3. OpenAfter(p, i, c.open) = c.open
  BY <1>1, AfterOpen
<1>4. /\ d.made = (IF i.op = "call" THEN c.made + 1 ELSE 0)
      /\ d.saved <=> (i.op \in {"save", "tail"} \/ (i.op = "call" /\ c.saved))
      /\ d.dead <=> (i.op \in Jumps \cup Exits \cup {"end"})
  BY AfterTyped
<1> HIDE DEF d
<1> QED  BY <1>2, <1>3, <1>4 DEF d

(* One lemma per action of the desugarer: Assign and TailValue, *)
LEMMA ValueKeeps ==
    ASSUME Bodies(out, bodies, defers, counter, left), Assign \/ TailValue
    PROVE  Bodies(out', bodies', defers', counter', left')
<1>0. /\ bodies \in Seq(Body) /\ bodies # <<>> /\ out \in Seq(Instr) /\ defers \in Seq(BOOLEAN)
      /\ counter \in 0 .. Len(defers)
  BY DEF Bodies
<1> DEFINE Does(i) == /\ bodies' = bodies /\ out' = out \o <<i>> /\ left' = left - 1
                      /\ defers' = defers /\ counter' = counter
<1>1. /\ Writing
      /\ \E i \in Instr : /\ Does(i)
                          /\ \/ i.op = "assign"
                             \/ i.op = "tail" /\ Len(bodies) = 1 /\ (Top.defers # <<>> => "tail" \in Shapes)
  <2>1. CASE Assign
    <3>1. Writing /\ Does(Plain("assign"))
      BY <2>1 DEF Assign, Write
    <3>2. "assign" \in Ops
      BY DEF Ops
    <3>3. Plain("assign") \in Instr /\ Plain("assign").op = "assign"
      BY <3>2, PlainParts
    <3> HIDE DEF Does
    <3> QED  BY <3>1, <3>3
  <2>2. CASE TailValue
    <3>1. /\ Writing /\ Does(Plain("tail"))
          /\ Len(bodies) = 1 /\ (Top.defers # <<>> => "tail" \in Shapes)
      BY <2>2 DEF TailValue, Write
    <3>2. "tail" \in Ops
      BY DEF Ops
    <3>3. Plain("tail") \in Instr /\ Plain("tail").op = "tail"
      BY <3>2, PlainParts
    <3> HIDE DEF Does
    <3> QED  BY <3>1, <3>3
  <2> QED  BY <2>1, <2>2
<1>2. PICK c : Written(out, defers, c) /\ Links(c, out, bodies, defers, counter, left)
  BY DEF Bodies
<1>3. /\ NoneOf(out, TailFree) /\ ~TopOf(bodies).exited /\ left - 1 \in 0 .. MaxStmts /\ left \in Nat /\ left > 0
      /\ Top = TopOf(bodies)
  BY <1>1, WritingFacts
<1>4. PICK i \in Instr : /\ Does(i)
                         /\ \/ i.op = "assign"
                            \/ i.op = "tail" /\ Len(bodies) = 1 /\ (Top.defers # <<>> => "tail" \in Shapes)
  BY <1>1
<1>5. c \in Place /\ c.open \in Seq(Frame) /\ c.open # <<>>
  BY <1>0, <1>2, WrittenPlace
<1>6. out' = Append(out, i)
  BY <1>0, <1>4, ConcatOne
<1>7. c.made = 0 /\ ~c.dead
  BY <1>2, <1>3 DEF Links, Mirrors
<1>a. i.op \notin AllKinds
  BY <1>4, OpKinds
<1>8. Fits(i, c, defers)
  BY <1>4, <1>7, <1>a
     DEF Fits, FitsState, FitsLet, FitsCall, FitsClose, FitsJump, FitsExit, Jumps, Exits
<1> DEFINE d == After(Len(out) + 1, i, c)
<1>9. Written(out', defers, d) /\ out' \in Seq(Instr)
  BY <1>0, <1>2, <1>4, <1>6, <1>8, WrittenMore
<1>10. d.open = c.open /\ d.made = 0 /\ ~d.dead
  <2>1. Len(out) + 1 \in Nat /\ i.op # "close" /\ i.op # "let" /\ i.op # "call"
    BY <1>0, <1>4
  <2>2. d.open = c.open /\ d.made = 0 /\ (d.dead <=> i.op \in Jumps \cup Exits \cup {"end"})
    BY <1>4, <1>5, <1>a, <2>1, AfterPlain
  <2> HIDE DEF d
  <2> QED  BY <1>4, <2>2 DEF Jumps, Exits
<1> HIDE DEF d
<1>11. Mirrors(d, bodies)
  BY <1>2, <1>3, <1>10 DEF Links, Mirrors
<1>12. Counted(d, defers, counter, left - 1)
  BY <1>0, <1>2, <1>3, <1>10, CountedLess DEF Links
<1>13. Tails(out', bodies)
  <2>1. CASE i.op = "assign"
    <3>1. i.op \notin TailFree
      BY <2>1 DEF TailFree
    <3> QED  BY <1>0, <1>3, <1>4, <1>6, <3>1, NoneOne, NoTails
  <2>2. CASE i.op = "tail" /\ Len(bodies) = 1 /\ (Top.defers # <<>> => "tail" \in Shapes)
    <3>1. /\ Len(out') = Len(out) + 1 /\ Len(out) \in Nat /\ out'[Len(out) + 1] = i
          /\ \A p \in 1 .. Len(out) : out'[p] = out[p]
      BY <1>0, <1>4, <1>6
    <3>2. ASSUME NEW p \in 1 .. Len(out'), p # Len(out') PROVE out'[p].op # "tail" /\ out'[p].op # "end"
      <4>1. p \in 1 .. Len(out)
        BY <3>1, <3>2
      <4> QED  BY <1>3, <3>1, <4>1 DEF NoneOf, TailFree
    <3>3. out'[Len(out')].op # "end"
      BY <2>2, <3>1
    <3> QED  BY <1>3, <2>2, <3>2, <3>3 DEF Tails
  <2> QED  BY <1>4, <2>1, <2>2
<1>14. Links(d, out', bodies, defers, counter, left - 1)
  BY <1>2, <1>11, <1>12, <1>13 DEF Links
<1> QED  BY <1>0, <1>3, <1>4, <1>9, <1>14 DEF Bodies

(* Defer, *)
LEMMA DeferKeeps ==
    ASSUME Bodies(out, bodies, defers, counter, left), Defer
    PROVE  Bodies(out', bodies', defers', counter', left')
<1>0. /\ bodies \in Seq(Body) /\ bodies # <<>> /\ out \in Seq(Instr) /\ defers \in Seq(BOOLEAN)
      /\ counter \in 0 .. Len(defers) /\ Len(defers) \in Nat
  BY DEF Bodies
<1> DEFINE call == [defer |-> Len(defers) + 1, name |-> counter + 1]
           i == [Plain("let") EXCEPT !.defer = call.defer, !.name = call.name]
           b == Registered(TopOf(bodies), call)
           w == Topped(bodies, b)
<1>1. PICK ref \in BOOLEAN : /\ Writing /\ Top.seen
                             /\ bodies' = WithTop([Top EXCEPT !.defers = Append(@, call)])
                             /\ out' = out \o <<i>> /\ left' = left - 1
                             /\ defers' = Append(defers, ref) /\ counter' = counter + 1
  BY DEF Defer, Write, FreshName
<1>2. PICK c : Written(out, defers, c) /\ Links(c, out, bodies, defers, counter, left)
  BY DEF Bodies
<1>3. /\ NoneOf(out, TailFree) /\ ~TopOf(bodies).exited /\ left - 1 \in 0 .. MaxStmts /\ left \in Nat /\ left > 0
      /\ Top = TopOf(bodies) /\ TopOf(bodies) \in Body
  BY <1>1, WritingFacts
<1>4. call \in Call /\ call.defer = Len(defers) + 1 /\ call.name = counter + 1
  BY <1>0 DEF Call
<1>5. i \in Instr /\ i.op = "let" /\ i.defer = Len(defers) + 1 /\ i.name = counter + 1
  <2>1. "let" \in Ops
    BY DEF Ops
  <2>2. Plain("let") \in Instr /\ Plain("let").op = "let"
    BY <2>1, PlainParts
  <2>3. call.defer \in Nat /\ call.name \in Nat
    BY <1>0, <1>4
  <2> HIDE DEF call
  <2> QED  BY <1>4, <2>2, <2>3 DEF Instr
<1>6. Named(i) = call
  BY <1>4, <1>5 DEF Named
<1>7. bodies' = w
  BY <1>1, <1>3 DEF WithTop, Topped, Registered
<1> HIDE DEF call, i
<1>8. out' = Append(out, i)
  BY <1>0, <1>1, <1>5, ConcatOne
<1>9. /\ b \in Body /\ b.defers = Append(TopOf(bodies).defers, call)
      /\ b.at = TopOf(bodies).at /\ b.kind = TopOf(bodies).kind /\ b.seen = TopOf(bodies).seen
      /\ b.exited = TopOf(bodies).exited
  BY <1>3, <1>4, RegisteredFacts
<1> HIDE DEF b
<1>10. /\ w \in Seq(Body) /\ Len(w) = Len(bodies) /\ w # <<>> /\ TopOf(w) = b
       /\ \A k \in 1 .. Len(bodies) - 1 : w[k] = bodies[k]
  BY <1>0, <1>9, ToppedFacts
<1>11. c \in Place /\ c.open \in Seq(Frame) /\ c.open # <<>>
  BY <1>0, <1>2, WrittenPlace
<1>12. c.made = 0 /\ ~c.dead
  BY <1>2, <1>3 DEF Links, Mirrors
<1>13. Written(out, defers', c) /\ defers' \in Seq(BOOLEAN) /\ Len(defers') = Len(defers) + 1
  BY <1>0, <1>1, <1>2, WrittenDefer
<1>14. /\ Len(defers) + left <= MaxStmts /\ MaxStmts \in Nat
       /\ \A j \in 1 .. Len(Flat(c.open, 1)) : Flat(c.open, 1)[j].name <= counter /\ Flat(c.open, 1)[j].defer \in 1 .. Len(defers)
  BY <1>2, DeferAssumption DEF Links, Counted
<1>15. Flat(c.open, 1) \in Seq(Call) /\ Len(Flat(c.open, 1)) \in Nat
  <2>1. 1 \in 1 .. Len(c.open) + 1
    BY <1>11
  <2> QED  BY <1>11, <2>1, ListsTyped
<1>16. \A j \in 1 .. Len(Flat(c.open, 1)) : Flat(c.open, 1)[j].name \in Nat
  <2> TAKE j \in 1 .. Len(Flat(c.open, 1))
  <2>1. Flat(c.open, 1)[j] \in Call
    BY <1>15, ElementOfSeq
  <2> QED  BY <2>1 DEF Call
<1>17. Fits(i, c, defers')
  <2>1. i.name \in 1 .. MaxStmts /\ i.defer \in 1 .. Len(defers')
    BY <1>0, <1>3, <1>5, <1>13, <1>14
  <2>2. \A j \in 1 .. Len(Flat(c.open, 1)) : Flat(c.open, 1)[j].name < i.name
    BY <1>0, <1>5, <1>14, <1>16
  <2>3. FitsLet(i, c, defers')
    BY <2>1, <2>2 DEF FitsLet
  <2>4. i.op \notin AllKinds
    BY <1>5, OpKinds
  <2> QED  BY <1>5, <1>12, <2>3, <2>4 DEF Fits, FitsState, FitsCall, FitsClose, FitsJump, FitsExit, Jumps, Exits
<1> DEFINE d == After(Len(out) + 1, i, c)
<1>18. Written(out', defers', d) /\ out' \in Seq(Instr)
  BY <1>0, <1>5, <1>8, <1>13, <1>17, WrittenMore
<1>19. d.open = WithCall(c.open, call) /\ d.made = 0 /\ ~d.dead
  <2>1. Len(out) + 1 \in Nat
    BY <1>0
  <2>2. d.open = OpenAfter(Len(out) + 1, i, c.open)
    BY <1>5, <1>11, <2>1, AfterTyped
  <2>3. OpenAfter(Len(out) + 1, i, c.open) = WithCall(c.open, Named(i))
    BY <1>5, <1>11, <2>1, AfterOpen
  <2>4. d.made = (IF i.op = "call" THEN c.made + 1 ELSE 0) /\ (d.dead <=> i.op \in Jumps \cup Exits \cup {"end"})
    BY <1>5, <1>11, <2>1, AfterTyped
  <2> HIDE DEF d
  <2> QED  BY <1>5, <1>6, <2>2, <2>3, <2>4 DEF Jumps, Exits
<1> HIDE DEF d
<1>20. Mirrors(d, w)
  <2> DEFINE o == c.open
             v == WithCall(o, call)
             n == Len(bodies)
  <2>1. /\ Len(v) = Len(o) /\ \A k \in 1 .. Len(o) - 1 : v[k] = o[k]
        /\ \A k \in 1 .. Len(o) : v[k].at = o[k].at
        /\ v[Len(o)].calls = Append(LastOf(o).calls, call)
    BY <1>4, <1>11, WithCallFacts
  <2>2. Len(o) = n /\ \A k \in 1 .. n : o[k].at = bodies[k].at /\ o[k].calls = bodies[k].defers
    BY <1>2 DEF Links, Mirrors
  <2>3. n \in Nat /\ n \in 1 .. n
    BY <1>0, TopTyped
  <2> HIDE DEF v, o
  <2>4. ASSUME NEW k \in 1 .. n PROVE v[k].at = w[k].at /\ v[k].calls = w[k].defers
    <3>1. CASE k = n
      <4>1. w[k] = b /\ bodies[k] = TopOf(bodies)
        BY <1>10, <3>1 DEF TopOf
      <4>2. v[k].at = w[k].at
        BY <1>9, <2>1, <2>2, <4>1
      <4>3. LastOf(o).calls = TopOf(bodies).defers
        BY <2>2, <2>3 DEF LastOf, TopOf
      <4> QED  BY <1>9, <2>1, <2>2, <3>1, <4>1, <4>2, <4>3
    <3>2. CASE k # n
      <4>1. k \in 1 .. n - 1
        BY <2>3, <3>2
      <4> QED  BY <1>10, <2>1, <2>2, <4>1
    <3> QED  BY <3>1, <3>2
  <2>5. d.dead <=> TopOf(w).exited
    BY <1>3, <1>9, <1>10, <1>19
  <2>6. d.open = v
    BY <1>19 DEF v, o
  <2> HIDE DEF w
  <2> QED  BY <1>10, <1>19, <2>1, <2>2, <2>4, <2>5, <2>6 DEF Mirrors
<1>21. Outers(w)
  <2>1. Outers(bodies)
    BY <1>2 DEF Links
  <2>2. Len(bodies) \in Nat /\ Len(bodies) >= 1 /\ Len(bodies) \in 1 .. Len(bodies)
    BY <1>0, TopTyped
  <2>3. \A k \in 1 .. Len(bodies) : w[k].seen = bodies[k].seen /\ w[k].kind = bodies[k].kind
    <3> TAKE k \in 1 .. Len(bodies)
    <3>1. CASE k = Len(bodies)
      BY <1>9, <1>10, <3>1 DEF TopOf
    <3>2. CASE k # Len(bodies)
      <4>1. k \in 1 .. Len(bodies) - 1
        BY <2>2, <3>2
      <4> QED  BY <1>10, <4>1
    <3> QED  BY <3>1, <3>2
  <2>4. w[Len(bodies)].seen
    <3>1. w[Len(bodies)] = b
      BY <1>10 DEF TopOf
    <3> QED  BY <1>1, <1>3, <1>9, <3>1
  <2>5. \A k \in 1 .. Len(bodies) : ~w[k].seen => w[k].defers = <<>>
    <3> TAKE k \in 1 .. Len(bodies)
    <3>1. CASE k = Len(bodies)
      BY <2>4, <3>1
    <3>2. CASE k # Len(bodies)
      <4>1. k \in 1 .. Len(bodies) - 1 /\ k \in 1 .. Len(bodies)
        BY <2>2, <3>2
      <4> QED  BY <1>10, <2>1, <4>1 DEF Outers
    <3> QED  BY <3>1, <3>2
  <2>6. 1 \in 1 .. Len(bodies)
    BY <2>2
  <2> QED  BY <1>10, <2>1, <2>3, <2>5, <2>6 DEF Outers
<1>22. Chains(w)
  BY <1>0, <1>2, <1>4, ChainsRegistered DEF Links, b
<1>23. Counted(d, defers', counter', left - 1)
  <2> DEFINE f == Flat(c.open, 1)
             g == Flat(d.open, 1)
  <2>1. g = Append(f, call)
    <3>1. 1 \in 1 .. Len(c.open)
      BY <1>11
    <3>2. Flat(WithCall(c.open, call), 1) = Append(Flat(c.open, 1), call)
      BY <1>4, <1>11, <3>1, FlatWithCall
    <3> QED  BY <1>19, <3>2
  <2>2. f \in Seq(Call) /\ Len(f) \in Nat
    BY <1>15
  <2>3. \A j \in 1 .. Len(f) : f[j].name <= counter /\ f[j].defer \in 1 .. Len(defers) /\ f[j].name \in Nat
    BY <1>14, <1>16
  <2> HIDE DEF f, g
  <2>4. Len(g) = Len(f) + 1 /\ g[Len(f) + 1] = call /\ \A j \in 1 .. Len(f) : g[j] = f[j]
    BY <1>4, <2>1, <2>2
  <2>5. ASSUME NEW j \in 1 .. Len(g) PROVE g[j].name <= counter' /\ g[j].defer \in 1 .. Len(defers')
    <3>1. CASE j = Len(f) + 1
      <4>1. g[j] = call
        BY <2>4, <3>1
      <4> QED  BY <1>0, <1>1, <1>4, <1>13, <4>1
    <3>2. CASE j # Len(f) + 1
      <4>1. j \in 1 .. Len(f)
        BY <2>2, <2>4, <3>2
      <4>2. g[j] = f[j] /\ f[j].name <= counter /\ f[j].defer \in 1 .. Len(defers) /\ f[j].name \in Nat
        BY <2>3, <2>4, <4>1
      <4> QED  BY <1>0, <1>1, <1>13, <4>2
    <3> QED  BY <3>1, <3>2
  <2>6. Len(defers') + (left - 1) <= MaxStmts
    BY <1>0, <1>3, <1>13, <1>14
  <2> QED  BY <2>5, <2>6 DEF Counted, g
<1>24. Tails(out', w)
  <2>1. i.op \notin TailFree
    BY <1>5 DEF TailFree
  <2> QED  BY <1>0, <1>3, <1>5, <1>8, <2>1, NoneOne, NoTails
<1>25. Links(d, out', w, defers', counter', left - 1)
  BY <1>20, <1>21, <1>22, <1>23, <1>24 DEF Links
<1>26. counter' \in 0 .. Len(defers')
  BY <1>0, <1>1, <1>13
<1> HIDE DEF w
<1> QED  BY <1>1, <1>3, <1>7, <1>10, <1>13, <1>18, <1>25, <1>26 DEF Bodies

(* Open, *)
LEMMA OpenKeeps ==
    ASSUME Bodies(out, bodies, defers, counter, left), Open
    PROVE  Bodies(out', bodies', defers', counter', left')
<1>0. /\ bodies \in Seq(Body) /\ bodies # <<>> /\ out \in Seq(Instr) /\ defers \in Seq(BOOLEAN)
      /\ counter \in 0 .. Len(defers) /\ Len(out) + 1 \in Nat
  BY DEF Bodies
<1>1. PICK kind \in Kinds :
        /\ Writing
        /\ bodies' = Append(bodies, [kind |-> kind, at |-> Len(out) + 1, outer |-> OuterOf(kind, Top),
                       defers |-> <<>>, exited |-> FALSE, seen |-> Top.seen /\ kind \notin Hidden])
        /\ out' = out \o <<Plain(kind)>> /\ left' = left - 1 /\ defers' = defers /\ counter' = counter
  BY DEF Open, Write
<1> DEFINE i == Plain(kind)
           b == Opened(bodies, kind, Len(out) + 1)
           w == Append(bodies, b)
<1>2. PICK c : Written(out, defers, c) /\ Links(c, out, bodies, defers, counter, left)
  BY DEF Bodies
<1>3. /\ NoneOf(out, TailFree) /\ ~TopOf(bodies).exited /\ left - 1 \in 0 .. MaxStmts /\ left \in Nat /\ left > 0
      /\ Top = TopOf(bodies) /\ TopOf(bodies) \in Body
  BY <1>1, WritingFacts
<1>4. i \in Instr /\ i.op = kind /\ kind \in AllKinds
  <2>1. kind \in AllKinds
    BY OpKinds
  <2>2. kind \in Ops
    BY <2>1 DEF Ops
  <2> QED  BY <2>1, <2>2, PlainParts
<1>5. i.op \in AllKinds /\ i.op \notin {"let", "call", "assign", "save", "tail", "close", "end"} \cup Jumps \cup Exits
  BY <1>4, OpKinds
<1>6. bodies' = w
  BY <1>1, <1>3 DEF Opened
<1> HIDE DEF i
<1>7. out' = Append(out, i)
  BY <1>0, <1>1, <1>4, ConcatOne DEF i
<1>8. /\ b \in Body /\ b.at = Len(out) + 1 /\ b.defers = <<>> /\ ~b.exited
      /\ b.outer = OuterOf(kind, TopOf(bodies)) /\ b.kind = kind
  BY <1>0, OpenedFacts
<1> HIDE DEF b
<1>9. /\ w \in Seq(Body) /\ Len(w) = Len(bodies) + 1 /\ w # <<>> /\ w[Len(bodies) + 1] = b /\ Len(bodies) \in Nat
      /\ \A k \in 1 .. Len(bodies) : w[k] = bodies[k]
  BY <1>0, <1>8
<1>10. c \in Place /\ c.open \in Seq(Frame) /\ c.open # <<>> /\ c.made = 0 /\ ~c.dead
  BY <1>0, <1>2, <1>3, WrittenPlace DEF Links, Mirrors
<1>11. Fits(i, c, defers)
  <2>1. /\ i.op \in Kinds /\ i.op # "let" /\ i.op # "call" /\ i.op # "close" /\ i.op # "end"
        /\ i.op \notin Jumps /\ i.op \notin Exits /\ i.op # "return-saved"
    BY <1>4, <1>5 DEF Exits
  <2>2. FitsState(i, c)
    BY <1>10, <2>1 DEF FitsState
  <2>3. FitsLet(i, c, defers) /\ FitsCall(i, c) /\ FitsClose(i, c) /\ FitsJump(i, c) /\ FitsExit(i, c, defers)
    BY <2>1 DEF FitsLet, FitsCall, FitsClose, FitsJump, FitsExit
  <2> QED  BY <2>2, <2>3 DEF Fits
<1> DEFINE d == After(Len(out) + 1, i, c)
<1>12. Written(out', defers, d) /\ out' \in Seq(Instr)
  BY <1>0, <1>2, <1>4, <1>7, <1>11, WrittenMore
<1>13. d.open = Entered(c.open, Len(out) + 1) /\ d.made = 0 /\ ~d.dead
  <2>1. d.open = OpenAfter(Len(out) + 1, i, c.open)
    BY <1>0, <1>4, <1>10, AfterTyped
  <2>2. OpenAfter(Len(out) + 1, i, c.open) = Entered(c.open, Len(out) + 1)
    BY <1>0, <1>4, <1>5, <1>10, AfterOpen
  <2>3. d.made = (IF i.op = "call" THEN c.made + 1 ELSE 0) /\ (d.dead <=> i.op \in Jumps \cup Exits \cup {"end"})
    BY <1>0, <1>4, <1>10, AfterTyped
  <2> HIDE DEF d
  <2> QED  BY <1>5, <2>1, <2>2, <2>3
<1> HIDE DEF d
<1>14. Mirrors(d, w)
  <2> DEFINE o == c.open
             v == Entered(o, Len(out) + 1)
             n == Len(bodies)
  <2>1. /\ Len(v) = Len(o) + 1 /\ \A k \in 1 .. Len(o) : v[k] = o[k]
        /\ v[Len(o) + 1] = [at |-> Len(out) + 1, calls |-> <<>>]
    BY <1>0, <1>10, EnteredFacts
  <2>2. Len(o) = n /\ \A k \in 1 .. n : o[k].at = bodies[k].at /\ o[k].calls = bodies[k].defers
    BY <1>2 DEF Links, Mirrors
  <2>3. d.open = v
    BY <1>13
  <2> HIDE DEF v, o, w
  <2>4. ASSUME NEW k \in 1 .. n + 1 PROVE v[k].at = w[k].at /\ v[k].calls = w[k].defers
    <3>1. CASE k = n + 1
      BY <1>8, <1>9, <2>1, <2>2, <3>1
    <3>2. CASE k # n + 1
      <4>1. k \in 1 .. n
        BY <1>9, <3>2
      <4> QED  BY <1>9, <2>1, <2>2, <4>1
    <3> QED  BY <3>1, <3>2
  <2>5. ~TopOf(w).exited
    BY <1>8, <1>9 DEF TopOf
  <2> QED  BY <1>9, <1>13, <2>1, <2>2, <2>3, <2>4, <2>5 DEF Mirrors
<1>15. Outers(w) /\ Chains(w)
  <2>1. Outers(bodies) /\ Chains(bodies)
    BY <1>2 DEF Links
  <2> QED  BY <1>0, <1>3, <1>8, <2>1, OutersOpened, ChainsOpened
<1>16. Counted(d, defers, counter, left - 1)
  <2> DEFINE n == Len(out) + 1
             o == c.open
  <2>1. 1 \in 1 .. Len(o) + 1 /\ n \in Nat /\ o \in Seq(Frame)
    BY <1>0, <1>10
  <2> HIDE DEF n, o
  <2>2. Flat(Entered(o, n), 1) = Flat(o, 1)
    BY <2>1, FlatEntered
  <2>3. Counted(d, defers, counter, left)
    BY <1>2, <1>13, <2>2 DEF Links, Counted, n, o
  <2> QED  BY <1>0, <1>3, <2>3, CountedLess
<1>17. Tails(out', w)
  <2>1. i.op \notin TailFree
    BY <1>5 DEF TailFree
  <2> QED  BY <1>0, <1>3, <1>4, <1>7, <2>1, NoneOne, NoTails
<1>18. Links(d, out', w, defers, counter, left - 1)
  BY <1>14, <1>15, <1>16, <1>17 DEF Links
<1> HIDE DEF w
<1> QED  BY <1>0, <1>1, <1>3, <1>6, <1>9, <1>12, <1>18 DEF Bodies

\* The copies the desugarer emits before an exit out of the top body.
LEMMA CopiesBlock ==
    ASSUME NEW c \in Place, bodies \in Seq(Body), bodies # <<>>, Mirrors(c, bodies), Chains(bodies)
    PROVE  /\ Copies \in Seq(Instr) /\ CallBlock(Copies, c.open)
           /\ Top.seen => Len(Copies) = Len(FlattenSeq(Chain(Top)))
           /\ ~Top.seen => Len(Copies) = 0
           /\ NoneOf(Copies, TailFree)
           /\ c.open \in Seq(Frame)
<1>0. Top = TopOf(bodies) /\ c.open \in Seq(Frame) /\ Len(c.open) = Len(bodies)
      /\ Len(bodies) \in Nat /\ Len(bodies) >= 1
  BY TopTyped, PlaceParts DEF Top, Mirrors
<1>1. CASE Top.seen
  <2>1. Copies = EmitDefers(Chain(Top))
    BY <1>1 DEF Copies
  <2>2. PICK n \in 1 .. Len(bodies) : FlattenSeq(Chain(Top)) = Flat(c.open, n)
    BY <1>0, ChainFlat
  <2>3. Chain(Top) \in Seq(Seq(Call)) /\ n \in 1 .. Len(c.open) + 1
    BY <1>0, ChainFlat
  <2>4. Copies \in Seq(Instr) /\ CallBlock(Copies, c.open) /\ Len(Copies) = Len(FlattenSeq(Chain(Top)))
    BY <1>0, <2>1, <2>2, <2>3, CopiesFit
  <2>5. NoneOf(Copies, TailFree)
    BY <2>4 DEF CallBlock, NoneOf, TailFree
  <2> QED  BY <1>0, <1>1, <2>4, <2>5
<1>2. CASE ~Top.seen
  <2>1. Copies = <<>> /\ Len(<<>>) = 0
    BY <1>2 DEF Copies
  <2>2. 1 \in 1 .. Len(c.open) + 1
    BY <1>0
  <2>3. Len(Flat(c.open, 1)) \in Nat
    BY <1>0, <2>2, ListsTyped
  <2>4. CallBlock(Copies, c.open) /\ NoneOf(Copies, TailFree) /\ Copies \in Seq(Instr)
    BY <2>1, <2>3 DEF CallBlock, NoneOf
  <2> QED  BY <1>0, <1>2, <2>1, <2>4
<1> QED  BY <1>1, <1>2

\* The exit itself, when what precedes it has been written.
LEMMA ExitWritten ==
    ASSUME bodies \in Seq(Body), bodies # <<>>, defers \in Seq(BOOLEAN), counter \in 0 .. Len(defers),
           left \in Nat, left > 0, left - 1 \in 0 .. MaxStmts,
           NEW c, Links(c, out, bodies, defers, counter, left),
           NEW code \in Seq(Instr), NEW e \in Place, Written(code, defers, e), e.open = c.open,
           NoneOf(code, TailFree),
           NEW i \in Instr, i.op \in Jumps \cup Exits, Fits(i, e, defers)
    PROVE  Bodies(Append(code, i), Topped(bodies, Left(TopOf(bodies))), defers, counter, left - 1)
<1> DEFINE w == Topped(bodies, Left(TopOf(bodies)))
           d == After(Len(code) + 1, i, e)
           cc == Append(code, i)
<1>1. Written(cc, defers, d) /\ cc \in Seq(Instr)
  BY WrittenMore
<1>2. e.open # <<>> /\ e.open \in Seq(Frame)
  BY WrittenPlace
<1>3. i.op \notin AllKinds /\ i.op # "close" /\ i.op # "let" /\ i.op # "call" /\ i.op \notin TailFree
  BY OpKinds DEF Jumps, Exits, TailFree
<1>4. d.open = c.open /\ d.made = 0 /\ d.dead
  <2>1. Len(code) + 1 \in Nat
    OBVIOUS
  <2>2. d.open = e.open /\ d.made = 0 /\ (d.dead <=> i.op \in Jumps \cup Exits \cup {"end"})
    BY <1>2, <1>3, <2>1, AfterPlain
  <2> HIDE DEF d
  <2> QED  BY <2>2
<1>5. Left(TopOf(bodies)) \in Body /\ Left(TopOf(bodies)).exited /\ SameBodies(w, bodies)
  BY LeftFacts
<1>6. w \in Seq(Body) /\ Len(w) = Len(bodies) /\ w # <<>> /\ TopOf(w) = Left(TopOf(bodies)) /\ Len(bodies) \in Nat
  BY <1>5, ToppedFacts, TopTyped
<1>7. Mirrors(c, bodies) /\ Outers(bodies) /\ Chains(bodies)
  BY DEF Links
<1>8. Outers(w)
  BY <1>7, OutersLeft
<1> HIDE DEF w, d
<1>9. Mirrors(d, w)
  <2>1. \A k \in 1 .. Len(bodies) : c.open[k].at = w[k].at /\ c.open[k].calls = w[k].defers
    BY <1>5, <1>7 DEF SameBodies, Mirrors
  <2> QED  BY <1>4, <1>5, <1>6, <1>7, <2>1 DEF Mirrors
<1>10. Chains(w)
  BY <1>5, <1>6, <1>7, ChainsSame
<1>11. Counted(d, defers, counter, left - 1)
  BY <1>4, CountedLess DEF Links
<1>12. Tails(cc, w)
  BY <1>3, NoneOne, NoTails
<1> HIDE DEF cc
<1>13. Links(d, cc, w, defers, counter, left - 1)
  BY <1>8, <1>9, <1>10, <1>11, <1>12 DEF Links
<1> QED  BY <1>1, <1>6, <1>13 DEF Bodies, w, cc

LEMMA ConcatEnd ==
    ASSUME NEW S, NEW s \in Seq(S), NEW b \in Seq(S), NEW y \in S
    PROVE  s \o (b \o <<y>>) = Append(s \o b, y)
<1>1. <<y>> \in Seq(S) /\ s \o b \in Seq(S)
  OBVIOUS
<1>2. s \o (b \o <<y>>) = (s \o b) \o <<y>>
  BY <1>1, ConcatAssociative
<1>3. (s \o b) \o <<y>> = Append(s \o b, y)
  BY <1>1, ConcatOne
<1> QED  BY <1>2, <1>3

LEMMA ConcatEnds ==
    ASSUME NEW S, NEW s \in Seq(S), NEW b \in Seq(S), NEW x \in S, NEW y \in S
    PROVE  s \o (<<x>> \o b \o <<y>>) = Append(Append(s, x) \o b, y)
<1> DEFINE u == <<x>>
<1>1. u \in Seq(S) /\ u \o b \in Seq(S) /\ s \o u \in Seq(S)
  OBVIOUS
<1> HIDE DEF u
<1>2. s \o ((u \o b) \o <<y>>) = Append(s \o (u \o b), y)
  BY <1>1, ConcatEnd
<1>3. s \o (u \o b) = (s \o u) \o b
  BY <1>1, ConcatAssociative
<1>4. s \o u = Append(s, x)
  BY ConcatOne DEF u
<1> QED  BY <1>2, <1>3, <1>4 DEF u

\* What is left behind by leaving the bodies from n on.
LEMMA CrossedNow ==
    ASSUME bodies \in Seq(Body), NEW c \in Place, Mirrors(c, bodies), NEW n \in 1 .. Len(bodies)
    PROVE  Crossed(n) = Flat(c.open, n) /\ Len(Flat(c.open, n)) \in Nat /\ Flat(c.open, n) \in Seq(Call)
<1>1. n \in 1 .. Len(bodies) + 1 /\ Len(c.open) = Len(bodies)
  BY DEF Mirrors
<1>2. Crossed(n) = FlattenSeq(Defers(bodies, n))
  BY DEF Crossed, ListsFrom, Defers
<1>3. FlattenSeq(Defers(bodies, n)) = Flat(c.open, n)
  BY <1>1, CrossedFlat
<1> QED  BY <1>1, <1>2, <1>3, PlaceParts, ListsTyped

(* Return, *)
LEMMA ReturnKeeps ==
    ASSUME Bodies(out, bodies, defers, counter, left), Return
    PROVE  Bodies(out', bodies', defers', counter', left')
<1>0. /\ bodies \in Seq(Body) /\ bodies # <<>> /\ out \in Seq(Instr) /\ defers \in Seq(BOOLEAN)
      /\ counter \in 0 .. Len(defers) /\ Len(out) + 1 \in Nat
  BY DEF Bodies
<1>1. PICK form \in {"return-value", "return-name"} :
        /\ Writing
        /\ (Top.seen /\ Crossed(1) # FlattenSeq(Chain(Top))) => "loop-return" \in Shapes
        /\ (~Top.seen /\ Crossed(1) # <<>>) => "hidden-exit" \in Shapes
        /\ (form = "return-name" /\ MayWrite(1)) => "name" \in Shapes
        /\ Write(WithTop([Top EXCEPT !.exited = TRUE]),
                 IF Top.seen /\ NeedsSaving(form, Top)
                 THEN <<Plain("save")>> \o Copies \o <<Plain("return-saved")>>
                 ELSE Copies \o <<Plain(form)>>)
        /\ defers' = defers /\ counter' = counter
  BY DEF Return
<1> DEFINE w == Topped(bodies, Left(TopOf(bodies)))
<1>2. PICK c : Written(out, defers, c) /\ Links(c, out, bodies, defers, counter, left)
  BY DEF Bodies
<1>3. /\ NoneOf(out, TailFree) /\ ~TopOf(bodies).exited /\ left - 1 \in 0 .. MaxStmts /\ left \in Nat /\ left > 0
      /\ Top = TopOf(bodies) /\ TopOf(bodies) \in Body
  BY <1>1, WritingFacts
<1>4. bodies' = w /\ left' = left - 1
  BY <1>1, <1>3 DEF Write, WithTop, Topped, Left
<1>5. c \in Place /\ c.open # <<>> /\ c.made = 0 /\ ~c.dead /\ Mirrors(c, bodies) /\ Chains(bodies)
      /\ Counted(c, defers, counter, left)
  BY <1>0, <1>2, <1>3, WrittenPlace DEF Links, Mirrors
<1>6. /\ Copies \in Seq(Instr) /\ CallBlock(Copies, c.open)
      /\ Top.seen => Len(Copies) = Len(FlattenSeq(Chain(Top)))
      /\ ~Top.seen => Len(Copies) = 0
      /\ NoneOf(Copies, TailFree)
  BY <1>0, <1>5, CopiesBlock
<1>7. Crossed(1) = Flat(c.open, 1) /\ Len(Flat(c.open, 1)) \in Nat /\ Flat(c.open, 1) \in Seq(Call)
  <2>1. 1 \in 1 .. Len(bodies)
    BY <1>0, TopTyped
  <2> QED  BY <1>0, <1>5, <2>1, CrossedNow
<1>8. Faithful => Len(Copies) = Len(Flat(c.open, 1))
  <2> SUFFICES ASSUME Faithful PROVE Len(Copies) = Len(Flat(c.open, 1))
    OBVIOUS
  <2>1. CASE Top.seen
    BY <1>1, <1>6, <1>7, <2>1 DEF Faithful
  <2>2. CASE ~Top.seen
    <3>1. Crossed(1) = <<>> /\ Len(<<>>) = 0
      BY <1>1, <2>2 DEF Faithful
    <3> QED  BY <1>6, <1>7, <2>2, <3>1
  <2> QED  BY <2>1, <2>2
<1>9. (form = "return-name" /\ "name" \notin Shapes) => NoRef(Flat(c.open, 1), defers)
  <2> DEFINE f == Flat(c.open, 1)
  <2> SUFFICES ASSUME form = "return-name", "name" \notin Shapes PROVE NoRef(f, defers)
    OBVIOUS
  <2>1. ~ \E i \in DOMAIN f : defers[f[i].defer]
    BY <1>1, <1>7 DEF MayWrite
  <2>2. DOMAIN f = 1 .. Len(f)
    BY <1>7
  <2>3. \A j \in 1 .. Len(f) : f[j].defer \in 1 .. Len(defers)
    BY <1>5 DEF Counted
  <2> HIDE DEF f
  <2> QED  BY <2>1, <2>2, <2>3 DEF NoRef
<1> HIDE DEF w
\* Where the calls have been made, the exit fits.
<1>10. ASSUME NEW e \in Place, e.open = c.open, e.made = Len(Copies), ~e.dead, NEW i \in Instr,
              \/ i.op = form /\ (form = "return-value" => Len(Copies) = 0)
              \/ i.op = "return-saved" /\ e.saved
       PROVE  Fits(i, e, defers) /\ i.op \in Jumps \cup Exits
  <2>1. /\ i.op \in {"return-value", "return-name", "return-saved"} /\ i.op \notin AllKinds
        /\ i.op \in Exits
    BY <1>10, OpKinds DEF Exits
  <2>2. FitsState(i, e)
    BY <1>10, <2>1 DEF FitsState
  <2>3. FitsExit(i, e, defers)
    <3>1. i.op = "return-name" => form = "return-name"
      BY <1>10
    <3> QED  BY <1>8, <1>9, <1>10, <3>1 DEF FitsExit
  <2>4. FitsLet(i, e, defers) /\ FitsCall(i, e) /\ FitsClose(i, e) /\ FitsJump(i, e)
    BY <2>1 DEF FitsLet, FitsCall, FitsClose, FitsJump, Jumps
  <2> QED  BY <2>1, <2>2, <2>3, <2>4 DEF Fits
<1>11. CASE Top.seen /\ NeedsSaving(form, Top)
  <2> DEFINE s == Plain("save")
             i == Plain("return-saved")
             code == Append(out, s)
             d == After(Len(out) + 1, s, c)
  <2>1. s \in Instr /\ s.op = "save" /\ i \in Instr /\ i.op = "return-saved"
    <3>1. "save" \in Ops /\ "return-saved" \in Ops
      BY DEF Ops, Exits
    <3> QED  BY <3>1, PlainParts
  <2> HIDE DEF s, i
  <2>2. out' = out \o (<<s>> \o Copies \o <<i>>)
    BY <1>1, <1>11 DEF Write, s, i
  <2>3. out' = Append(code \o Copies, i)
    BY <1>0, <1>6, <2>1, <2>2, ConcatEnds
  <2>4. Fits(s, c, defers)
    <3>1. s.op \notin AllKinds
      BY <2>1, OpKinds
    <3> QED  BY <1>5, <2>1, <3>1
             DEF Fits, FitsState, FitsLet, FitsCall, FitsClose, FitsJump, FitsExit, Jumps, Exits
  <2>5. Written(code, defers, d) /\ code \in Seq(Instr)
    BY <1>0, <1>2, <2>1, <2>4, WrittenMore
  <2>6. d \in Place /\ d.open = c.open /\ d.made = 0 /\ ~d.dead /\ d.saved
    <3>1. s.op \notin AllKinds /\ s.op # "close" /\ s.op # "let" /\ s.op # "call"
      BY <2>1, OpKinds
    <3>2. /\ d \in Place /\ d.open = c.open /\ d.made = 0
          /\ d.saved <=> s.op \in {"save", "tail"}
          /\ d.dead <=> s.op \in Jumps \cup Exits \cup {"end"}
      BY <1>0, <1>5, <2>1, <3>1, AfterPlain
    <3> HIDE DEF d
    <3> QED  BY <2>1, <3>2 DEF Jumps, Exits
  <2>7. NoneOf(code, TailFree)
    <3>1. s.op \notin TailFree
      BY <2>1 DEF TailFree
    <3> QED  BY <1>0, <1>3, <2>1, <3>1, NoneOne
  <2> HIDE DEF code, d
  <2>8. Behind(code, defers, d, Copies)
    BY <1>6, <2>5, <2>6, WrittenCalls
  <2>9. PICK e \in Place : /\ Written(code \o Copies, defers, e)
                           /\ e.open = d.open /\ e.made = Len(Copies) /\ ~e.dead /\ e.saved = d.saved
    BY <2>8 DEF Behind
  <2>10. NoneOf(code \o Copies, TailFree) /\ code \o Copies \in Seq(Instr)
    BY <1>6, <2>5, <2>7, NoneMore
  <2>11. Fits(i, e, defers) /\ i.op \in Jumps \cup Exits
    BY <1>10, <2>1, <2>6, <2>9
  <2>12. Bodies(out', w, defers, counter, left - 1)
    BY <1>0, <1>2, <1>3, <2>1, <2>3, <2>6, <2>9, <2>10, <2>11, ExitWritten DEF w
  <2> QED  BY <1>1, <1>4, <2>12
<1>12. CASE ~(Top.seen /\ NeedsSaving(form, Top))
  <2> DEFINE i == Plain(form)
  <2>1. i \in Instr /\ i.op = form
    <3>1. form \in Ops
      BY DEF Ops, Exits
    <3> QED  BY <3>1, PlainParts
  <2>2. form = "return-value" => Len(Copies) = 0
    <3>1. Len(<<>>) = 0
      OBVIOUS
    <3> QED  BY <1>6, <1>12, <3>1 DEF NeedsSaving
  <2> HIDE DEF i
  <2>3. out' = out \o (Copies \o <<i>>)
    BY <1>1, <1>12 DEF Write, i
  <2>4. out' = Append(out \o Copies, i)
    BY <1>0, <1>6, <2>1, <2>3, ConcatEnd
  <2>5. Behind(out, defers, c, Copies)
    BY <1>0, <1>2, <1>5, <1>6, WrittenCalls
  <2>6. PICK e \in Place : /\ Written(out \o Copies, defers, e)
                           /\ e.open = c.open /\ e.made = Len(Copies) /\ ~e.dead /\ e.saved = c.saved
    BY <2>5 DEF Behind
  <2>7. NoneOf(out \o Copies, TailFree) /\ out \o Copies \in Seq(Instr)
    BY <1>0, <1>3, <1>6, NoneMore
  <2>8. Fits(i, e, defers) /\ i.op \in Jumps \cup Exits
    BY <1>10, <2>1, <2>2, <2>6
  <2>9. Bodies(out', w, defers, counter, left - 1)
    BY <1>0, <1>2, <1>3, <2>1, <2>4, <2>6, <2>7, <2>8, ExitWritten DEF w
  <2> QED  BY <1>1, <1>4, <2>9
<1> QED  BY <1>11, <1>12

(* BreakOrContinue, *)
LEMMA JumpKeeps ==
    ASSUME Bodies(out, bodies, defers, counter, left), BreakOrContinue
    PROVE  Bodies(out', bodies', defers', counter', left')
<1>0. /\ bodies \in Seq(Body) /\ bodies # <<>> /\ out \in Seq(Instr) /\ defers \in Seq(BOOLEAN)
      /\ counter \in 0 .. Len(defers) /\ Len(bodies) \in Nat
  BY DEF Bodies
<1> DEFINE m == Innermost
<1>1. PICK op \in Jumps :
        /\ Writing /\ Loops # {}
        /\ (~Top.seen /\ Crossed(m) # <<>>) => "hidden-exit" \in Shapes
        /\ Write(WithTop([Top EXCEPT !.exited = TRUE]), Append(Copies, Bound(op, bodies[m].at)))
        /\ defers' = defers /\ counter' = counter
  BY DEF BreakOrContinue
<1> DEFINE w == Topped(bodies, Left(TopOf(bodies)))
           i == Bound(op, bodies[m].at)
<1>2. PICK c : Written(out, defers, c) /\ Links(c, out, bodies, defers, counter, left)
  BY DEF Bodies
<1>3. /\ NoneOf(out, TailFree) /\ ~TopOf(bodies).exited /\ left - 1 \in 0 .. MaxStmts /\ left \in Nat /\ left > 0
      /\ Top = TopOf(bodies) /\ TopOf(bodies) \in Body
  BY <1>1, WritingFacts
<1>4. bodies' = w /\ left' = left - 1
  BY <1>1, <1>3 DEF Write, WithTop, Topped, Left
<1>5. c \in Place /\ c.open # <<>> /\ c.made = 0 /\ ~c.dead /\ Mirrors(c, bodies) /\ Chains(bodies)
      /\ Outers(bodies)
  BY <1>0, <1>2, <1>3, WrittenPlace DEF Links, Mirrors
<1>6. /\ Copies \in Seq(Instr) /\ CallBlock(Copies, c.open)
      /\ Top.seen => Len(Copies) = Len(FlattenSeq(Chain(Top)))
      /\ ~Top.seen => Len(Copies) = 0
      /\ NoneOf(Copies, TailFree)
  BY <1>0, <1>5, CopiesBlock
<1>7. PICK n \in 1 .. Len(bodies) :
        /\ FlattenSeq(Chain(Top)) = Flat(c.open, n)
        /\ n = 1 \/ bodies[n].kind = "while"
        /\ \A k \in n + 1 .. Len(bodies) : bodies[k].kind # "while"
  BY <1>0, <1>3, <1>5, ChainFlat
<1>8. m \in 2 .. Len(bodies) /\ n = m
  <2>1. Loops = {k \in 1 .. Len(bodies) : bodies[k].kind = "while"}
    BY <1>0 DEF Loops
  <2>2. 1 \notin Loops
    BY <1>5, <2>1 DEF Outers
  <2>3. n \in Loops /\ \A k \in Loops : k <= n
    <3>1. PICK k \in Loops : TRUE
      BY <1>1
    <3>2. ASSUME NEW j \in Loops PROVE j <= n
      <4>1. j \in 1 .. Len(bodies) /\ bodies[j].kind = "while"
        BY <2>1
      <4>2. ~(j \in n + 1 .. Len(bodies))
        BY <1>7, <4>1
      <4> QED  BY <1>0, <1>7, <4>1, <4>2
    <3>3. n # 1
      <4>1. k \in 1 .. Len(bodies) /\ k # 1 /\ k <= n
        BY <2>1, <2>2, <3>1, <3>2
      <4> QED  BY <4>1
    <3>4. n \in Loops
      BY <1>7, <2>1, <3>3
    <3> QED  BY <3>2, <3>4
  <2>4. \A k \in Loops : k \in Nat
    BY <2>1
  <2>5. \E k \in Loops : \A j \in Loops : j <= k
    BY <2>3
  <2>6. m \in Loops /\ \A j \in Loops : j <= m
    BY <2>5 DEF Innermost
  <2>7. n = m
    <3>1. n <= m /\ m <= n /\ n \in Nat /\ m \in Nat
      BY <2>3, <2>4, <2>6
    <3> QED  BY <3>1
  <2>8. m # 1 /\ m \in 1 .. Len(bodies)
    BY <2>1, <2>2, <2>6
  <2> QED  BY <2>7, <2>8
<1> HIDE DEF m, w
<1>9. Faithful => Len(Copies) = Len(Flat(c.open, m))
  <2> SUFFICES ASSUME Faithful PROVE Len(Copies) = Len(Flat(c.open, m))
    OBVIOUS
  <2>1. CASE Top.seen
    BY <1>6, <1>7, <1>8, <2>1
  <2>2. CASE ~Top.seen
    <3>1. Crossed(m) = <<>> /\ Len(<<>>) = 0
      BY <1>1, <2>2 DEF Faithful
    <3>2. Crossed(m) = Flat(c.open, m)
      BY <1>0, <1>5, <1>7, <1>8, CrossedNow
    <3> QED  BY <1>6, <2>2, <3>1, <3>2
  <2> QED  BY <2>1, <2>2
<1>10. i \in Instr /\ i.op = op /\ i.at = bodies[m].at
  <2>1. op \in Ops
    BY DEF Ops
  <2>2. bodies[m].at \in Nat
    <3>1. m \in 1 .. Len(bodies)
      BY <1>7, <1>8
    <3>2. bodies[m] \in Body
      BY <1>0, <3>1, ElementOfSeq
    <3> QED  BY <3>2, BodyParts
  <2> QED  BY <2>1, <2>2, PlainParts
<1> HIDE DEF i
<1>11. out' = Append(out \o Copies, i)
  <2>1. out' = out \o Append(Copies, i)
    BY <1>1 DEF Write, i, m
  <2>2. out \o Append(Copies, i) = Append(out \o Copies, i)
    BY <1>0, <1>6, <1>10, ConcatAppend
  <2> QED  BY <2>1, <2>2
<1>12. Behind(out, defers, c, Copies)
  BY <1>0, <1>2, <1>5, <1>6, WrittenCalls
<1>13. PICK e \in Place : /\ Written(out \o Copies, defers, e)
                          /\ e.open = c.open /\ e.made = Len(Copies) /\ ~e.dead /\ e.saved = c.saved
  BY <1>12 DEF Behind
<1>14. NoneOf(out \o Copies, TailFree) /\ out \o Copies \in Seq(Instr)
  BY <1>0, <1>3, <1>6, NoneMore
<1>15. Fits(i, e, defers) /\ i.op \in Jumps \cup Exits
  <2>1. i.op \in Jumps /\ i.op \notin AllKinds /\ i.op \notin Exits
    BY <1>10, OpKinds DEF Jumps, Exits
  <2>2. FitsState(i, e)
    BY <1>13, <2>1 DEF FitsState, Jumps
  <2>3. FitsJump(i, e)
    <3>1. m \in 2 .. Len(e.open)
      BY <1>5, <1>8, <1>13 DEF Mirrors
    <3>2. i.at = e.open[m].at
      BY <1>5, <1>7, <1>8, <1>10, <1>13 DEF Mirrors
    <3>3. Faithful => e.made = Len(Flat(e.open, m))
      BY <1>9, <1>13
    <3> QED  BY <3>1, <3>2, <3>3 DEF FitsJump
  <2>4. FitsLet(i, e, defers) /\ FitsCall(i, e) /\ FitsClose(i, e) /\ FitsExit(i, e, defers)
    BY <2>1 DEF FitsLet, FitsCall, FitsClose, FitsExit, Jumps
  <2> QED  BY <2>1, <2>2, <2>3, <2>4 DEF Fits
<1>16. Bodies(out', w, defers, counter, left - 1)
  BY <1>0, <1>2, <1>3, <1>10, <1>11, <1>13, <1>14, <1>15, ExitWritten DEF w
<1> QED  BY <1>1, <1>4, <1>16

\* What the top body is owed.
LEMMA LastFlat ==
    ASSUME NEW open \in Seq(Frame), open # <<>>
    PROVE  Flat(open, Len(open)) = LastOf(open).calls /\ LastOf(open).calls \in Seq(Call)
<1> DEFINE s == LastOf(open).calls
<1>1. Len(open) \in 1 .. Len(open)
  BY Fronts
<1>2. s \in Seq(Call)
  BY <1>1, FrameCalls DEF LastOf
<1>3. Lists(open, Len(open)) = <<s>>
  BY <1>1 DEF Lists, LastOf
<1> HIDE DEF s
<1>4. FlattenSeq(<<s>>) = s
  BY <1>2, FlatOne
<1> QED  BY <1>2, <1>3, <1>4 DEF Flat, s

\* The calls of a body that falls through.
LEMMA FallBlock ==
    ASSUME bodies \in Seq(Body), bodies # <<>>, NEW c \in Place, c.open # <<>>,
           Mirrors(c, bodies), Outers(bodies)
    PROVE  /\ Fallthrough \in Seq(Instr) /\ CallBlock(Fallthrough, c.open)
           /\ NoneOf(Fallthrough, TailFree)
           /\ Top.exited => Fallthrough = <<>>
           /\ Top.defers = <<>> => Fallthrough = <<>>
           /\ ~Top.exited => Len(Fallthrough) = Len(Flat(c.open, Len(c.open)))
           /\ Top = TopOf(bodies) /\ LastOf(c.open).at = Top.at
<1>1. Top = TopOf(bodies) /\ Top \in Body /\ Len(bodies) \in 1 .. Len(bodies)
  BY TopTyped DEF Top
<1>2. c.open \in Seq(Frame) /\ Len(c.open) = Len(bodies)
  BY PlaceParts DEF Mirrors
<1>3. LastOf(c.open).calls = Top.defers /\ LastOf(c.open).at = Top.at
  BY <1>1, <1>2 DEF Mirrors, LastOf, TopOf
<1>4. Flat(c.open, Len(c.open)) = Top.defers /\ Top.defers \in Seq(Call)
  BY <1>2, <1>3, LastFlat
<1> DEFINE s == Top.defers
           b == EmitDefers(<<s>>)
<1>5. <<s>> \in Seq(Seq(Call)) /\ FlattenSeq(<<s>>) = s
  BY <1>4, FlatOne
<1>6. Len(c.open) \in 1 .. Len(c.open) + 1
  BY <1>1, <1>2
<1>7. b \in Seq(Instr) /\ Len(b) = Len(Flat(c.open, Len(c.open))) /\ CallBlock(b, c.open)
  BY <1>2, <1>4, <1>5, <1>6, CopiesFit
<1>8. Len(b) = Len(s)
  BY <1>4, <1>7
<1>9. NoneOf(b, TailFree)
  BY <1>7 DEF NoneOf, CallBlock, TailFree
<1> HIDE DEF b
<1>10. <<>> \in Seq(Instr) /\ CallBlock(<<>>, c.open) /\ NoneOf(<<>>, TailFree) /\ Len(<<>>) = 0
  <2>1. Len(Flat(c.open, 1)) \in Nat
    <3>1. 1 \in 1 .. Len(c.open) + 1
      BY <1>2
    <3> QED  BY <1>2, <3>1, ListsTyped
  <2>2. <<>> \in Seq(Instr) /\ Len(<<>>) = 0
    OBVIOUS
  <2>3. CallBlock(<<>>, c.open)
    BY <2>1, <2>2 DEF CallBlock
  <2>4. NoneOf(<<>>, TailFree)
    BY <2>2 DEF NoneOf
  <2> QED  BY <2>2, <2>3, <2>4
<1>11. s = <<>> => b = <<>>
  BY <1>7, <1>8, <1>10, EmptySeq
<1>12. CASE Top.seen /\ ~Top.exited
  <2>1. Fallthrough = b
    BY <1>12 DEF Fallthrough, b
  <2> QED  BY <1>1, <1>3, <1>7, <1>9, <1>11, <1>12, <2>1
<1>13. CASE ~(Top.seen /\ ~Top.exited)
  <2>1. Fallthrough = <<>>
    BY <1>13 DEF Fallthrough
  <2>2. ~Top.exited => s = <<>>
    BY <1>1, <1>13 DEF Outers, TopOf
  <2> QED  BY <1>1, <1>3, <1>4, <1>10, <2>1, <2>2
<1> QED  BY <1>12, <1>13

\* The place after them.
LEMMA FallWritten ==
    ASSUME Bodies(out, bodies, defers, counter, left), NEW c, Written(out, defers, c),
           Links(c, out, bodies, defers, counter, left)
    PROVE  \E e \in Place :
              /\ Written(out \o Fallthrough, defers, e) /\ out \o Fallthrough \in Seq(Instr)
              /\ e.open = c.open /\ e.open \in Seq(Frame) /\ e.open # <<>>
              /\ e.dead => c.dead
              /\ ~e.dead => e.made = Len(Flat(c.open, Len(c.open)))
<1>0. bodies \in Seq(Body) /\ bodies # <<>> /\ out \in Seq(Instr)
  BY DEF Bodies
<1>1. c \in Place /\ c.open \in Seq(Frame) /\ c.open # <<>> /\ c.made = 0 /\ Mirrors(c, bodies) /\ Outers(bodies)
  BY <1>0, WrittenPlace DEF Links, Mirrors
<1>2. /\ Fallthrough \in Seq(Instr) /\ CallBlock(Fallthrough, c.open)
      /\ Top.exited => Fallthrough = <<>>
      /\ ~Top.exited => Len(Fallthrough) = Len(Flat(c.open, Len(c.open)))
      /\ Top = TopOf(bodies)
  BY <1>0, <1>1, FallBlock
<1>3. c.dead <=> Top.exited
  BY <1>1, <1>2 DEF Mirrors
<1>4. CASE Top.exited
  <2>1. out \o Fallthrough = out
    BY <1>0, <1>2, <1>4
  <2> QED  BY <1>0, <1>1, <1>3, <1>4, <2>1
<1>5. CASE ~Top.exited
  <2>1. Behind(out, defers, c, Fallthrough) /\ out \o Fallthrough \in Seq(Instr)
    BY <1>0, <1>1, <1>2, <1>3, <1>5, WrittenCalls
  <2>2. PICK e \in Place : /\ Written(out \o Fallthrough, defers, e)
                           /\ e.open = c.open /\ e.made = Len(Fallthrough) /\ ~e.dead /\ e.saved = c.saved
    BY <2>1 DEF Behind
  <2> QED  BY <1>1, <1>2, <1>5, <2>1, <2>2
<1> QED  BY <1>4, <1>5

(* and Close. *)
LEMMA CloseKeeps ==
    ASSUME Bodies(out, bodies, defers, counter, left), Close
    PROVE  Bodies(out', bodies', defers', counter', left')
<1>0. /\ bodies \in Seq(Body) /\ bodies # <<>> /\ out \in Seq(Instr) /\ defers \in Seq(BOOLEAN)
      /\ counter \in 0 .. Len(defers) /\ left \in 0 .. MaxStmts /\ Len(bodies) \in Nat
  BY DEF Bodies
<1>1. /\ Len(bodies) > 1 /\ bodies' = Front(bodies)
      /\ out' = out \o Append(Fallthrough, Bound("close", Top.at))
      /\ defers' = defers /\ counter' = counter /\ left' = left
  BY DEF Close
<1>2. PICK c : Written(out, defers, c) /\ Links(c, out, bodies, defers, counter, left)
  BY DEF Bodies
<1>3. /\ c \in Place /\ c.open \in Seq(Frame) /\ c.open # <<>> /\ c.made = 0
      /\ Mirrors(c, bodies) /\ Outers(bodies) /\ Chains(bodies) /\ Tails(out, bodies)
      /\ Counted(c, defers, counter, left)
  BY <1>0, <1>2, WrittenPlace DEF Links, Mirrors
<1>4. /\ Fallthrough \in Seq(Instr) /\ NoneOf(Fallthrough, TailFree)
      /\ Top = TopOf(bodies) /\ LastOf(c.open).at = Top.at /\ Top \in Body
  BY <1>0, <1>3, FallBlock, TopTyped
<1>5. PICK e \in Place :
              /\ Written(out \o Fallthrough, defers, e) /\ out \o Fallthrough \in Seq(Instr)
              /\ e.open = c.open /\ e.open \in Seq(Frame) /\ e.open # <<>>
              /\ e.dead => c.dead
              /\ ~e.dead => e.made = Len(Flat(c.open, Len(c.open)))
  BY <1>2, FallWritten
<1> DEFINE i == Bound("close", Top.at)
           code == out \o Fallthrough
           d == After(Len(code) + 1, i, e)
           w == Front(bodies)
<1>6. i \in Instr /\ i.op = "close" /\ i.at = Top.at
  <2>1. "close" \in Ops
    BY DEF Ops
  <2>2. Top.at \in Nat
    BY <1>4, BodyParts
  <2> QED  BY <2>1, <2>2, PlainParts
<1> HIDE DEF i
<1>7. out' = Append(code, i)
  BY <1>0, <1>1, <1>4, <1>6, ConcatAppend DEF i
<1>8. NoneOf(code, TailFree) /\ code \in Seq(Instr)
  <2>1. NoneOf(out, TailFree)
    <3>1. Len(bodies) # 1
      <4>1. \A n \in Nat : n > 1 => n # 1
        OBVIOUS
      <4>2. Len(bodies) \in Nat /\ Len(bodies) > 1
        BY <1>0, <1>1
      <4> QED  BY <4>1, <4>2
    <3>2. \A p \in 1 .. Len(out) : out[p].op # "end" /\ out[p].op # "tail"
      BY <1>3, <3>1 DEF Tails
    <3> QED  BY <3>2 DEF NoneOf, TailFree
  <2> QED  BY <1>0, <1>4, <2>1, NoneMore
<1> HIDE DEF code
<1>9. Fits(i, e, defers)
  <2>1. i.op \notin AllKinds /\ i.op \notin Jumps /\ i.op \notin Exits
    BY <1>6, OpKinds DEF Jumps, Exits
  <2>2. FitsState(i, e)
    BY <1>6, <2>1 DEF FitsState
  <2>3. FitsClose(i, e)
    <3>1. Len(c.open) >= 2
      BY <1>1, <1>3, <1>0 DEF Mirrors
    <3> QED  BY <1>4, <1>5, <1>6, <3>1 DEF FitsClose
  <2>4. FitsLet(i, e, defers) /\ FitsCall(i, e) /\ FitsJump(i, e) /\ FitsExit(i, e, defers)
    BY <1>6, <2>1 DEF FitsLet, FitsCall, FitsJump, FitsExit
  <2> QED  BY <2>2, <2>3, <2>4 DEF Fits
<1>10. Written(out', defers, d) /\ out' \in Seq(Instr)
  BY <1>5, <1>6, <1>7, <1>8, <1>9, WrittenMore DEF code
<1>11. d.open = Front(c.open) /\ d.made = 0 /\ ~d.dead
  <2>1. Len(code) + 1 \in Nat
    BY <1>8
  <2>2. d.open = OpenAfter(Len(code) + 1, i, e.open)
    BY <1>5, <1>6, <2>1, AfterTyped
  <2>3. OpenAfter(Len(code) + 1, i, e.open) = Front(e.open)
    BY <1>5, <1>6, <2>1, AfterOpen
  <2>4. d.made = (IF i.op = "call" THEN e.made + 1 ELSE 0) /\ (d.dead <=> i.op \in Jumps \cup Exits \cup {"end"})
    BY <1>5, <1>6, <2>1, AfterTyped
  <2>5. i.op # "call" /\ i.op \notin Jumps \cup Exits \cup {"end"}
    BY <1>6 DEF Jumps, Exits
  <2> HIDE DEF d
  <2> QED  BY <1>5, <2>2, <2>3, <2>4, <2>5
<1> HIDE DEF d
<1>12. /\ w \in Seq(Body) /\ w # <<>> /\ Len(w) = Len(bodies) - 1
       /\ \A k \in 1 .. Len(bodies) - 1 : w[k] = bodies[k]
       /\ Outers(w) /\ Chains(w) /\ ~TopOf(w).exited
  BY <1>0, <1>1, <1>3, Popped
<1>13. Mirrors(d, w)
  <2> DEFINE o == c.open
  <2>1. /\ Len(Front(o)) = Len(o) - 1
        /\ \A k \in 1 .. Len(o) - 1 : Front(o)[k] = o[k]
    BY <1>3, Fronts
  <2>2. Len(o) = Len(bodies) /\ \A k \in 1 .. Len(bodies) : o[k].at = bodies[k].at /\ o[k].calls = bodies[k].defers
    BY <1>3 DEF Mirrors
  <2> HIDE DEF o, w
  <2>3. ASSUME NEW k \in 1 .. Len(w)
        PROVE  Front(o)[k].at = w[k].at /\ Front(o)[k].calls = w[k].defers
    <3>1. k \in 1 .. Len(bodies) - 1 /\ k \in 1 .. Len(bodies)
      BY <1>0, <1>12
    <3> QED  BY <1>12, <2>1, <2>2, <3>1
  <2>4. d.open = Front(o)
    BY <1>11 DEF o
  <2> QED  BY <1>11, <1>12, <2>1, <2>2, <2>3, <2>4 DEF Mirrors
<1>14. Counted(d, defers, counter, left)
  <2> DEFINE f == Flat(Front(c.open), 1)
             g == Flat(c.open, 1)
  <2>1. Front(c.open) \in Seq(Frame)
    BY <1>3, Fronts
  <2>2. 1 \in 1 .. Len(Front(c.open)) + 1 /\ 1 \in 1 .. Len(c.open)
    BY <1>3, <2>1, Fronts
  <2>3. f \in Seq(Call) /\ g = f \o LastOf(c.open).calls /\ LastOf(c.open).calls \in Seq(Call)
    BY <1>3, <2>1, <2>2, ListsTyped, FlatSplitLast, LastFlat
  <2>4. \A j \in 1 .. Len(g) : g[j].name <= counter /\ g[j].defer \in 1 .. Len(defers)
    BY <1>3 DEF Counted
  <2> HIDE DEF f, g
  <2>5. \A j \in 1 .. Len(f) : j \in 1 .. Len(g) /\ g[j] = f[j]
    BY <2>3
  <2>6. \A j \in 1 .. Len(f) : f[j].name <= counter /\ f[j].defer \in 1 .. Len(defers)
    BY <2>4, <2>5
  <2>7. Len(defers) + left <= MaxStmts
    BY <1>3 DEF Counted
  <2>8. Flat(d.open, 1) = f
    BY <1>11 DEF f
  <2> QED  BY <2>6, <2>7, <2>8 DEF Counted
<1>15. Tails(out', w)
  <2>1. i.op \notin TailFree
    BY <1>6 DEF TailFree
  <2> QED  BY <1>6, <1>7, <1>8, <2>1, NoneOne, NoTails
<1>16. Links(d, out', w, defers, counter, left)
  BY <1>12, <1>13, <1>14, <1>15 DEF Links
<1> HIDE DEF w
<1>17. bodies' = w
  BY <1>1 DEF w
<1> QED  BY <1>0, <1>1, <1>10, <1>12, <1>16, <1>17 DEF Bodies

\* What is owed to the bodies the run is in.
Life == [at : Nat, owed : Seq(Owed)]
Kept(lets) == {p \in Owed \X Call : p[1].defer = p[2].defer /\ p[1].arg = lets[p[2].name]}
Lives(live, open, lets) ==
    /\ Len(live) = Len(open)
    /\ \A k \in 1 .. Len(open) :
          live[k].at = open[k].at /\ Pairwise(live[k].owed, open[k].calls, Kept(lets))
Owing(live, n) == [j \in 1 .. (Len(live) - n + 1) |-> live[n + j - 1].owed]
Due(live, n)   == FlattenSeq(Owing(live, n))
Refs(lets, calls, ds) == \A j \in 1 .. Len(calls) : lets[calls[j].name] = Ref => ds[calls[j].defer]

\* The run at place c, before instruction i.
Runs(r, c, i, ds) ==
    /\ ~c.dead
    /\ Lives(r.live, c.open, r.lets)
    /\ Refs(r.lets, Flat(c.open, 1), ds)
    /\ c.made = 0 \/ NoRef(Flat(c.open, 1), ds) => r.x = r.want
    /\ c.saved /\ i.op \notin AllKinds => r.saved = r.want
    /\ Faithful => r.ran = r.due \o SubSeq(Reverse(Due(r.live, 1)), 1, c.made)

Whole(code, ctx) ==
    /\ Len(code) > 0 /\ code[Len(code)].op = "end" /\ Len(ctx[Len(code) + 1].open) = 1
    /\ \A p \in 1 .. Len(code) - 1 : code[p].op # "end"
    /\ "tail" \notin Shapes => \A p \in 1 .. Len(code) : code[p].op = "tail" => p + 1 = Len(code)

At(r, code, ctx, ds) == r.pc \in 1 .. Len(code) /\ Runs(r, ctx[r.pc], code[r.pc], ds)

Running(r, code, ds) == \E ctx \in Seq(Place) : Code(code, ctx, ds) /\ Whole(code, ctx) /\ At(r, code, ctx, ds)

Typed ==
    /\ phase \in {"body", "run", "done", "rejected"}
    /\ bodies \in Seq(Body) /\ bodies # <<>>
    /\ out \in Seq(Instr)
    /\ defers \in Seq(BOOLEAN) /\ counter \in 0 .. Len(defers)
    /\ left \in 0 .. MaxStmts
    /\ run \in Machine

Done ==
    /\ run.pc \in 1 .. Len(out)
    /\ Faithful => run.ran = run.due
    /\ "name" \notin Shapes /\ "tail" \notin Shapes => ReturnsValue

(* Nothing is registered where the code starts. *)
LEMMA StartFlat ==
    /\ Start \in Place /\ Start.open \in Seq(Frame) /\ Len(Start.open) = 1 /\ Start.open # <<>>
    /\ Start.open[1].at = 0 /\ Start.open[1].calls = <<>>
    /\ Start.made = 0 /\ ~Start.saved /\ ~Start.dead
    /\ Flat(Start.open, 1) = <<>> /\ Len(Flat(Start.open, 1)) = 0
<1>1. /\ Start.open \in Seq(Frame) /\ Len(Start.open) = 1
      /\ Start.open[1].at = 0 /\ Start.open[1].calls = <<>>
      /\ Start.made = 0 /\ ~Start.saved /\ ~Start.dead
  BY DEF Start, Frame
<1>2. Start \in Place
  BY WrittenNothing
<1>3. Start.open # <<>>
  BY DEF Start
<1>4. Flat(Start.open, 1) = LastOf(Start.open).calls
  BY <1>1, <1>3, LastFlat
<1>5. LastOf(Start.open).calls = <<>>
  BY <1>1 DEF LastOf
<1> QED  BY <1>1, <1>2, <1>3, <1>4, <1>5

\* A run begins at the first place.
LEMMA FreshRuns ==
    ASSUME Fresh, NEW i, NEW ds
    PROVE  Runs(run, Start, i, ds) /\ run.pc = 1
<1>1. /\ run.pc = 1 /\ run.x = run.want /\ run.ran = <<>> /\ run.due = <<>>
      /\ run.live = << [at |-> 0, owed |-> <<>>] >>
  BY DEF Fresh
<1>2. Lives(run.live, Start.open, run.lets)
  <2>1. Len(run.live) = 1 /\ run.live[1].at = 0 /\ run.live[1].owed = <<>>
    BY <1>1
  <2>2. Pairwise(<<>>, <<>>, Kept(run.lets))
    BY DEF Pairwise
  <2> QED  BY <2>1, <2>2, StartFlat DEF Lives
<1>3. Refs(run.lets, Flat(Start.open, 1), ds)
  BY StartFlat DEF Refs
<1>4. run.ran = run.due \o SubSeq(Reverse(Due(run.live, 1)), 1, Start.made)
  <2>1. Owing(run.live, 1) = << <<>> >>
    BY <1>1 DEF Owing
  <2>2. <<>> \in Seq(Owed)
    OBVIOUS
  <2>3. Due(run.live, 1) = <<>>
    BY <2>1, <2>2, FlatOne DEF Due
  <2>4. Reverse(<<>>) \in Seq(Owed)
    BY <2>2, Reversed
  <2>5. SubSeq(Reverse(Due(run.live, 1)), 1, 0) = <<>>
    BY <2>3, <2>4
  <2>6. <<>> \o <<>> = <<>>
    OBVIOUS
  <2> QED  BY <1>1, <2>5, <2>6, StartFlat
<1> QED  BY <1>1, <1>2, <1>3, <1>4, StartFlat DEF Runs

(* Finish leaves whole code, and a run that is at its start. *)
LEMMA FinishKeeps ==
    ASSUME Bodies(out, bodies, defers, counter, left), Finish, Fresh
    PROVE  Running(run', out', defers') /\ out' \in Seq(Instr)
<1>0. /\ bodies \in Seq(Body) /\ bodies # <<>> /\ out \in Seq(Instr) /\ defers \in Seq(BOOLEAN)
  BY DEF Bodies
<1>1. /\ Len(bodies) = 1
      /\ out' = out \o Append(Fallthrough, Plain("end"))
      /\ defers' = defers /\ run' = run
  BY DEF Finish
<1>2. PICK c : Written(out, defers, c) /\ Links(c, out, bodies, defers, counter, left)
  BY DEF Bodies
<1>3. /\ c \in Place /\ c.open \in Seq(Frame) /\ c.open # <<>> /\ c.made = 0
      /\ Mirrors(c, bodies) /\ Outers(bodies) /\ Tails(out, bodies)
  BY <1>0, <1>2, WrittenPlace DEF Links, Mirrors
<1>4. /\ Fallthrough \in Seq(Instr) /\ NoneOf(Fallthrough, TailFree)
      /\ Top.defers = <<>> => Fallthrough = <<>>
      /\ Top = TopOf(bodies)
  BY <1>0, <1>3, FallBlock
<1>5. PICK e \in Place :
              /\ Written(out \o Fallthrough, defers, e) /\ out \o Fallthrough \in Seq(Instr)
              /\ e.open = c.open /\ e.open \in Seq(Frame) /\ e.open # <<>>
              /\ e.dead => c.dead
              /\ ~e.dead => e.made = Len(Flat(c.open, Len(c.open)))
  BY <1>2, FallWritten
<1>6. Len(c.open) = 1
  BY <1>1, <1>3 DEF Mirrors
<1> DEFINE i == Plain("end")
           code == out \o Fallthrough
           d == After(Len(code) + 1, i, e)
<1>7. i \in Instr /\ i.op = "end"
  <2>1. "end" \in Ops
    BY DEF Ops
  <2> QED  BY <2>1, PlainParts
<1> HIDE DEF i
<1>8. out' = Append(code, i)
  BY <1>0, <1>1, <1>4, <1>7, ConcatAppend DEF i
<1>9. Fits(i, e, defers)
  <2>1. i.op \notin AllKinds
    BY <1>7, OpKinds
  <2>2. FitsState(i, e)
    BY <1>5, <1>6, <1>7, <2>1 DEF FitsState
  <2>3. FitsExit(i, e, defers)
    BY <1>5, <1>6, <1>7 DEF FitsExit
  <2>4. FitsLet(i, e, defers) /\ FitsCall(i, e) /\ FitsJump(i, e) /\ FitsClose(i, e)
    BY <1>7 DEF FitsLet, FitsCall, FitsJump, FitsClose, Jumps
  <2> QED  BY <2>2, <2>3, <2>4 DEF Fits
<1>10. \A p \in 1 .. Len(code) : code[p].op # "end" /\ (code[p].op = "tail" => p = Len(out))
  <2> DEFINE b == Fallthrough
             n == Len(out)
  <2>1. /\ Len(code) = n + Len(b) /\ n \in Nat /\ Len(b) \in Nat
        /\ \A p \in 1 .. n : code[p] = out[p]
        /\ \A p \in n + 1 .. n + Len(b) : code[p] = b[p - n]
    BY <1>0, <1>4
  <2>2. \A p \in 1 .. n : out[p].op # "end" /\ (out[p].op = "tail" => p = n)
    BY <1>3 DEF Tails
  <2>3. \A p \in 1 .. Len(b) : b[p].op # "end" /\ b[p].op # "tail"
    BY <1>4 DEF NoneOf, TailFree
  <2> HIDE DEF code, b, n
  <2>4. SUFFICES ASSUME NEW p \in 1 .. Len(code)
                 PROVE  code[p].op # "end" /\ (code[p].op = "tail" => p = n)
    BY DEF n
  <2>5. CASE p \in 1 .. n
    BY <2>1, <2>2, <2>5
  <2>6. CASE p \notin 1 .. n
    <3>1. p \in n + 1 .. n + Len(b) /\ p - n \in 1 .. Len(b)
      BY <2>1, <2>6
    <3> QED  BY <2>1, <2>3, <3>1
  <2> QED  BY <2>5, <2>6
<1>11. "tail" \notin Shapes => \A p \in 1 .. Len(code) : code[p].op = "tail" => p = Len(code)
  <2> SUFFICES ASSUME "tail" \notin Shapes, NEW p \in 1 .. Len(code), code[p].op = "tail"
               PROVE  p = Len(code)
    OBVIOUS
  <2>1. p = Len(out) /\ p \in 1 .. Len(out)
    BY <1>0, <1>10
  <2>2. code[p] = out[p]
    BY <1>0, <1>4, <2>1
  <2>3. Top.defers = <<>>
    <3>1. out[p].op = "tail"
      BY <2>2
    <3> QED  BY <1>3, <1>4, <2>1, <3>1 DEF Tails
  <2>4. code = out
    BY <1>0, <1>4, <2>3
  <2> QED  BY <2>1, <2>4
<1>12. Written(out', defers, d) /\ out' \in Seq(Instr) /\ Len(out') = Len(code) + 1
  BY <1>5, <1>7, <1>8, <1>9, WrittenMore
<1>13. Len(d.open) = 1
  <2>1. Len(code) + 1 \in Nat
    BY <1>5
  <2>2. d.open = OpenAfter(Len(code) + 1, i, e.open)
    BY <1>5, <1>7, <2>1, AfterTyped
  <2>3. i.op \notin AllKinds \cup {"close", "let"}
    BY <1>7, OpKinds
  <2>4. OpenAfter(Len(code) + 1, i, e.open) = e.open
    BY <1>5, <1>7, <2>1, <2>3, AfterOpen
  <2> QED  BY <1>5, <1>6, <2>2, <2>4
<1> HIDE DEF d, code
<1>14. PICK ctx \in Seq(Place) : Code(out', ctx, defers) /\ Here(out', ctx) = d
  BY <1>12 DEF Written
<1>15. /\ out'[Len(out')] = i /\ Len(out') \in Nat /\ Len(out') > 0 /\ code \in Seq(Instr)
       /\ Len(code) \in Nat
       /\ \A p \in 1 .. Len(code) : out'[p] = code[p]
  BY <1>5, <1>7, <1>8, <1>12 DEF code
<1>16. Whole(out', ctx)
  <2>1. Len(ctx[Len(out') + 1].open) = 1
    BY <1>13, <1>14 DEF Here
  <2>2. \A p \in 1 .. Len(out') - 1 : out'[p].op # "end"
    <3> SUFFICES ASSUME NEW p \in 1 .. Len(out') - 1 PROVE out'[p].op # "end"
      OBVIOUS
    <3>1. p \in 1 .. Len(code)
      BY <1>12, <1>15
    <3> QED  BY <1>10, <1>15, <3>1
  <2>3. "tail" \notin Shapes => \A p \in 1 .. Len(out') : out'[p].op = "tail" => p + 1 = Len(out')
    <3> SUFFICES ASSUME "tail" \notin Shapes, NEW p \in 1 .. Len(out'), out'[p].op = "tail"
                 PROVE  p + 1 = Len(out')
      OBVIOUS
    <3>1. p # Len(out')
      BY <1>7, <1>15
    <3>2. p \in 1 .. Len(code)
      BY <1>12, <1>15, <3>1
    <3>3. p = Len(code)
      BY <1>11, <1>15, <3>2
    <3> QED  BY <1>12, <3>3
  <2> QED  BY <1>7, <1>15, <2>1, <2>2, <2>3 DEF Whole
<1>17. At(run', out', ctx, defers)
  <2>1. ctx[1] = Start
    BY <1>14 DEF Code, Placed
  <2>2. Runs(run, Start, out'[1], defers) /\ run.pc = 1
    BY FreshRuns
  <2>3. 1 \in 1 .. Len(out')
    BY <1>15
  <2> QED  BY <1>1, <2>1, <2>2, <2>3 DEF At
<1> QED  BY <1>1, <1>12, <1>14, <1>16, <1>17 DEF Running

-----------------------------------------------------------------------------
(* The steps of the run. *)

(* The run by its fields. *)
LEMMA MachineParts ==
    ASSUME NEW r \in Machine
    PROVE  /\ r.pc \in Nat \ {0} /\ r.x \in Bit /\ r.lets \in [0 .. MaxStmts -> Arg] /\ r.saved \in Bit
           /\ r.result \in Bit \cup {Void} /\ r.rounds \in 0 .. MaxRounds /\ r.live \in Seq(Life)
           /\ r.due \in Seq(Owed) /\ r.ran \in Seq(Owed) /\ r.want \in Bit
BY DEF Machine, Life

\* The present place and instruction.
LEMMA Now ==
    ASSUME out \in Seq(Instr), NEW ctx \in Seq(Place), Code(out, ctx, defers), Whole(out, ctx),
           At(run, out, ctx, defers)
    PROVE  LET c == ctx[run.pc]
           IN  /\ run.pc \in 1 .. Len(out) /\ run.pc \in Nat /\ Len(out) \in Nat
               /\ c \in Place /\ c.open \in Seq(Frame) /\ c.open # <<>> /\ c.made \in Nat
               /\ Len(c.open) \in Nat /\ Len(c.open) >= 1 /\ ~c.dead
               /\ Current \in Instr /\ Fits(Current, c, defers) /\ Runs(run, c, Current, defers)
               /\ Encloses(out, ctx, c.open, run.pc)
               /\ Current.op # "end" =>
                     run.pc + 1 \in 1 .. Len(out) /\ ctx[run.pc + 1] = After(run.pc, Current, c)
<1> DEFINE p == run.pc
<1>1. p \in 1 .. Len(out) /\ Runs(run, ctx[p], out[p], defers) /\ Len(out) \in Nat
  BY DEF At
<1>2. p \in 1 .. Len(out) + 1
  BY <1>1
<1>3. /\ ctx[p] \in Place /\ ctx[p].open \in Seq(Frame) /\ ctx[p].open # <<>> /\ ctx[p].made \in Nat
      /\ Encloses(out, ctx, ctx[p].open, p)
  BY <1>2, PlaceOf
<1>4. Len(ctx[p].open) \in Nat /\ Len(ctx[p].open) >= 1
  BY <1>3, Fronts
<1>5. Fits(out[p], ctx[p], defers) /\ ctx[p + 1] = After(p, out[p], ctx[p])
  BY <1>1 DEF Code, Placed
<1>6. out[p] \in Instr
  BY <1>1, ElementOfSeq
<1>7. out[p].op # "end" => p + 1 \in 1 .. Len(out)
  BY <1>1 DEF Whole
<1>8. ~ctx[p].dead
  BY <1>1 DEF Runs
<1> HIDE DEF p
<1> QED  BY <1>1, <1>3, <1>4, <1>5, <1>6, <1>7, <1>8 DEF p, Current

\* The run goes on at t.
LEMMA MovesOn ==
    ASSUME NEW ctx \in Seq(Place), Code(out, ctx, defers), Whole(out, ctx), NEW t \in 1 .. Len(out),
           NEW r, r.pc = t, Runs(r, ctx[t], out[t], defers)
    PROVE  Running(r, out, defers)
BY DEF Running, At

\* What the bodies from n on are owed.
LEMMA LivesOwe ==
    ASSUME NEW live \in Seq(Life), NEW open \in Seq(Frame), NEW lets, Lives(live, open, lets),
           NEW n \in 1 .. Len(open) + 1
    PROVE  /\ Owing(live, n) \in Seq(Seq(Owed)) /\ Due(live, n) \in Seq(Owed)
           /\ Owing(live, n) = From(Owing(live, 1), n)
           /\ Len(Owing(live, 1)) = Len(open)
           /\ Len(Due(live, n)) = Len(Flat(open, n)) /\ Len(Due(live, n)) \in Nat
           /\ Pairwise(Due(live, n), Flat(open, n), Kept(lets))
<1> DEFINE T == Seq(Owed)
           m == Len(open) - n + 1
<1>1. Len(live) = Len(open) /\ Len(open) \in Nat /\ m \in Nat
  BY DEF Lives
<1>2. \A k \in 1 .. Len(open) : live[k].owed \in T
  <2> SUFFICES ASSUME NEW k \in 1 .. Len(open) PROVE live[k].owed \in T
    OBVIOUS
  <2>1. live[k] \in Life
    BY <1>1, ElementOfSeq
  <2> QED  BY <2>1 DEF Life
<1> HIDE DEF T
<1>3. ASSUME NEW q \in 1 .. Len(open) + 1
      PROVE  /\ Owing(live, q) \in Seq(T) /\ Len(Owing(live, q)) = Len(open) - q + 1
             /\ \A j \in 1 .. Len(open) - q + 1 : Owing(live, q)[j] = live[q + j - 1].owed
  <2> DEFINE h == Len(open) - q + 1
             f == [j \in 1 .. h |-> live[q + j - 1].owed]
  <2>1. h \in Nat /\ \A j \in 1 .. h : q + j - 1 \in 1 .. Len(open)
    BY <1>1
  <2>2. \A j \in 1 .. h : live[q + j - 1].owed \in T
    BY <1>2, <2>1
  <2>3. f \in [1 .. h -> T]
    BY <2>2
  <2>4. Owing(live, q) = f
    BY <1>1 DEF Owing
  <2>5. h \in Nat
    BY <2>1
  <2>6. \A j \in 1 .. h : f[j] = live[q + j - 1].owed
    OBVIOUS
  <2> HIDE DEF f, h
  <2>7. f \in Seq(T) /\ Len(f) = h
    BY <2>3, <2>5
  <2> QED  BY <2>4, <2>6, <2>7 DEF h
<1>4. 1 \in 1 .. Len(open) + 1
  BY <1>1
<1>5. Owing(live, n) = From(Owing(live, 1), n)
  <2> DEFINE a == Owing(live, n)
             b == Owing(live, 1)
  <2>1. a \in Seq(T) /\ Len(a) = m /\ \A j \in 1 .. m : a[j] = live[n + j - 1].owed
    BY <1>3
  <2>2. b \in Seq(T) /\ Len(b) = Len(open) /\ \A j \in 1 .. Len(open) : b[j] = live[j].owed
    BY <1>1, <1>3, <1>4
  <2> HIDE DEF a, b
  <2>3. From(b, n) \in Seq(T) /\ Len(From(b, n)) = m
    BY <1>1, <2>2 DEF From
  <2>4. \A j \in 1 .. m : n + j - 1 \in 1 .. Len(open)
    BY <1>1
  <2>5. \A j \in 1 .. m : From(b, n)[j] = b[n + j - 1]
    BY <1>1, <2>2 DEF From
  <2>6. \A j \in 1 .. m : From(b, n)[j] = a[j]
    BY <2>1, <2>2, <2>4, <2>5
  <2>7. From(b, n) = a
    BY <2>1, <2>3, <2>6, SeqEqual
  <2> QED  BY <2>7 DEF a, b
<1>6. Owing(live, n) \in Seq(Seq(Owed)) /\ Len(Owing(live, 1)) = Len(open) /\ Len(Owing(live, n)) = m
  BY <1>3, <1>4, <1>1 DEF T
<1>7. Due(live, n) \in Seq(Owed)
  BY <1>6, FlattenTyped DEF Due
<1>8. /\ Lists(open, n) \in Seq(Seq(Call)) /\ Len(Lists(open, n)) = m
      /\ \A j \in 1 .. m : Lists(open, n)[j] = open[n + j - 1].calls
  BY ListsTyped
<1>9. \A j \in 1 .. m : Pairwise(Owing(live, n)[j], Lists(open, n)[j], Kept(lets))
  <2> SUFFICES ASSUME NEW j \in 1 .. m PROVE Pairwise(Owing(live, n)[j], Lists(open, n)[j], Kept(lets))
    OBVIOUS
  <2>1. n + j - 1 \in 1 .. Len(open)
    BY <1>1
  <2>2. Pairwise(live[n + j - 1].owed, open[n + j - 1].calls, Kept(lets))
    BY <2>1 DEF Lives
  <2> QED  BY <1>3, <1>8, <2>2
<1> HIDE DEF m
<1>10. Pairwise(Due(live, n), Flat(open, n), Kept(lets))
  BY <1>6, <1>8, <1>9, FlatPairwise DEF Due, Flat
<1>11. Len(Due(live, n)) = Len(Flat(open, n)) /\ Len(Due(live, n)) \in Nat
  BY <1>7, <1>10 DEF Pairwise
<1> QED  BY <1>5, <1>6, <1>7, <1>10, <1>11

\* Between exits as many calls have been made as were due.
LEMMA NothingMade ==
    ASSUME NEW due \in Seq(Owed), NEW s \in Seq(Owed)
    PROVE  due \o SubSeq(Reverse(s), 1, 0) = due
<1>1. Reverse(s) \in Seq(Owed)
  BY Reversed
<1>2. SubSeq(Reverse(s), 1, 0) = <<>>
  BY <1>1
<1> QED  BY <1>2

LEMMA RanDue ==
    ASSUME NEW r \in Machine, NEW c \in Place, NEW i, NEW ds, Runs(r, c, i, ds), c.made = 0
    PROVE  (Faithful => r.ran = r.due) /\ r.x = r.want
<1>1. r.live \in Seq(Life) /\ r.due \in Seq(Owed) /\ c.open \in Seq(Frame)
  BY MachineParts, PlaceParts
<1>2. Lives(r.live, c.open, r.lets)
  BY DEF Runs
<1>3. 1 \in 1 .. Len(c.open) + 1
  BY <1>1
<1>4. Due(r.live, 1) \in Seq(Owed)
  BY <1>1, <1>2, <1>3, LivesOwe
<1>5. r.due \o SubSeq(Reverse(Due(r.live, 1)), 1, 0) = r.due
  BY <1>1, <1>4, NothingMade
<1> QED  BY <1>5 DEF Runs

\* A place that no call was made before.
LEMMA RunsQuiet ==
    ASSUME NEW r \in Machine, NEW c \in Place, NEW i, NEW ds, c.made = 0, ~c.dead,
           Lives(r.live, c.open, r.lets), Refs(r.lets, Flat(c.open, 1), ds),
           r.x = r.want, c.saved /\ i.op \notin AllKinds => r.saved = r.want,
           Faithful => r.ran = r.due
    PROVE  Runs(r, c, i, ds)
<1>1. r.live \in Seq(Life) /\ r.due \in Seq(Owed) /\ c.open \in Seq(Frame)
  BY MachineParts, PlaceParts
<1>2. 1 \in 1 .. Len(c.open) + 1
  BY <1>1
<1>3. Due(r.live, 1) \in Seq(Owed)
  BY <1>1, <1>2, LivesOwe
<1>4. r.due \o SubSeq(Reverse(Due(r.live, 1)), 1, 0) = r.due
  BY <1>1, <1>3, NothingMade
<1> QED  BY <1>4 DEF Runs

(* One lemma per action of the run: RunAssign, *)
LEMMA AssignRuns ==
    ASSUME run \in Machine, out \in Seq(Instr), Running(run, out, defers), RunAssign
    PROVE  run' \in Machine /\ Running(run', out, defers)
<1>1. /\ Current.op = "assign"
      /\ run' = [run EXCEPT !.pc = @ + 1, !.x = 1 - @, !.want = 1 - run.x]
  BY DEF RunAssign, Step, Becomes
<1>2. PICK ctx \in Seq(Place) : Code(out, ctx, defers) /\ Whole(out, ctx) /\ At(run, out, ctx, defers)
  BY DEF Running
<1> DEFINE c == ctx[run.pc]
           d == ctx[run.pc + 1]
           i == Current
<1>3. /\ run.pc \in Nat /\ c \in Place /\ c.open # <<>> /\ i \in Instr /\ Fits(i, c, defers)
      /\ Runs(run, c, i, defers) /\ run.pc + 1 \in 1 .. Len(out) /\ d = After(run.pc, i, c)
  BY <1>1, <1>2, Now
<1>4. i.op \notin AllKinds
  BY <1>1, OpKinds
<1>5. c.made = 0
  BY <1>1, <1>3 DEF Fits, FitsState, Jumps
<1>6. /\ d \in Place /\ d.open = c.open /\ d.made = 0 /\ ~d.saved /\ ~d.dead
  <2>1. LET e == After(run.pc, i, c)
        IN  /\ e \in Place /\ e.open = c.open /\ e.made = 0
            /\ e.saved <=> i.op \in {"save", "tail"}
            /\ e.dead <=> i.op \in Jumps \cup Exits \cup {"end"}
    BY <1>1, <1>3, <1>4, AfterPlain
  <2>2. i.op \notin Jumps \cup Exits \cup {"end"} /\ i.op \notin {"save", "tail"}
    BY <1>1 DEF Jumps, Exits
  <2> HIDE DEF c, d, i
  <2> QED  BY <1>3, <2>1, <2>2
<1>7. /\ run' \in Machine /\ run'.pc = run.pc + 1 /\ run'.live = run.live /\ run'.lets = run.lets
      /\ run'.x = run'.want /\ run'.ran = run.ran /\ run'.due = run.due
  <2>1. run.pc + 1 \in Nat \ {0} /\ 1 - run.x \in Bit
    BY <1>3, MachineParts DEF Bit
  <2> QED  BY <1>1, <2>1 DEF Machine
<1> HIDE DEF c, d, i
<1>8. Runs(run', d, out[run.pc + 1], defers)
  <2>1. Faithful => run.ran = run.due
    BY <1>3, <1>5, RanDue
  <2>2. Lives(run'.live, d.open, run'.lets) /\ Refs(run'.lets, Flat(d.open, 1), defers)
    BY <1>3, <1>6, <1>7 DEF Runs
  <2> QED  BY <1>6, <1>7, <2>1, <2>2, RunsQuiet
<1> QED  BY <1>2, <1>3, <1>7, <1>8, MovesOn DEF d

(* RunValue, *)
LEMMA ValueRuns ==
    ASSUME run \in Machine, out \in Seq(Instr), Running(run, out, defers), RunValue
    PROVE  run' \in Machine /\ Running(run', out, defers)
<1>1. /\ Current.op \in {"save", "tail"}
      /\ run' = [run EXCEPT !.pc = @ + 1, !.saved = run.x]
  BY DEF RunValue, Step, Becomes
<1>2. PICK ctx \in Seq(Place) : Code(out, ctx, defers) /\ Whole(out, ctx) /\ At(run, out, ctx, defers)
  BY DEF Running
<1> DEFINE c == ctx[run.pc]
           d == ctx[run.pc + 1]
           i == Current
<1>3. /\ run.pc \in Nat /\ c \in Place /\ c.open # <<>> /\ i \in Instr /\ Fits(i, c, defers)
      /\ Runs(run, c, i, defers) /\ run.pc + 1 \in 1 .. Len(out) /\ d = After(run.pc, i, c)
  BY <1>1, <1>2, Now
<1>4. i.op \notin AllKinds
  BY <1>1, OpKinds
<1>5. c.made = 0
  BY <1>1, <1>3 DEF Fits, FitsState, Jumps
<1>6. /\ d \in Place /\ d.open = c.open /\ d.made = 0 /\ ~d.dead
  <2>1. LET e == After(run.pc, i, c)
        IN  /\ e \in Place /\ e.open = c.open /\ e.made = 0
            /\ e.saved <=> i.op \in {"save", "tail"}
            /\ e.dead <=> i.op \in Jumps \cup Exits \cup {"end"}
    BY <1>1, <1>3, <1>4, AfterPlain
  <2>2. i.op \notin Jumps \cup Exits \cup {"end"}
    BY <1>1 DEF Jumps, Exits
  <2> HIDE DEF c, d, i
  <2> QED  BY <1>3, <2>1, <2>2
<1>7. /\ run' \in Machine /\ run'.pc = run.pc + 1 /\ run'.live = run.live /\ run'.lets = run.lets
      /\ run'.x = run.x /\ run'.want = run.want /\ run'.saved = run.x
      /\ run'.ran = run.ran /\ run'.due = run.due
  <2>1. run.pc + 1 \in Nat \ {0} /\ run.x \in Bit
    BY <1>3, MachineParts
  <2> QED  BY <1>1, <2>1 DEF Machine
<1> HIDE DEF c, d, i
<1>8. Runs(run', d, out[run.pc + 1], defers)
  <2>1. (Faithful => run.ran = run.due) /\ run.x = run.want
    BY <1>3, <1>5, RanDue
  <2>2. Lives(run'.live, d.open, run'.lets) /\ Refs(run'.lets, Flat(d.open, 1), defers)
    BY <1>3, <1>6, <1>7 DEF Runs
  <2> QED  BY <1>6, <1>7, <2>1, <2>2, RunsQuiet
<1> QED  BY <1>2, <1>3, <1>7, <1>8, MovesOn DEF d

\* The call a comes after m others.
Follows(D, F, lets, m, a) ==
    /\ Reverse(D)[m + 1] = [defer |-> a.defer, arg |-> lets[a.name]]
    /\ lets[a.name] \in Arg /\ a.defer \in Nat
    /\ \E j \in 1 .. Len(F) : a = F[j]
    /\ SubSeq(Reverse(D), 1, m + 1) = Append(SubSeq(Reverse(D), 1, m), Reverse(D)[m + 1])
    /\ SubSeq(Reverse(D), 1, m) \in Seq(Owed)

LEMMA NextCall ==
    ASSUME NEW D \in Seq(Owed), NEW F \in Seq(Call), NEW lets, Pairwise(D, F, Kept(lets)),
           NEW m \in Nat, m + 1 \in 1 .. Len(F), NEW a, a = Reverse(F)[m + 1]
    PROVE  Follows(D, F, lets, m, a)
<1> DEFINE j == Len(F) - (m + 1) + 1
           R == Reverse(D)
<1>1. Len(D) = Len(F) /\ Len(F) \in Nat /\ j \in 1 .. Len(F)
  BY DEF Pairwise
<1>2. Reverse(F)[m + 1] = F[j] /\ Reverse(D)[m + 1] = D[j] /\ R \in Seq(Owed) /\ Len(R) = Len(F)
  BY <1>1, Reversed
<1> HIDE DEF j
<1>3. <<D[j], F[j]>> \in Kept(lets)
  BY <1>1 DEF Pairwise
<1>4. D[j].defer = F[j].defer /\ D[j].arg = lets[F[j].name]
  BY <1>3 DEF Kept
<1>5. D[j] \in Owed
  BY <1>1, ElementOfSeq
<1>6. D[j] = [defer |-> D[j].defer, arg |-> D[j].arg] /\ D[j].arg \in Arg /\ D[j].defer \in Nat
  BY <1>5 DEF Owed
<1> HIDE DEF R
<1>7. SubSeq(R, 1, m + 1) = Append(SubSeq(R, 1, m), R[m + 1]) /\ SubSeq(R, 1, m) \in Seq(Owed)
  BY <1>1, <1>2
<1> QED  BY <1>1, <1>2, <1>4, <1>6, <1>7 DEF R, Follows

(* RunCall, *)
LEMMA CallRuns ==
    ASSUME run \in Machine, out \in Seq(Instr), Running(run, out, defers), RunCall
    PROVE  run' \in Machine /\ Running(run', out, defers)
<1> DEFINE arg == run.lets[Current.name]
<1>1. /\ Current.op = "call"
      /\ run' = [run EXCEPT !.pc = @ + 1,
                   !.ran = Append(@, [defer |-> Current.defer, arg |-> arg]),
                   !.x = IF arg = Ref THEN 1 - @ ELSE @]
  BY DEF RunCall, Step, Becomes
<1>2. PICK ctx \in Seq(Place) : Code(out, ctx, defers) /\ Whole(out, ctx) /\ At(run, out, ctx, defers)
  BY DEF Running
<1> DEFINE c == ctx[run.pc]
           d == ctx[run.pc + 1]
           i == Current
           F == Flat(c.open, 1)
           D == Due(run.live, 1)
<1>3. /\ run.pc \in Nat /\ c \in Place /\ c.open # <<>> /\ c.open \in Seq(Frame) /\ c.made \in Nat
      /\ i \in Instr /\ Fits(i, c, defers)
      /\ Runs(run, c, i, defers) /\ run.pc + 1 \in 1 .. Len(out) /\ d = After(run.pc, i, c)
  BY <1>1, <1>2, Now
<1>4. i.op \notin AllKinds
  BY <1>1, OpKinds
<1>5. c.made + 1 \in 1 .. Len(F) /\ Named(i) = Reverse(F)[c.made + 1]
  BY <1>1, <1>3 DEF Fits, FitsCall
<1>6. /\ d \in Place /\ d.open = c.open /\ d.made = c.made + 1 /\ (d.saved <=> c.saved) /\ ~d.dead
  <2>1. /\ After(run.pc, i, c) \in Place
        /\ After(run.pc, i, c).open = OpenAfter(run.pc, i, c.open)
        /\ After(run.pc, i, c).made = IF i.op = "call" THEN c.made + 1 ELSE 0
        /\ After(run.pc, i, c).saved <=> (i.op \in {"save", "tail"} \/ (i.op = "call" /\ c.saved))
        /\ After(run.pc, i, c).dead <=> (i.op \in Jumps \cup Exits \cup {"end"})
    BY <1>3, AfterTyped
  <2>2. OpenAfter(run.pc, i, c.open) = c.open
    BY <1>1, <1>3, <1>4, AfterOpen
  <2>3. i.op \notin Jumps \cup Exits \cup {"end"}
    BY <1>1 DEF Jumps, Exits
  <2>4. i.op = "call"
    BY <1>1
  <2> HIDE DEF c, d, i
  <2> QED  BY <1>3, <2>1, <2>2, <2>3, <2>4
<1>7. D \in Seq(Owed) /\ Pairwise(D, F, Kept(run.lets)) /\ F \in Seq(Call) /\ run.live \in Seq(Life)
  <2>1. 1 \in 1 .. Len(c.open) + 1 /\ run.live \in Seq(Life)
    BY <1>3, MachineParts
  <2>2. Lives(run.live, c.open, run.lets)
    BY <1>3 DEF Runs
  <2> QED  BY <1>3, <2>1, <2>2, LivesOwe, ListsTyped
<1> HIDE DEF c, d, F, D
<1>8. /\ Reverse(D)[c.made + 1] = [defer |-> i.defer, arg |-> arg] /\ arg \in Arg /\ i.defer \in Nat
      /\ \E j \in 1 .. Len(F) : Named(i) = F[j]
      /\ SubSeq(Reverse(D), 1, c.made + 1) = Append(SubSeq(Reverse(D), 1, c.made), Reverse(D)[c.made + 1])
      /\ SubSeq(Reverse(D), 1, c.made) \in Seq(Owed)
  <2> DEFINE a == Named(i)
             m == c.made
             l == run.lets
  <2>1. a.defer = i.defer /\ l[a.name] = arg
    BY DEF Named
  <2>2. D \in Seq(Owed) /\ F \in Seq(Call) /\ Pairwise(D, F, Kept(l))
    BY <1>7
  <2>3. m \in Nat /\ m + 1 \in 1 .. Len(F) /\ a = Reverse(F)[m + 1]
    BY <1>3, <1>5
  <2> HIDE DEF a, m, l, i, arg
  <2>4. Follows(D, F, l, m, a)
    BY <2>2, <2>3, NextCall
  <2> QED  BY <2>1, <2>4 DEF a, m, Follows
<1> HIDE DEF arg
<1> DEFINE o == [defer |-> i.defer, arg |-> arg]
<1>9. o \in Owed
  BY <1>8 DEF Owed
<1> HIDE DEF o
<1>10. /\ run' \in Machine /\ run'.pc = run.pc + 1 /\ run'.live = run.live /\ run'.lets = run.lets
       /\ run'.want = run.want /\ run'.saved = run.saved
       /\ run'.ran = Append(run.ran, o) /\ run'.due = run.due
       /\ arg # Ref => run'.x = run.x
  <2>1. run' = [run EXCEPT !.pc = @ + 1, !.ran = Append(@, o), !.x = IF arg = Ref THEN 1 - @ ELSE @]
    BY <1>1 DEF o
  <2>2. Append(run.ran, o) \in Seq(Owed)
    BY <1>9, MachineParts, AppendProperties
  <2>3. (IF arg = Ref THEN 1 - run.x ELSE run.x) \in Bit
    BY MachineParts DEF Bit
  <2>4. run.pc + 1 \in Nat \ {0}
    BY <1>3
  <2> QED  BY <2>1, <2>2, <2>3, <2>4 DEF Machine
<1>11. NoRef(F, defers) => arg # Ref
  <2> SUFFICES ASSUME NoRef(F, defers), arg = Ref PROVE FALSE
    OBVIOUS
  <2>1. PICK j \in 1 .. Len(F) : Named(i) = F[j]
    BY <1>8
  <2>2. run.lets[F[j].name] = Ref
    BY <2>1 DEF Named, arg
  <2>3. defers[F[j].defer]
    BY <1>3, <2>2 DEF Runs, Refs, F
  <2> QED  BY <2>3 DEF NoRef
<1>12. Runs(run', d, out[run.pc + 1], defers)
  <2>1. /\ Lives(run.live, c.open, run.lets) /\ Refs(run.lets, F, defers)
        /\ c.made = 0 \/ NoRef(F, defers) => run.x = run.want
        /\ c.saved => run.saved = run.want
        /\ Faithful => run.ran = run.due \o SubSeq(Reverse(D), 1, c.made)
    BY <1>3, <1>4 DEF Runs, D, F
  <2>2. d.made # 0
    BY <1>3, <1>6
  <2>3. NoRef(F, defers) => run'.x = run'.want
    BY <1>10, <1>11, <2>1
  <2>4. Faithful => run'.ran = run'.due \o SubSeq(Reverse(D), 1, d.made)
    <3> SUFFICES ASSUME Faithful PROVE run'.ran = run'.due \o SubSeq(Reverse(D), 1, d.made)
      OBVIOUS
    <3> DEFINE s == SubSeq(Reverse(D), 1, c.made)
    <3>1. run.ran = run.due \o s
      BY <2>1
    <3>2. SubSeq(Reverse(D), 1, d.made) = Append(s, o)
      BY <1>6, <1>8 DEF o
    <3>3. s \in Seq(Owed) /\ run.due \in Seq(Owed)
      BY <1>8, MachineParts
    <3> HIDE DEF s
    <3>4. ASSUME NEW t \in Seq(Owed), NEW u \in Seq(Owed), NEW v \in Owed
          PROVE  t \o Append(u, v) = Append(t \o u, v)
      BY ConcatAppend
    <3>5. run.due \o Append(s, o) = Append(run.due \o s, o)
      BY <1>9, <3>3, <3>4
    <3> QED  BY <1>10, <3>1, <3>2, <3>5
  <2> QED  BY <1>6, <1>10, <2>1, <2>2, <2>3, <2>4 DEF Runs, D, F
<1> QED  BY <1>2, <1>3, <1>10, <1>12, MovesOn DEF d

\* A call of one of the bodies is among those of all.
LEMMA InFlat ==
    ASSUME NEW open \in Seq(Frame), NEW k \in 1 .. Len(open), NEW j \in 1 .. Len(open[k].calls)
    PROVE  \E m \in 1 .. Len(Flat(open, 1)) : Flat(open, 1)[m] = open[k].calls[j]
<1> DEFINE T == Seq(Call)
           ll == Lists(open, 1)
           s == open[k].calls
           pre == SubSeq(ll, 1, k - 1)
           a == FlattenSeq(pre)
           b == FlattenSeq(From(ll, k + 1))
<1>1. ll \in Seq(Seq(Call)) /\ Len(ll) = Len(open) /\ ll[k] = s /\ s \in Seq(Call) /\ Len(open) \in Nat
  <2>1. 1 \in 1 .. Len(open) + 1
    OBVIOUS
  <2>2. /\ Lists(open, 1) \in Seq(Seq(Call)) /\ Len(Lists(open, 1)) = Len(open) - 1 + 1
        /\ \A i \in 1 .. Len(open) - 1 + 1 : Lists(open, 1)[i] = open[1 + i - 1].calls
    BY <2>1, ListsTyped
  <2> QED  BY <2>2, FrameCalls
<1> HIDE DEF ll, s
<1>2. k \in 1 .. Len(ll) + 1 /\ k + 1 \in 1 .. Len(ll) + 1
  BY <1>1
<1>3. pre \in Seq(Seq(Call)) /\ a \in Seq(Call)
  BY <1>1, <1>2, FlatParts
<1>4. /\ FlattenSeq(SubSeq(ll, 1, (k + 1) - 1)) \in Seq(Call) /\ b \in Seq(Call)
      /\ FlattenSeq(ll) = FlattenSeq(SubSeq(ll, 1, (k + 1) - 1)) \o b
  BY <1>1, <1>2, FlatParts
<1>5. SubSeq(ll, 1, (k + 1) - 1) = Append(pre, s)
  <2> HIDE DEF T
  <2>1. ll \in Seq(T)
    BY <1>1 DEF T
  <2>2. (k + 1) - 1 = k
    OBVIOUS
  <2>3. SubSeq(ll, 1, k) = Append(SubSeq(ll, 1, k - 1), ll[k])
    BY <1>1, <2>1
  <2> QED  BY <1>1, <2>2, <2>3
<1> HIDE DEF pre, a, b
<1>6. FlattenSeq(Append(pre, s)) = a \o s
  BY <1>1, <1>3, FlatSnoc DEF a
<1>7. Flat(open, 1) = (a \o s) \o b
  BY <1>4, <1>5, <1>6 DEF Flat, ll
<1>8. /\ Len(a) + j \in 1 .. Len((a \o s) \o b) /\ ((a \o s) \o b)[Len(a) + j] = s[j]
  <2>1. j \in 1 .. Len(s)
    BY DEF s
  <2> QED  BY <1>1, <1>3, <1>4, <2>1
<1> QED  BY <1>7, <1>8 DEF s

\* The bodies of a place were opened one after the other.
LEMMA Ascending ==
    ASSUME out \in Seq(Instr), NEW ctx \in Seq(Place), Code(out, ctx, defers), NEW p \in 1 .. Len(out),
           NEW m \in 1 .. Len(ctx[p].open), NEW k \in 1 .. m - 1
    PROVE  ctx[p].open[k].at < ctx[p].open[m].at
<1> DEFINE o == ctx[p].open
           b == o[m].at
           q == ctx[b].open
<1>1. p \in 1 .. Len(out) + 1
  OBVIOUS
<1>2. o \in Seq(Frame) /\ o[1].at = 0 /\ Encloses(out, ctx, o, p)
  BY <1>1, PlaceOf
<1>3. m \in 2 .. Len(o)
  BY <1>2
<1>4. b \in 1 .. p - 1 /\ q = SubSeq(o, 1, m - 1)
  BY <1>2, <1>3 DEF Encloses
<1> HIDE DEF b
<1>5. b \in 1 .. Len(out) + 1 /\ b \in Nat /\ b >= 1
  BY <1>4
<1>6. Encloses(out, ctx, q, b)
  BY <1>5, PlaceOf
<1> HIDE DEF o, q
<1>7. Len(q) = m - 1 /\ q[k] = o[k]
  BY <1>2, <1>3, <1>4
<1>8. CASE k = 1
  BY <1>2, <1>5, <1>8 DEF b, o
<1>9. CASE k # 1
  <2>1. k \in 2 .. Len(q)
    BY <1>7, <1>9
  <2>2. q[k].at \in 1 .. b - 1
    BY <1>6, <2>1 DEF Encloses
  <2>3. \A x \in 1 .. b - 1 : x < b
    BY <1>5
  <2>4. o[k].at < b
    BY <1>7, <2>2, <2>3
  <2> QED  BY <2>4 DEF b, o
<1> QED  BY <1>8, <1>9

\* The place of an instruction that opens a body.
LEMMA OpenerPlace ==
    ASSUME out \in Seq(Instr), NEW ctx \in Seq(Place), Code(out, ctx, defers),
           NEW a \in 1 .. Len(out), out[a].op \in AllKinds
    PROVE  /\ ctx[a] \in Place /\ ctx[a].made = 0 /\ ~ctx[a].dead
           /\ ctx[a].open \in Seq(Frame) /\ ctx[a].open # <<>>
<1>1. a \in 1 .. Len(out) + 1
  OBVIOUS
<1>2. Fits(out[a], ctx[a], defers)
  BY DEF Code, Placed
<1>3. out[a].op \notin {"let", "call", "assign", "save", "tail", "close", "end"} \cup Jumps \cup Exits
  BY OpKinds
<1>4. ctx[a].made = 0 /\ ~ctx[a].dead
  BY <1>2, <1>3 DEF Fits, FitsState, Exits
<1> QED  BY <1>1, <1>4, PlaceOf

\* Every body the run is in is closed behind it.
Behinds(ctx, a) ==
    /\ CloseOf(a) \in 1 .. Len(out) /\ CloseOf(a) + 1 \in 1 .. Len(out)
    /\ ctx[CloseOf(a) + 1] \in Place
    /\ ctx[CloseOf(a) + 1].open = ctx[a].open
    /\ ctx[CloseOf(a) + 1].made = 0 /\ ~ctx[CloseOf(a) + 1].dead /\ ~ctx[CloseOf(a) + 1].saved

(* Where a close leads. *)
LEMMA ClosePlace ==
    ASSUME out \in Seq(Instr), NEW ctx \in Seq(Place), Code(out, ctx, defers), Whole(out, ctx),
           NEW q \in 1 .. Len(out), out[q].op = "close"
    PROVE  /\ q + 1 \in 1 .. Len(out) /\ ctx[q + 1] \in Place
           /\ ctx[q + 1].made = 0 /\ ~ctx[q + 1].dead /\ ~ctx[q + 1].saved
           /\ Len(ctx[q].open) >= 2 /\ Len(ctx[q].open) \in Nat
           /\ out[q].at = ctx[q].open[Len(ctx[q].open)].at
           /\ out[q].at \in 1 .. q - 1 /\ out[out[q].at].op \in Kinds
           /\ ctx[q + 1].open = Front(ctx[q].open) /\ ctx[out[q].at].open = Front(ctx[q].open)
           /\ Front(ctx[q].open) = SubSeq(ctx[q].open, 1, Len(ctx[q].open) - 1)
<1> DEFINE c == ctx[q]
           i == out[q]
           o == c.open
           d == ctx[q + 1]
<1>1. q \in 1 .. Len(out) + 1 /\ q \in Nat /\ Len(out) \in Nat
  OBVIOUS
<1>2. c \in Place /\ o \in Seq(Frame) /\ o # <<>> /\ Encloses(out, ctx, o, q)
  BY <1>1, PlaceOf
<1>3. i \in Instr /\ Fits(i, c, defers) /\ d = After(q, i, c)
  BY ElementOfSeq DEF Code, Placed
<1>4. Len(o) >= 2 /\ i.at = LastOf(o).at
  BY <1>3 DEF Fits, FitsClose
<1>5. q + 1 \in 1 .. Len(out)
  <2>1. q # Len(out)
    BY DEF Whole
  <2> QED  BY <1>1, <2>1
<1>6. Len(o) \in 2 .. Len(o) /\ Len(o) \in Nat
  BY <1>2, <1>4
<1>7. /\ o[Len(o)].at \in 1 .. q - 1 /\ out[o[Len(o)].at].op \in Kinds
      /\ ctx[o[Len(o)].at].open = SubSeq(o, 1, Len(o) - 1)
  BY <1>2, <1>6 DEF Encloses
<1>8. Front(o) = SubSeq(o, 1, Len(o) - 1)
  BY DEF Front
<1>9. /\ After(q, i, c) \in Place
      /\ After(q, i, c).open = OpenAfter(q, i, o)
      /\ After(q, i, c).made = IF i.op = "call" THEN c.made + 1 ELSE 0
      /\ After(q, i, c).saved <=> (i.op \in {"save", "tail"} \/ (i.op = "call" /\ c.saved))
      /\ After(q, i, c).dead <=> (i.op \in Jumps \cup Exits \cup {"end"})
  BY <1>1, <1>2, <1>3, AfterTyped
<1>10. OpenAfter(q, i, o) = Front(o)
  BY <1>1, <1>2, <1>3, AfterOpen
<1>11. i.op = "close" /\ i.op \notin Jumps \cup Exits \cup {"end"}
  BY DEF Jumps, Exits
<1>12. i.at = o[Len(o)].at
  BY <1>4 DEF LastOf
<1> HIDE DEF c, d, i, o
<1>13. d.open = Front(o) /\ d \in Place /\ d.made = 0 /\ ~d.dead /\ ~d.saved
  BY <1>3, <1>9, <1>10, <1>11
<1> QED  BY <1>4, <1>5, <1>6, <1>7, <1>8, <1>12, <1>13 DEF d, o, i, c

LEMMA CloserPlace ==
    ASSUME out \in Seq(Instr), NEW ctx \in Seq(Place), Code(out, ctx, defers), Whole(out, ctx),
           NEW a \in 1 .. Len(out), out[a].op \in AllKinds
    PROVE  Behinds(ctx, a)
<1>1. Len(out) \in Nat /\ Len(out) + 1 \in 1 .. Len(out) + 1
  OBVIOUS
<1>2. ~InBody(ctx[Len(out) + 1].open, a)
  <2> DEFINE o == ctx[Len(out) + 1].open
  <2>1. o[1].at = 0
    BY <1>1, PlaceOf
  <2>2. Len(o) = 1
    BY DEF Whole
  <2> HIDE DEF o
  <2>3. ASSUME NEW k \in 1 .. Len(o) PROVE o[k].at # a
    BY <2>1, <2>2
  <2>4. ~InBody(o, a)
    BY <2>3 DEF InBody
  <2> QED  BY <2>4 DEF o
<1>3. \E q \in 1 .. Len(out) : out[q].op = "close" /\ out[q].at = a
  BY <1>2 DEF Code, Closed
<1>4. DOMAIN out = 1 .. Len(out)
  OBVIOUS
<1> DEFINE q == CloseOf(a)
<1>5. q \in 1 .. Len(out) /\ out[q].op = "close" /\ out[q].at = a
  BY <1>3, <1>4 DEF CloseOf
<1> HIDE DEF q
<1>6. /\ q + 1 \in 1 .. Len(out) /\ ctx[q + 1] \in Place
      /\ ctx[q + 1].made = 0 /\ ~ctx[q + 1].dead /\ ~ctx[q + 1].saved
      /\ ctx[q + 1].open = Front(ctx[q].open) /\ ctx[a].open = Front(ctx[q].open)
  BY <1>5, ClosePlace
<1> QED  BY <1>5, <1>6 DEF Behinds, q

\* What one more call leaves of the machine: its body owes it, its argument is kept, the
\* older arguments are as they were.
Registers(live, open, lets, call, arg) ==
    LET o  == [defer |-> call.defer, arg |-> arg]
        l  == [lets EXCEPT ![call.name] = arg]
        lv == [live EXCEPT ![Len(live)].owed = Append(@, o)]
    IN  /\ lv \in Seq(Life) /\ l \in [0 .. MaxStmts -> Arg]
        /\ Lives(lv, WithCall(open, call), l)
        /\ l[call.name] = arg
        /\ \A m \in 0 .. MaxStmts : m < call.name => l[m] = lets[m]

\* One more call registered in the innermost body.
LEMMA LivesWithCall ==
    ASSUME NEW live \in Seq(Life), NEW open \in Seq(Frame), open # <<>>, NEW lets \in [0 .. MaxStmts -> Arg],
           Lives(live, open, lets), NEW call \in Call, call.name \in 0 .. MaxStmts, NEW arg \in Arg,
           \A j \in 1 .. Len(Flat(open, 1)) : Flat(open, 1)[j].name < call.name
    PROVE  Registers(live, open, lets, call, arg)
<1> DEFINE o  == [defer |-> call.defer, arg |-> arg]
           l  == [lets EXCEPT ![call.name] = arg]
           n  == Len(live)
           e  == [live[n] EXCEPT !.owed = Append(@, o)]
           lv == [live EXCEPT ![n] = e]
           w  == WithCall(open, call)
<1>1. n = Len(open) /\ n \in Nat /\ n >= 1 /\ n \in 1 .. n
  BY Fronts DEF Lives
<1>2. l \in [0 .. MaxStmts -> Arg] /\ l[call.name] = arg /\ \A m \in 0 .. MaxStmts : m # call.name => l[m] = lets[m]
  OBVIOUS
<1>3. o \in Owed /\ o.defer = call.defer /\ o.arg = arg
  BY DEF Owed, Call
<1>4. live[n] \in Life /\ live[n].owed \in Seq(Owed)
  <2>1. live[n] \in Life
    BY <1>1, ElementOfSeq
  <2> QED  BY <2>1 DEF Life
<1> HIDE DEF o, l, n
<1>5. Append(live[n].owed, o) \in Seq(Owed)
  BY <1>3, <1>4, AppendProperties
<1>6. e \in Life /\ e.owed = Append(live[n].owed, o) /\ e.at = live[n].at
  BY <1>4, <1>5 DEF Life
<1> HIDE DEF e
<1>7. lv \in Seq(Life) /\ Len(lv) = n /\ lv[n] = e /\ \A k \in 1 .. n : k # n => lv[k] = live[k]
  BY <1>1, <1>6 DEF n
<1> HIDE DEF lv
<1>8. /\ Len(w) = Len(open)
      /\ \A k \in 1 .. Len(open) - 1 : w[k] = open[k]
      /\ \A k \in 1 .. Len(open) : w[k].at = open[k].at
      /\ w[Len(open)].calls = Append(LastOf(open).calls, call)
  BY WithCallFacts
<1>9. \A k \in 1 .. n : live[k].at = open[k].at /\ Pairwise(live[k].owed, open[k].calls, Kept(lets))
  BY <1>1 DEF Lives
\* The older calls keep their arguments.
<1>10. ASSUME NEW k \in 1 .. n PROVE Pairwise(live[k].owed, open[k].calls, Kept(l))
  <2>1. /\ Len(live[k].owed) = Len(open[k].calls)
        /\ \A j \in 1 .. Len(live[k].owed) : <<live[k].owed[j], open[k].calls[j]>> \in Kept(lets)
    BY <1>9 DEF Pairwise
  <2>2. ASSUME NEW j \in 1 .. Len(live[k].owed) PROVE <<live[k].owed[j], open[k].calls[j]>> \in Kept(l)
    <3> DEFINE u == open[k].calls[j]
               v == live[k].owed[j]
    <3>1. <<v, u>> \in Kept(lets)
      BY <2>1
    <3>2. k \in 1 .. Len(open) /\ j \in 1 .. Len(open[k].calls)
      BY <1>1, <2>1
    <3>3. PICK m \in 1 .. Len(Flat(open, 1)) : Flat(open, 1)[m] = u
      BY <3>2, InFlat
    <3>4. u.name < call.name
      BY <3>3
    <3> HIDE DEF u, v
    <3>5. u \in Call /\ v \in Owed /\ v.defer = u.defer /\ v.arg = lets[u.name]
      BY <3>1 DEF Kept
    <3>6. u.name \in 0 .. MaxStmts /\ u.name # call.name
      <4>1. u.name \in Nat
        BY <3>5 DEF Call
      <4> QED  BY <3>4, <4>1, DeferAssumption
    <3>7. l[u.name] = lets[u.name]
      BY <1>2, <3>6
    <3> QED  BY <3>5, <3>7 DEF Kept, u, v
  <2> QED  BY <2>1, <2>2 DEF Pairwise
<1>11. Pairwise(Append(live[n].owed, o), Append(open[n].calls, call), Kept(l))
  <2> DEFINE s == live[n].owed
             t == open[n].calls
  <2>1. <<o, call>> \in Kept(l)
    BY <1>2, <1>3 DEF Kept
  <2>2. s \in Seq(Owed) /\ t \in Seq(Call)
    BY <1>1, <1>4, FrameCalls
  <2>3. Pairwise(s, t, Kept(l))
    BY <1>1, <1>10
  <2> HIDE DEF s, t
  <2>4. \A j \in 1 .. Len(s) + 1 : <<Append(s, o)[j], Append(t, call)[j]>> \in Kept(l)
    <3> SUFFICES ASSUME NEW j \in 1 .. Len(s) + 1 PROVE <<Append(s, o)[j], Append(t, call)[j]>> \in Kept(l)
      OBVIOUS
    <3>0. Len(s) = Len(t) /\ Len(s) \in Nat
      BY <2>2, <2>3 DEF Pairwise
    <3>1. CASE j = Len(s) + 1
      <4>1. Append(s, o)[j] = o /\ Append(t, call)[j] = call
        BY <2>2, <3>0, <3>1
      <4> QED  BY <2>1, <4>1
    <3>2. CASE j # Len(s) + 1
      <4>1. j \in 1 .. Len(s)
        BY <3>0, <3>2
      <4>2. Append(s, o)[j] = s[j] /\ Append(t, call)[j] = t[j]
        BY <2>2, <3>0, <4>1
      <4>3. <<s[j], t[j]>> \in Kept(l)
        BY <2>3, <4>1 DEF Pairwise
      <4> QED  BY <4>2, <4>3
    <3> QED  BY <3>1, <3>2
  <2>5. Len(Append(s, o)) = Len(s) + 1 /\ Len(Append(t, call)) = Len(s) + 1
    BY <2>2, <2>3 DEF Pairwise
  <2>6. Pairwise(Append(s, o), Append(t, call), Kept(l))
    BY <2>4, <2>5 DEF Pairwise
  <2> QED  BY <2>6 DEF s, t
<1> HIDE DEF w
<1>12. Lives(lv, w, l)
  <2>1. ASSUME NEW k \in 1 .. Len(w) PROVE lv[k].at = w[k].at /\ Pairwise(lv[k].owed, w[k].calls, Kept(l))
    <3>0. k \in 1 .. n
      BY <1>1, <1>8
    <3>1. CASE k = n
      <4>1. w[n].calls = Append(open[n].calls, call)
        BY <1>1, <1>8 DEF LastOf
      <4> QED  BY <1>1, <1>6, <1>7, <1>8, <1>9, <1>11, <3>0, <3>1, <4>1
    <3>2. CASE k # n
      <4>1. k \in 1 .. Len(open) - 1
        BY <1>1, <3>0, <3>2
      <4>2. w[k] = open[k] /\ lv[k] = live[k]
        BY <1>7, <1>8, <3>0, <3>2, <4>1
      <4> QED  BY <1>9, <1>10, <3>0, <4>2
    <3> QED  BY <3>1, <3>2
  <2>2. Len(lv) = Len(w)
    BY <1>1, <1>7, <1>8
  <2> QED  BY <2>1, <2>2 DEF Lives
<1>13. \A m \in 0 .. MaxStmts : m < call.name => l[m] = lets[m]
  <2>1. \A m \in 0 .. MaxStmts : m < call.name => m # call.name
    BY DeferAssumption
  <2> QED  BY <1>2, <2>1
<1>14. [live EXCEPT ![n].owed = Append(@, o)] = lv
  BY DEF lv, e
<1> QED  BY <1>2, <1>7, <1>12, <1>13, <1>14 DEF l, n, o, w, Registers

(* RunLet, *)
LEMMA LetRuns ==
    ASSUME run \in Machine, out \in Seq(Instr), defers \in Seq(BOOLEAN), Running(run, out, defers), RunLet
    PROVE  run' \in Machine /\ Running(run', out, defers)
<1> DEFINE arg == IF defers[Current.defer] THEN Ref ELSE run.x
           call == Named(Current)
           o    == [defer |-> call.defer, arg |-> arg]
           l    == [run.lets EXCEPT ![call.name] = arg]
           lv   == [run.live EXCEPT ![Len(run.live)].owed = Append(@, o)]
<1>1. Current.op = "let" /\ run' = [run EXCEPT !.pc = @ + 1, !.lets = l, !.live = lv]
  <2>1. call.name = Current.name /\ call.defer = Current.defer
    BY DEF Named
  <2>2. Current.op = "let" /\ run' = [run EXCEPT !.pc = @ + 1,
               !.lets[Current.name] = arg,
               !.live[Len(run.live)].owed = Append(@, [defer |-> Current.defer, arg |-> arg])]
    BY DEF RunLet, Step, Becomes
  <2> QED  BY <2>1, <2>2
<1>2. PICK ctx \in Seq(Place) : Code(out, ctx, defers) /\ Whole(out, ctx) /\ At(run, out, ctx, defers)
  BY DEF Running
<1> DEFINE c == ctx[run.pc]
           d == ctx[run.pc + 1]
           i == Current
           F == Flat(c.open, 1)
<1>3. /\ run.pc \in Nat /\ c \in Place /\ c.open # <<>> /\ c.open \in Seq(Frame) /\ i \in Instr /\ Fits(i, c, defers)
      /\ Runs(run, c, i, defers) /\ run.pc + 1 \in 1 .. Len(out) /\ d = After(run.pc, i, c)
      /\ Len(c.open) \in Nat /\ Len(c.open) >= 1
  BY <1>1, <1>2, Now
<1>4. i.op \notin AllKinds
  BY <1>1, OpKinds
<1>5. c.made = 0 /\ i.name \in 1 .. MaxStmts /\ i.defer \in 1 .. Len(defers) /\ \A j \in 1 .. Len(F) : F[j].name < i.name
  <2>1. c.made = 0
    BY <1>1, <1>3 DEF Fits, FitsState, Jumps
  <2>2. i.name \in 1 .. MaxStmts /\ i.defer \in 1 .. Len(defers) /\ \A j \in 1 .. Len(F) : F[j].name < i.name
    BY <1>1, <1>3 DEF Fits, FitsLet
  <2> QED  BY <2>1, <2>2
<1>6. /\ d \in Place /\ d.open = WithCall(c.open, call) /\ d.made = 0 /\ ~d.saved /\ ~d.dead
  <2>1. /\ After(run.pc, i, c) \in Place
        /\ After(run.pc, i, c).open = OpenAfter(run.pc, i, c.open)
        /\ After(run.pc, i, c).made = IF i.op = "call" THEN c.made + 1 ELSE 0
        /\ After(run.pc, i, c).saved <=> (i.op \in {"save", "tail"} \/ (i.op = "call" /\ c.saved))
        /\ After(run.pc, i, c).dead <=> (i.op \in Jumps \cup Exits \cup {"end"})
    BY <1>3, AfterTyped
  <2>2. OpenAfter(run.pc, i, c.open) = WithCall(c.open, call)
    BY <1>1, <1>3, AfterOpen
  <2>3. i.op = "let" /\ i.op \notin Jumps \cup Exits \cup {"end"}
    BY <1>1 DEF Jumps, Exits
  <2> HIDE DEF c, d, i, call
  <2> QED  BY <1>3, <2>1, <2>2, <2>3
<1>7. call \in Call /\ call.name = i.name /\ call.defer = i.defer
  BY <1>3, InstrParts DEF Named
<1>8. arg \in Arg /\ (arg = Ref => defers[i.defer])
  <2>1. run.x \in {0, 1}
    BY MachineParts DEF Bit
  <2> QED  BY <2>1 DEF Arg, Bit, Ref
<1>9. /\ run.live \in Seq(Life) /\ run.lets \in [0 .. MaxStmts -> Arg]
      /\ Lives(run.live, c.open, run.lets) /\ Refs(run.lets, F, defers)
  BY <1>3, MachineParts DEF Runs
<1> HIDE DEF c, d, i, arg, call
<1>10. /\ lv \in Seq(Life) /\ l \in [0 .. MaxStmts -> Arg]
       /\ Lives(lv, WithCall(c.open, call), l)
       /\ l[call.name] = arg
       /\ \A m \in 0 .. MaxStmts : m < call.name => l[m] = run.lets[m]
  <2>1. call.name \in 0 .. MaxStmts
    BY <1>5, <1>7, DeferAssumption
  <2>2. \A j \in 1 .. Len(Flat(c.open, 1)) : Flat(c.open, 1)[j].name < call.name
    BY <1>5, <1>7
  <2>3. Registers(run.live, c.open, run.lets, call, arg)
    BY <1>3, <1>7, <1>8, <1>9, <2>1, <2>2, LivesWithCall
  <2> QED  BY <2>3 DEF Registers
<1> HIDE DEF l, lv, F
<1>11. /\ run' \in Machine /\ run'.pc = run.pc + 1 /\ run'.live = lv /\ run'.lets = l
       /\ run'.x = run.x /\ run'.want = run.want /\ run'.saved = run.saved
       /\ run'.ran = run.ran /\ run'.due = run.due
  <2>1. run.pc + 1 \in Nat \ {0}
    BY <1>3
  <2> QED  BY <1>1, <1>10, <2>1 DEF Machine, Life
<1>12. Refs(l, Flat(d.open, 1), defers)
  <2>1. 1 \in 1 .. Len(c.open) /\ 1 \in 1 .. Len(c.open) + 1
    BY <1>3
  <2>2. Flat(WithCall(c.open, call), 1) = Append(F, call) /\ F \in Seq(Call)
    BY <1>3, <1>7, <2>1, FlatWithCall, ListsTyped DEF F
  <2>3. ASSUME NEW j \in 1 .. Len(F) + 1, l[Append(F, call)[j].name] = Ref
        PROVE  defers[Append(F, call)[j].defer]
    <3>0. Len(F) \in Nat
      BY <2>2
    <3>1. CASE j = Len(F) + 1
      <4>1. Append(F, call)[j] = call
        BY <2>2, <3>1
      <4>2. arg = Ref
        BY <1>10, <2>3, <4>1
      <4> QED  BY <1>7, <1>8, <4>1, <4>2
    <3>2. CASE j # Len(F) + 1
      <4>1. j \in 1 .. Len(F)
        BY <3>0, <3>2
      <4>2. Append(F, call)[j] = F[j]
        BY <2>2, <4>1
      <4>3. F[j].name < i.name /\ F[j] \in Call
        BY <1>5, <2>2, <4>1, ElementOfSeq
      <4>4. F[j].name \in 0 .. MaxStmts
        <5>1. F[j].name \in Nat
          BY <4>3 DEF Call
        <5> QED  BY <1>5, <4>3, <5>1, DeferAssumption
      <4>5. l[F[j].name] = run.lets[F[j].name]
        BY <1>7, <1>10, <4>3, <4>4
      <4>6. run.lets[F[j].name] = Ref
        BY <2>3, <4>2, <4>5
      <4> QED  BY <1>9, <4>1, <4>2, <4>6 DEF Refs
    <3> QED  BY <3>1, <3>2
  <2>4. Len(Append(F, call)) = Len(F) + 1
    BY <2>2
  <2> QED  BY <1>6, <2>2, <2>3, <2>4 DEF Refs
<1>13. Runs(run', d, out[run.pc + 1], defers)
  <2>1. (Faithful => run.ran = run.due) /\ run.x = run.want
    BY <1>3, <1>5, RanDue
  <2>2. Lives(run'.live, d.open, run'.lets) /\ Refs(run'.lets, Flat(d.open, 1), defers)
    BY <1>6, <1>10, <1>11, <1>12
  <2> QED  BY <1>6, <1>11, <2>1, <2>2, RunsQuiet
<1> QED  BY <1>2, <1>3, <1>11, <1>13, MovesOn DEF d

(* Enter, *)
LEMMA EnterRuns ==
    ASSUME run \in Machine, out \in Seq(Instr), Running(run, out, defers), Enter
    PROVE  run' \in Machine /\ Running(run', out, defers)
<1> DEFINE f == [at |-> run.pc, owed |-> <<>>]
<1>1. /\ Current.op \in Kinds
      /\ Current.op = "while" => run.rounds > 0
      /\ run' = [run EXCEPT !.pc = @ + 1, !.live = Append(@, f),
                            !.rounds = IF Current.op = "while" THEN @ - 1 ELSE @]
  BY DEF Enter, Step, Becomes
<1>2. PICK ctx \in Seq(Place) : Code(out, ctx, defers) /\ Whole(out, ctx) /\ At(run, out, ctx, defers)
  BY DEF Running
<1> DEFINE c == ctx[run.pc]
           d == ctx[run.pc + 1]
           i == Current
<1>3. i.op \in AllKinds /\ i.op \notin {"let", "call", "assign", "save", "tail", "close", "end"} \cup Jumps \cup Exits
  BY <1>1, OpKinds
<1>4. /\ run.pc \in Nat /\ run.pc \in 1 .. Len(out) /\ c \in Place /\ c.open # <<>> /\ c.open \in Seq(Frame)
      /\ i \in Instr /\ Fits(i, c, defers)
      /\ Runs(run, c, i, defers) /\ run.pc + 1 \in 1 .. Len(out) /\ d = After(run.pc, i, c)
      /\ Len(c.open) \in Nat
  BY <1>2, <1>3, Now
<1>5. c.made = 0
  BY <1>3, <1>4 DEF Fits, FitsState, Exits
<1>6. /\ d \in Place /\ d.open = Entered(c.open, run.pc) /\ d.made = 0 /\ ~d.saved /\ ~d.dead
  <2>1. /\ After(run.pc, i, c) \in Place
        /\ After(run.pc, i, c).open = OpenAfter(run.pc, i, c.open)
        /\ After(run.pc, i, c).made = IF i.op = "call" THEN c.made + 1 ELSE 0
        /\ After(run.pc, i, c).saved <=> (i.op \in {"save", "tail"} \/ (i.op = "call" /\ c.saved))
        /\ After(run.pc, i, c).dead <=> (i.op \in Jumps \cup Exits \cup {"end"})
    BY <1>4, AfterTyped
  <2>2. OpenAfter(run.pc, i, c.open) = Entered(c.open, run.pc)
    BY <1>3, <1>4, AfterOpen
  <2> HIDE DEF c, d, i
  <2> QED  BY <1>3, <1>4, <2>1, <2>2
<1>7. f \in Life /\ f.at = run.pc /\ f.owed = <<>> /\ run.live \in Seq(Life)
  <2>1. <<>> \in Seq(Owed) /\ run.live \in Seq(Life)
    BY MachineParts
  <2> QED  BY <1>4, <2>1 DEF Life
<1> HIDE DEF c, d, i, f
<1>8. /\ run' \in Machine /\ run'.pc = run.pc + 1 /\ run'.live = Append(run.live, f) /\ run'.lets = run.lets
      /\ run'.x = run.x /\ run'.want = run.want /\ run'.saved = run.saved
      /\ run'.ran = run.ran /\ run'.due = run.due
  <2>1. run.pc + 1 \in Nat \ {0}
    BY <1>4
  <2>2. Append(run.live, f) \in Seq(Life)
    BY <1>7, AppendProperties
  <2>3. (IF Current.op = "while" THEN run.rounds - 1 ELSE run.rounds) \in 0 .. MaxRounds
    BY <1>1, MachineParts, DeferAssumption
  <2> QED  BY <1>1, <2>1, <2>2, <2>3 DEF Machine, Life
<1>9. Lives(run'.live, d.open, run'.lets)
  <2> DEFINE w == Entered(c.open, run.pc)
             lv == Append(run.live, f)
  <2>1. Lives(run.live, c.open, run.lets)
    BY <1>4 DEF Runs
  <2>2. /\ Len(w) = Len(c.open) + 1
        /\ \A k \in 1 .. Len(c.open) : w[k] = c.open[k]
        /\ w[Len(c.open) + 1].at = run.pc /\ w[Len(c.open) + 1].calls = <<>>
    <3>1. /\ Len(w) = Len(c.open) + 1
          /\ \A k \in 1 .. Len(c.open) : w[k] = c.open[k]
          /\ w[Len(c.open) + 1] = [at |-> run.pc, calls |-> <<>>]
      BY <1>4, EnteredFacts
    <3> HIDE DEF w
    <3> QED  BY <3>1
  <2>3. /\ Len(lv) = Len(c.open) + 1 /\ lv[Len(c.open) + 1] = f
        /\ \A k \in 1 .. Len(c.open) : lv[k] = run.live[k]
    BY <1>7, <2>1 DEF Lives
  <2> HIDE DEF w, lv
  <2>4. Pairwise(<<>>, <<>>, Kept(run.lets))
    BY DEF Pairwise
  <2>5. ASSUME NEW k \in 1 .. Len(w) PROVE lv[k].at = w[k].at /\ Pairwise(lv[k].owed, w[k].calls, Kept(run.lets))
    <3>1. CASE k = Len(c.open) + 1
      BY <1>7, <2>2, <2>3, <2>4, <3>1
    <3>2. CASE k # Len(c.open) + 1
      <4>1. k \in 1 .. Len(c.open)
        BY <1>4, <2>2, <3>2
      <4> QED  BY <2>1, <2>2, <2>3, <4>1 DEF Lives
    <3> QED  BY <3>1, <3>2
  <2>6. Lives(lv, w, run.lets)
    BY <2>2, <2>3, <2>5 DEF Lives
  <2> QED  BY <1>6, <1>8, <2>6 DEF w, lv
<1>10. Refs(run'.lets, Flat(d.open, 1), defers)
  <2>1. 1 \in 1 .. Len(c.open) + 1
    BY <1>4
  <2>2. Flat(Entered(c.open, run.pc), 1) = Flat(c.open, 1)
    BY <1>4, <2>1, FlatEntered
  <2>3. Refs(run.lets, Flat(c.open, 1), defers)
    BY <1>4 DEF Runs
  <2> QED  BY <1>6, <1>8, <2>2, <2>3
<1>11. Runs(run', d, out[run.pc + 1], defers)
  <2>1. (Faithful => run.ran = run.due) /\ run.x = run.want
    BY <1>4, <1>5, RanDue
  <2> QED  BY <1>6, <1>8, <1>9, <1>10, <2>1, RunsQuiet
<1> QED  BY <1>2, <1>4, <1>8, <1>11, MovesOn DEF d

(* Skip, *)
LEMMA SkipRuns ==
    ASSUME run \in Machine, out \in Seq(Instr), Running(run, out, defers), Skip
    PROVE  run' \in Machine /\ Running(run', out, defers)
<1> DEFINE t == CloseOf(run.pc) + 1
<1>1. Current.op \in Kinds /\ run' = [run EXCEPT !.pc = t]
  BY DEF Skip, Step, Becomes
<1>2. PICK ctx \in Seq(Place) : Code(out, ctx, defers) /\ Whole(out, ctx) /\ At(run, out, ctx, defers)
  BY DEF Running
<1> DEFINE c == ctx[run.pc]
           d == ctx[t]
<1>3. /\ run.pc \in 1 .. Len(out) /\ c \in Place /\ Runs(run, c, Current, defers)
  BY <1>2, Now
<1>4. Current.op \in AllKinds
  BY <1>1, OpKinds
<1>5. c.made = 0 /\ Behinds(ctx, run.pc)
  BY <1>2, <1>3, <1>4, OpenerPlace, CloserPlace DEF Current
<1>6. t \in 1 .. Len(out) /\ d \in Place /\ d.open = c.open /\ d.made = 0 /\ ~d.dead /\ ~d.saved
  BY <1>5 DEF Behinds
<1>7. t \in Nat \ {0}
  BY <1>6
<1> HIDE DEF c, d, t
<1>8. /\ run' \in Machine /\ run'.pc = t /\ run'.live = run.live /\ run'.lets = run.lets
      /\ run'.x = run.x /\ run'.want = run.want /\ run'.ran = run.ran /\ run'.due = run.due
  BY <1>1, <1>7 DEF Machine
<1>9. Runs(run', d, out[t], defers)
  <2>1. (Faithful => run.ran = run.due) /\ run.x = run.want
    BY <1>3, <1>5, RanDue
  <2>2. Lives(run.live, c.open, run.lets) /\ Refs(run.lets, Flat(c.open, 1), defers)
    BY <1>3 DEF Runs
  <2> QED  BY <1>6, <1>8, <2>1, <2>2, RunsQuiet
<1> QED  BY <1>2, <1>6, <1>8, <1>9, MovesOn DEF d

\* Leaving the bodies from the n-th on.
LEMMA FlatBefore ==
    ASSUME NEW open \in Seq(Frame), NEW n \in 1 .. Len(open)
    PROVE  /\ SubSeq(open, 1, n - 1) \in Seq(Frame) /\ Len(SubSeq(open, 1, n - 1)) = n - 1
           /\ Flat(SubSeq(open, 1, n - 1), 1) \in Seq(Call) /\ Flat(open, n) \in Seq(Call)
           /\ Flat(open, 1) = Flat(SubSeq(open, 1, n - 1), 1) \o Flat(open, n)
<1> DEFINE s == SubSeq(open, 1, n - 1)
           ll == Lists(open, 1)
<1>1. s \in Seq(Frame) /\ Len(s) = n - 1 /\ Len(open) \in Nat /\ \A k \in 1 .. n - 1 : s[k] = open[k]
  OBVIOUS
<1>2. 1 \in 1 .. Len(open) + 1 /\ n \in 1 .. Len(open) + 1 /\ 1 \in 1 .. Len(s) + 1
  BY <1>1
<1>3. /\ ll \in Seq(Seq(Call)) /\ Len(ll) = Len(open) /\ Lists(open, n) = From(ll, n)
      /\ Flat(open, n) \in Seq(Call)
      /\ \A i \in 1 .. Len(open) : ll[i] = open[i].calls
  <2>1. /\ Lists(open, 1) \in Seq(Seq(Call)) /\ Len(Lists(open, 1)) = Len(open) - 1 + 1
        /\ \A i \in 1 .. Len(open) - 1 + 1 : Lists(open, 1)[i] = open[1 + i - 1].calls
    BY <1>2, ListsTyped
  <2>2. Lists(open, n) = From(All(open), n) /\ Flat(open, n) \in Seq(Call)
    BY <1>2, ListsTyped
  <2> QED  BY <1>1, <2>1, <2>2 DEF All
<1> HIDE DEF s
<1>4. /\ Lists(s, 1) \in Seq(Seq(Call)) /\ Len(Lists(s, 1)) = n - 1
      /\ \A i \in 1 .. n - 1 : Lists(s, 1)[i] = s[i].calls
      /\ Flat(s, 1) \in Seq(Call)
  <2>1. /\ Lists(s, 1) \in Seq(Seq(Call)) /\ Len(Lists(s, 1)) = Len(s) - 1 + 1
        /\ \A i \in 1 .. Len(s) - 1 + 1 : Lists(s, 1)[i] = s[1 + i - 1].calls
        /\ Flat(s, 1) \in Seq(Call)
    BY <1>1, <1>2, ListsTyped
  <2> QED  BY <1>1, <2>1
<1> HIDE DEF ll
<1>5. Lists(s, 1) = SubSeq(ll, 1, n - 1)
  <2> DEFINE T == Seq(Call)
             a == Lists(s, 1)
             b == SubSeq(ll, 1, n - 1)
  <2>1. a \in Seq(T) /\ Len(a) = n - 1 /\ \A i \in 1 .. n - 1 : a[i] = s[i].calls
    BY <1>4
  <2>2. ll \in Seq(T)
    BY <1>3
  <2> HIDE DEF T, a
  <2>3. b \in Seq(T) /\ Len(b) = n - 1 /\ \A i \in 1 .. n - 1 : b[i] = ll[i]
    BY <1>1, <1>3, <2>2
  <2> HIDE DEF b
  <2>4. \A i \in 1 .. n - 1 : i \in 1 .. Len(open)
    BY <1>1
  <2>5. \A i \in 1 .. n - 1 : a[i] = b[i]
    BY <1>1, <1>3, <2>1, <2>3, <2>4
  <2>6. a = b
    BY <2>1, <2>3, <2>5, SeqEqual
  <2> QED  BY <2>6 DEF a, b
<1>6. FlattenSeq(ll) = FlattenSeq(SubSeq(ll, 1, n - 1)) \o FlattenSeq(From(ll, n))
  <2>1. n \in 1 .. Len(ll) + 1
    BY <1>2, <1>3
  <2> QED  BY <1>3, <2>1, FlatParts
<1> QED  BY <1>1, <1>3, <1>4, <1>5, <1>6 DEF Flat, ll, s

LEMMA LeaveFacts ==
    ASSUME run \in Machine, NEW c \in Place, NEW i, Runs(run, c, i, defers),
           NEW n \in 1 .. Len(c.open), NEW t \in Nat \ {0},
           Faithful => c.made = Len(Flat(c.open, n))
    PROVE  LET r == Leave(n, t)
           IN  /\ r \in Machine /\ r.pc = t /\ r.live = SubSeq(run.live, 1, n - 1) /\ r.lets = run.lets
               /\ r.x = run.x /\ r.want = run.x /\ r.saved = run.saved /\ r.ran = run.ran
               /\ Faithful => r.ran = r.due
<1> DEFINE e == Reverse(Due(run.live, n))
           s == SubSeq(run.live, 1, n - 1)
<1>1. /\ run.live \in Seq(Life) /\ run.due \in Seq(Owed) /\ c.open \in Seq(Frame)
      /\ Lives(run.live, c.open, run.lets) /\ Len(run.live) = Len(c.open)
  BY MachineParts, PlaceParts DEF Runs, Lives
<1>2. n \in 1 .. Len(c.open) + 1 /\ 1 \in 1 .. Len(c.open) + 1 /\ n \in 1 .. Len(run.live)
  BY <1>1
<1>3. /\ Owing(run.live, n) = From(Owing(run.live, 1), n)
      /\ Len(Due(run.live, n)) = Len(Flat(c.open, n)) /\ Due(run.live, n) \in Seq(Owed)
  BY <1>1, <1>2, LivesOwe
<1>4. Owing(run.live, 1) \in Seq(Seq(Owed)) /\ Len(Owing(run.live, 1)) = Len(c.open)
  BY <1>1, <1>2, LivesOwe
<1>5. SubSeq(Reverse(Due(run.live, 1)), 1, Len(Due(run.live, n))) = e
  <2> DEFINE ll == Owing(run.live, 1)
  <2>1. n \in 1 .. Len(ll) + 1
    BY <1>2, <1>4
  <2>2. SubSeq(Reverse(FlattenSeq(ll)), 1, Len(FlattenSeq(From(ll, n)))) = Reverse(FlattenSeq(From(ll, n)))
    BY <1>4, <2>1, ReversedFrom
  <2> QED  BY <1>3, <2>2 DEF Due
<1>6. Leave(n, t) = [run EXCEPT !.live = s, !.pc = t, !.want = run.x, !.due = run.due \o e]
  BY DEF Leave, Owing, Due
<1>7. s \in Seq(Life)
  BY <1>1, <1>2
<1>8. e \in Seq(Owed) /\ run.due \o e \in Seq(Owed)
  BY <1>1, <1>3, Reversed, ConcatProperties
<1>9. Faithful => run.ran = run.due \o e
  BY <1>3, <1>5 DEF Runs
<1>10. run.x \in Bit
  BY MachineParts
<1> HIDE DEF e, s
<1> DEFINE r == [run EXCEPT !.live = s, !.pc = t, !.want = run.x, !.due = run.due \o e]
<1>11. /\ r \in Machine /\ r.pc = t /\ r.live = s /\ r.lets = run.lets
       /\ r.x = run.x /\ r.want = run.x /\ r.saved = run.saved /\ r.ran = run.ran /\ r.due = run.due \o e
  BY <1>7, <1>8, <1>10 DEF Machine, Life
<1> HIDE DEF r
<1>12. Leave(n, t) = r
  BY <1>6 DEF r
<1> QED  BY <1>9, <1>11, <1>12 DEF s

(* The run goes on outside of the bodies it left. *)
LEMMA LeaveRuns ==
    ASSUME run \in Machine, NEW c \in Place, NEW i, Runs(run, c, i, defers),
           NEW n \in 1 .. Len(c.open), NEW t \in Nat \ {0},
           Faithful => c.made = Len(Flat(c.open, n)),
           NEW e \in Place, e.open = SubSeq(c.open, 1, n - 1), e.made = 0, ~e.dead,
           NEW j, ~e.saved \/ j.op \in AllKinds
    PROVE  Leave(n, t) \in Machine /\ Leave(n, t).pc = t /\ Runs(Leave(n, t), e, j, defers)
<1> DEFINE r == Leave(n, t)
           s == SubSeq(run.live, 1, n - 1)
           F == Flat(c.open, 1)
           G == Flat(e.open, 1)
<1>1. /\ r \in Machine /\ r.pc = t /\ r.live = s /\ r.lets = run.lets
      /\ r.x = run.x /\ r.want = run.x /\ r.saved = run.saved /\ r.ran = run.ran
      /\ Faithful => r.ran = r.due
  BY LeaveFacts
<1> HIDE DEF r
<1>2. /\ c.open \in Seq(Frame) /\ run.live \in Seq(Life)
      /\ Lives(run.live, c.open, run.lets) /\ Len(run.live) = Len(c.open) /\ Refs(run.lets, F, defers)
  BY PlaceParts, MachineParts DEF Runs, Lives
<1>3. /\ Len(e.open) = n - 1 /\ G \in Seq(Call) /\ Flat(c.open, n) \in Seq(Call) /\ F = G \o Flat(c.open, n)
  <2> DEFINE o == SubSeq(c.open, 1, n - 1)
  <2>1. /\ Len(o) = n - 1 /\ Flat(o, 1) \in Seq(Call) /\ Flat(c.open, n) \in Seq(Call)
        /\ Flat(c.open, 1) = Flat(o, 1) \o Flat(c.open, n)
    BY <1>2, FlatBefore
  <2>2. e.open = o
    OBVIOUS
  <2> HIDE DEF o
  <2> QED  BY <2>1, <2>2
<1>4. Lives(s, e.open, run.lets)
  <2>1. Len(s) = n - 1 /\ \A k \in 1 .. n - 1 : s[k] = run.live[k]
    BY <1>2
  <2>2. \A k \in 1 .. n - 1 : e.open[k] = c.open[k] /\ k \in 1 .. Len(c.open)
    BY <1>2
  <2> QED  BY <1>2, <1>3, <2>1, <2>2 DEF Lives
<1>5. Refs(run.lets, G, defers)
  <2> HIDE DEF F, G
  <2>1. \A k \in 1 .. Len(G) : k \in 1 .. Len(F) /\ F[k] = G[k]
    BY <1>3
  <2> QED  BY <1>2, <2>1 DEF Refs
<1> QED  BY <1>1, <1>4, <1>5, RunsQuiet DEF r

(* RunClose, *)
LEMMA CloseRuns ==
    ASSUME run \in Machine, out \in Seq(Instr), Running(run, out, defers), RunClose
    PROVE  run' \in Machine /\ Running(run', out, defers)
<1> DEFINE t == IF out[Current.at].op = "while" THEN Current.at ELSE run.pc + 1
           n == Len(run.live)
<1>1. Current.op = "close" /\ run' = Leave(n, t)
  BY DEF RunClose, Step, Becomes
<1>2. PICK ctx \in Seq(Place) : Code(out, ctx, defers) /\ Whole(out, ctx) /\ At(run, out, ctx, defers)
  BY DEF Running
<1> DEFINE c == ctx[run.pc]
           e == ctx[t]
<1>3. /\ run.pc \in 1 .. Len(out) /\ run.pc \in Nat /\ c \in Place /\ Runs(run, c, Current, defers)
      /\ Fits(Current, c, defers) /\ ~c.dead
  BY <1>2, Now
<1>4. /\ run.pc + 1 \in 1 .. Len(out) /\ ctx[run.pc + 1] \in Place
      /\ ctx[run.pc + 1].made = 0 /\ ~ctx[run.pc + 1].dead /\ ~ctx[run.pc + 1].saved
      /\ Len(c.open) >= 2 /\ Len(c.open) \in Nat
      /\ Current.at \in 1 .. run.pc - 1 /\ out[Current.at].op \in Kinds
      /\ ctx[run.pc + 1].open = SubSeq(c.open, 1, Len(c.open) - 1)
      /\ ctx[Current.at].open = SubSeq(c.open, 1, Len(c.open) - 1)
  <2> DEFINE q == run.pc
             o == ctx[q].open
  <2>1. q \in 1 .. Len(out) /\ out[q].op = "close"
    BY <1>1, <1>3 DEF Current
  <2> HIDE DEF q
  <2>2. /\ q + 1 \in 1 .. Len(out) /\ ctx[q + 1] \in Place
        /\ ctx[q + 1].made = 0 /\ ~ctx[q + 1].dead /\ ~ctx[q + 1].saved
        /\ Len(o) >= 2 /\ Len(o) \in Nat
        /\ out[q].at \in 1 .. q - 1 /\ out[out[q].at].op \in Kinds
    BY <1>2, <2>1, ClosePlace
  <2>3. /\ ctx[q + 1].open = Front(o) /\ ctx[out[q].at].open = Front(o)
        /\ Front(o) = SubSeq(o, 1, Len(o) - 1)
    BY <1>2, <2>1, ClosePlace
  <2> QED  BY <2>2, <2>3 DEF q, Current
<1>5. n = Len(c.open)
  BY <1>3 DEF Runs, Lives
<1>6. n \in 1 .. Len(c.open)
  BY <1>4, <1>5
<1>7. Faithful => c.made = Len(Flat(c.open, n))
  BY <1>1, <1>3, <1>5 DEF Fits, FitsClose
<1>8. /\ t \in 1 .. Len(out) /\ e \in Place /\ e.open = SubSeq(c.open, 1, n - 1) /\ e.made = 0 /\ ~e.dead
      /\ ~e.saved \/ out[t].op \in AllKinds
  <2>1. CASE out[Current.at].op = "while"
    <3>1. t = Current.at /\ t \in 1 .. Len(out) /\ out[t].op \in AllKinds
      BY <1>3, <1>4, <2>1, OpKinds
    <3> HIDE DEF t
    <3>2. e \in Place /\ e.made = 0 /\ ~e.dead
      BY <1>2, <3>1, OpenerPlace
    <3> QED  BY <1>4, <1>5, <3>1, <3>2
  <2>2. CASE out[Current.at].op # "while"
    <3>1. t = run.pc + 1
      BY <2>2
    <3> QED  BY <1>4, <1>5, <3>1
  <2> QED  BY <2>1, <2>2
<1>9. t \in Nat \ {0}
  BY <1>8
<1> HIDE DEF c, e, t, n
<1>10. Leave(n, t) \in Machine /\ Leave(n, t).pc = t /\ Runs(Leave(n, t), e, out[t], defers)
  BY <1>3, <1>6, <1>7, <1>8, <1>9, LeaveRuns
<1> QED  BY <1>1, <1>2, <1>8, <1>10, MovesOn DEF e

(* RunJump *)
LEMMA JumpRuns ==
    ASSUME run \in Machine, out \in Seq(Instr), Running(run, out, defers), RunJump
    PROVE  run' \in Machine /\ Running(run', out, defers)
<1> DEFINE t == IF Current.op = "continue" THEN Current.at ELSE CloseOf(Current.at) + 1
           n == CHOOSE k \in DOMAIN run.live : run.live[k].at = Current.at
<1>1. Current.op \in Jumps /\ run' = Leave(n, t)
  BY DEF RunJump, Step, Becomes
<1>2. PICK ctx \in Seq(Place) : Code(out, ctx, defers) /\ Whole(out, ctx) /\ At(run, out, ctx, defers)
  BY DEF Running
<1> DEFINE c == ctx[run.pc]
           e == ctx[t]
           a == Current.at
<1>3. /\ run.pc \in 1 .. Len(out) /\ run.pc \in Nat /\ c \in Place /\ Runs(run, c, Current, defers)
      /\ c.open \in Seq(Frame)
      /\ Fits(Current, c, defers) /\ Encloses(out, ctx, c.open, run.pc)
  BY <1>2, Now
<1>4. PICK m \in 2 .. Len(c.open) : a = c.open[m].at /\ (Faithful => c.made = Len(Flat(c.open, m)))
  BY <1>1, <1>3 DEF Fits, FitsJump
<1>5. n = m
  <2>1. /\ DOMAIN run.live = 1 .. Len(c.open)
        /\ \A k \in 1 .. Len(c.open) : run.live[k].at = c.open[k].at
    <3>1. run.live \in Seq(Life) /\ Lives(run.live, c.open, run.lets)
      BY <1>3, MachineParts DEF Runs
    <3> QED  BY <3>1 DEF Lives
  <2>2. m \in 1 .. Len(c.open)
    BY <1>3
  <2>3. n \in 1 .. Len(c.open) /\ c.open[n].at = a
    BY <1>4, <2>1, <2>2
  <2>4. \A k \in 1 .. Len(c.open) : c.open[k].at \in Nat
    BY <1>3, FrameCalls
  <2> HIDE DEF n, a
  <2>5. ~(n < m)
    <3> SUFFICES ASSUME n < m PROVE FALSE
      OBVIOUS
    <3>1. n \in 1 .. m - 1
      BY <1>3, <2>2, <2>3
    <3>2. c.open[n].at < c.open[m].at
      BY <1>2, <1>3, <2>2, <3>1, Ascending
    <3> QED  BY <1>4, <2>2, <2>3, <2>4, <3>2
  <2>6. ~(m < n)
    <3> SUFFICES ASSUME m < n PROVE FALSE
      OBVIOUS
    <3>1. m \in 1 .. n - 1
      BY <1>3, <2>2, <2>3
    <3>2. c.open[m].at < c.open[n].at
      BY <1>2, <1>3, <2>3, <3>1, Ascending
    <3> QED  BY <1>4, <2>2, <2>3, <2>4, <3>2
  <2> QED  BY <1>3, <2>2, <2>3, <2>5, <2>6
<1>6. a \in 1 .. run.pc - 1 /\ out[a].op \in Kinds /\ ctx[a].open = SubSeq(c.open, 1, m - 1)
  BY <1>3, <1>4 DEF Encloses
<1>7. a \in 1 .. Len(out) /\ out[a].op \in AllKinds
  BY <1>3, <1>6, OpKinds
<1> HIDE DEF a, c
<1>8. ctx[a] \in Place /\ ctx[a].made = 0 /\ ~ctx[a].dead /\ Behinds(ctx, a)
  BY <1>2, <1>7, OpenerPlace, CloserPlace
<1>9. /\ t \in 1 .. Len(out) /\ e \in Place /\ e.open = SubSeq(c.open, 1, m - 1) /\ e.made = 0 /\ ~e.dead
      /\ ~e.saved \/ out[t].op \in AllKinds
  <2>1. CASE Current.op = "continue"
    <3>1. t = a
      BY <2>1 DEF a
    <3> QED  BY <1>6, <1>7, <1>8, <3>1
  <2>2. CASE Current.op # "continue"
    <3>1. t = CloseOf(a) + 1
      BY <2>2 DEF a
    <3> QED  BY <1>6, <1>8, <3>1 DEF Behinds
  <2> QED  BY <2>1, <2>2
<1>10. t \in Nat \ {0} /\ m \in 1 .. Len(c.open)
  BY <1>9, <1>3
<1> HIDE DEF e, t, n
<1>11. Leave(m, t) \in Machine /\ Leave(m, t).pc = t /\ Runs(Leave(m, t), e, out[t], defers)
  BY <1>3, <1>4, <1>9, <1>10, LeaveRuns DEF c
<1> QED  BY <1>1, <1>2, <1>5, <1>9, <1>11, MovesOn DEF e

(* and RunExit. *)
LEMMA ExitRuns ==
    ASSUME run \in Machine, out \in Seq(Instr), Running(run, out, defers), RunExit
    PROVE  run' \in Machine /\ Done' /\ run'.pc \in 1 .. Len(out)
<1> DEFINE r == Leave(1, run.pc)
           i == Current
<1>1. /\ i.op \in Exits \cup {"end"} /\ run' = [r EXCEPT !.result = Result, !.want = run.want]
      /\ out' = out /\ phase' = "done"
  BY DEF RunExit, Step, source
<1>2. PICK ctx \in Seq(Place) : Code(out, ctx, defers) /\ Whole(out, ctx) /\ At(run, out, ctx, defers)
  BY DEF Running
<1> DEFINE c == ctx[run.pc]
<1>3. /\ run.pc \in 1 .. Len(out) /\ run.pc \in Nat \ {0} /\ c \in Place /\ Runs(run, c, i, defers)
      /\ Fits(i, c, defers) /\ ~c.dead /\ Len(c.open) \in Nat /\ 1 \in 1 .. Len(c.open) /\ Len(out) \in Nat
  BY <1>2, Now
<1>4. Faithful => c.made = Len(Flat(c.open, 1))
  BY <1>1, <1>3 DEF Fits, FitsExit
<1>5. /\ r \in Machine /\ r.pc = run.pc /\ r.x = run.x /\ r.ran = run.ran
      /\ Faithful => r.ran = r.due
  BY <1>3, <1>4, LeaveFacts
<1>6. run.x \in Bit /\ run.saved \in Bit /\ run.want \in Bit
  BY MachineParts
<1>7. Result \in Bit \cup {Void}
  <2>1. CASE i.op = "return-saved"
    BY <1>6, <2>1 DEF Result
  <2>2. CASE i.op = "end"
    BY <1>6, <2>2 DEF Result
  <2>3. CASE i.op # "return-saved" /\ i.op # "end"
    BY <1>6, <2>3 DEF Result
  <2> QED  BY <2>1, <2>2, <2>3
<1> HIDE DEF r, c
<1>8. /\ run' \in Machine /\ run'.pc = run.pc /\ run'.result = Result /\ run'.want = run.want
      /\ Faithful => run'.ran = run'.due
  <2> DEFINE v == Result
  <2>1. run' = [r EXCEPT !.result = v, !.want = run.want] /\ v \in Bit \cup {Void}
    BY <1>1, <1>7
  <2> HIDE DEF v
  <2>2. /\ run' \in Machine /\ run'.pc = r.pc /\ run'.result = v /\ run'.want = run.want
        /\ run'.ran = r.ran /\ run'.due = r.due
    BY <1>5, <1>6, <2>1 DEF Machine
  <2> QED  BY <1>5, <2>2 DEF v
<1>9. "name" \notin Shapes /\ "tail" \notin Shapes => ReturnsValue'
  <2> SUFFICES ASSUME "name" \notin Shapes, "tail" \notin Shapes, HasValue' PROVE Result = run.want
    BY <1>8 DEF ReturnsValue
  <2>1. c.saved /\ i.op \notin AllKinds => run.saved = run.want
    BY <1>3 DEF Runs
  <2>2. i.op \notin AllKinds
    BY <1>1, OpKinds
  <2>3. c.made = 0 \/ NoRef(Flat(c.open, 1), defers) => run.x = run.want
    BY <1>3 DEF Runs
  <2>4. CASE i.op = "return-saved"
    <3>1. c.saved
      BY <1>3, <2>4 DEF Fits, FitsState
    <3> QED  BY <2>1, <2>2, <2>4, <3>1 DEF Result
  <2>5. CASE i.op = "return-value"
    <3>1. c.made = 0
      BY <1>3, <2>5 DEF Fits, FitsState, Jumps
    <3> QED  BY <2>3, <2>5, <3>1 DEF Result
  <2>6. CASE i.op = "return-name"
    <3>1. NoRef(Flat(c.open, 1), defers)
      BY <1>1, <1>3, <2>6 DEF Fits, FitsExit
    <3> QED  BY <2>3, <2>6, <3>1 DEF Result
  <2>7. CASE i.op = "end"
    <3>1. PICK p \in 1 .. Len(out) : out[p].op = "tail"
      <4>1. out'[run'.pc] = Current
        BY <1>1, <1>8 DEF Current
      <4>2. DOMAIN out = 1 .. Len(out)
        OBVIOUS
      <4>3. \E p \in DOMAIN out : out[p].op = "tail"
        BY <1>1, <2>7, <4>1 DEF HasValue, Current
      <4> QED  BY <4>2, <4>3
    <3>2. p + 1 = Len(out)
      BY <1>2, <3>1 DEF Whole
    <3>3. run.pc = Len(out)
      <4>1. \A q \in 1 .. Len(out) - 1 : out[q].op # "end"
        BY <1>2 DEF Whole
      <4>2. run.pc \notin 1 .. Len(out) - 1
        BY <2>7, <4>1 DEF Current
      <4> QED  BY <1>3, <4>2
    <3>4. run.pc > 1 /\ run.pc - 1 = p /\ p \in Nat
      BY <1>3, <3>1, <3>2, <3>3
    <3>5. Result = run.saved
      BY <2>7, <3>1, <3>4 DEF Result
    <3>6. c.saved
      <4>1. ctx[p + 1] = After(p, out[p], ctx[p])
        BY <1>2, <3>1 DEF Code, Placed
      <4>2. ctx[p + 1] = c
        BY <3>2, <3>3 DEF c
      <4>3. After(p, out[p], ctx[p]).saved =
               (out[p].op \in {"save", "tail"} \/ (out[p].op = "call" /\ ctx[p].saved))
        BY DEF After
      <4>4. out[p].op \in {"save", "tail"}
        BY <3>1
      <4> QED  BY <4>1, <4>2, <4>3, <4>4
    <3> QED  BY <2>1, <2>2, <3>5, <3>6
  <2> QED  BY <1>1, <2>4, <2>5, <2>6, <2>7 DEF Exits
<1>10. run'.pc \in 1 .. Len(out')
  BY <1>1, <1>3, <1>8
<1> QED  BY <1>1, <1>3, <1>8, <1>9, <1>10 DEF Done

-----------------------------------------------------------------------------
(* The invariant and the theorems. *)

Invariant ==
    /\ Typed
    /\ phase \in {"body", "rejected"} => Fresh
    /\ phase = "body" => Bodies(out, bodies, defers, counter, left)
    /\ phase = "run"  => Running(run, out, defers)
    /\ phase = "done" => Done

(* The invariant holds at first, *)
LEMMA Begins == ASSUME Init PROVE Invariant
<1>1. /\ phase = "body" /\ out = <<>> /\ counter = 0 /\ defers = <<>> /\ left = MaxStmts
      /\ bodies = <<[kind |-> "fn", at |-> 0, outer |-> <<>>, defers |-> <<>>,
                     exited |-> FALSE, seen |-> TRUE]>>
  BY DEF Init
<1>2. Fresh
  BY DEF Init, Fresh
<1>3. MaxStmts \in Nat /\ MaxRounds \in Nat
  BY DeferAssumption
<1> DEFINE b == [kind |-> "fn", at |-> 0, outer |-> <<>>, defers |-> <<>>, exited |-> FALSE, seen |-> TRUE]
<1>4. /\ b \in Body /\ b.kind = "fn" /\ b.at = 0 /\ b.outer = <<>> /\ b.defers = <<>> /\ ~b.exited /\ b.seen
  <2>1. <<>> \in Seq(Seq(Call)) /\ <<>> \in Seq(Call)
    OBVIOUS
  <2> QED  BY <2>1 DEF Body
<1> HIDE DEF b
<1>5. bodies = <<b>>
  BY <1>1 DEF b
<1>6. /\ bodies \in Seq(Body) /\ bodies # <<>> /\ Len(bodies) = 1 /\ bodies[1] = b /\ TopOf(bodies) = b
      /\ out \in Seq(Instr) /\ defers \in Seq(BOOLEAN) /\ Len(defers) = 0 /\ Len(out) = 0
  <2>1. bodies \in Seq(Body) /\ bodies # <<>> /\ Len(bodies) = 1 /\ bodies[1] = b
    BY <1>4, <1>5
  <2>2. TopOf(bodies) = b
    BY <2>1 DEF TopOf
  <2>3. out \in Seq(Instr) /\ Len(out) = 0
    BY <1>1
  <2>4. defers \in Seq(BOOLEAN) /\ Len(defers) = 0
    BY <1>1
  <2> QED  BY <2>1, <2>2, <2>3, <2>4
<1>7. Written(out, defers, Start)
  BY <1>1, WrittenNothing
<1>8. Mirrors(Start, bodies)
  BY <1>4, <1>6, StartFlat DEF Mirrors
<1>9. Outers(bodies)
  BY <1>4, <1>6 DEF Outers
<1>10. Chains(bodies)
  <2>1. Chain(b) = << <<>> >>
    BY <1>4 DEF Chain
  <2>2. ChainFrom(bodies, 1, 1)
    BY <1>4, <1>6, <2>1 DEF ChainFrom
  <2> QED  BY <1>6, <2>2 DEF Chains
<1>11. Counted(Start, defers, counter, left)
  <2>1. Len(defers) + left <= MaxStmts
    BY <1>1, <1>3, <1>6
  <2>2. \A j \in 1 .. 0 : Flat(Start.open, 1)[j].name <= counter /\ Flat(Start.open, 1)[j].defer \in 1 .. Len(defers)
    OBVIOUS
  <2> QED  BY <2>1, <2>2, StartFlat DEF Counted
<1>12. Tails(out, bodies)
  BY <1>6 DEF Tails
<1>13. Links(Start, out, bodies, defers, counter, left)
  BY <1>8, <1>9, <1>10, <1>11, <1>12 DEF Links
<1>14. counter \in 0 .. Len(defers) /\ left \in 0 .. MaxStmts
  BY <1>1, <1>3, <1>6
<1>15. Bodies(out, bodies, defers, counter, left)
  BY <1>6, <1>7, <1>13, <1>14 DEF Bodies
<1>16. run \in Machine
  <2>1. [n \in 0 .. MaxStmts |-> Unset] \in [0 .. MaxStmts -> Arg]
    BY DEF Arg
  <2>2. <<[at |-> 0, owed |-> <<>>]>> \in Seq([at : Nat, owed : Seq(Owed)])
    <3>1. <<>> \in Seq(Owed)
      OBVIOUS
    <3>2. [at |-> 0, owed |-> <<>>] \in [at : Nat, owed : Seq(Owed)]
      BY <3>1
    <3> QED  BY <3>2
  <2>3. <<>> \in Seq(Owed) /\ 0 \in Bit /\ Void \in Bit \cup {Void} /\ 1 \in Nat \ {0} /\ MaxRounds \in 0 .. MaxRounds
    BY <1>3 DEF Bit
  <2> QED  BY <1>2, <2>1, <2>2, <2>3 DEF Fresh, Machine
<1> QED  BY <1>1, <1>2, <1>6, <1>14, <1>15, <1>16 DEF Invariant, Typed

\* A step of the desugarer.
LEMMA KeepsWriting ==
    ASSUME Invariant, phase = "body", phase' = "body", run' = run,
           Bodies(out', bodies', defers', counter', left')
    PROVE  Invariant'
<1>1. Typed' /\ Fresh'
  BY DEF Invariant, Typed, Fresh, Bodies
<1> QED  BY <1>1 DEF Invariant

LEMMA SurvivorKeeps ==
    ASSUME Invariant, Survivor
    PROVE  Invariant'
<1>1. phase = "body" /\ phase' = "rejected" /\ UNCHANGED <<bodies, out, counter, defers, left, run>>
  BY DEF Survivor, Writing, source
<1>2. Typed' /\ Fresh'
  BY <1>1 DEF Invariant, Typed, Fresh
<1> QED  BY <1>1, <1>2 DEF Invariant

LEMMA Finished ==
    ASSUME Invariant, Finish
    PROVE  Invariant'
<1>1. phase = "body" /\ phase' = "run" /\ UNCHANGED <<bodies, counter, defers, left, run>>
  BY DEF Finish
<1>2. Running(run', out', defers') /\ out' \in Seq(Instr)
  BY <1>1, FinishKeeps DEF Invariant
<1>3. Typed'
  BY <1>1, <1>2 DEF Invariant, Typed
<1> QED  BY <1>1, <1>2, <1>3 DEF Invariant

\* A step of the run.
LEMMA KeepsRunning ==
    ASSUME Invariant, phase = "run", phase' = "run", UNCHANGED source,
           run' \in Machine, Running(run', out, defers)
    PROVE  Invariant'
<1>1. UNCHANGED <<bodies, out, counter, defers, left>>
  BY DEF source
<1>2. Typed'
  BY <1>1 DEF Invariant, Typed
<1> QED  BY <1>1, <1>2 DEF Invariant

LEMMA ExitKeeps ==
    ASSUME Invariant, RunExit
    PROVE  Invariant'
<1>1. phase = "run" /\ phase' = "done" /\ UNCHANGED <<bodies, out, counter, defers, left>>
  BY DEF RunExit, Step, source
<1>2. run \in Machine /\ out \in Seq(Instr) /\ Running(run, out, defers)
  BY <1>1 DEF Invariant, Typed
<1>3. run' \in Machine /\ Done'
  BY <1>2, ExitRuns
<1>4. Typed'
  BY <1>1, <1>3 DEF Invariant, Typed
<1> QED  BY <1>1, <1>3, <1>4 DEF Invariant

(* and every step keeps it. *)
LEMMA Preserved == Invariant /\ [Next]_vars => Invariant'
<1> SUFFICES ASSUME Invariant, [Next]_vars PROVE Invariant'
  OBVIOUS
<1>1. phase = "body" => Bodies(out, bodies, defers, counter, left)
  BY DEF Invariant
<1>2. phase = "run" => run \in Machine /\ out \in Seq(Instr) /\ defers \in Seq(BOOLEAN) /\ Running(run, out, defers)
  BY DEF Invariant, Typed
<1>3. CASE Defer
  <2>1. phase = "body" /\ phase' = "body" /\ run' = run
    BY <1>3 DEF Defer, Writing, Write
  <2> QED  BY <1>1, <1>3, <2>1, DeferKeeps, KeepsWriting
<1>4. CASE Survivor
  BY <1>4, SurvivorKeeps
<1>5. CASE Assign \/ TailValue
  <2>1. phase = "body" /\ phase' = "body" /\ run' = run
    BY <1>5 DEF Assign, TailValue, Writing, Write
  <2> QED  BY <1>1, <1>5, <2>1, ValueKeeps, KeepsWriting
<1>6. CASE Return
  <2>1. phase = "body" /\ phase' = "body" /\ run' = run
    BY <1>6 DEF Return, Writing, Write
  <2> QED  BY <1>1, <1>6, <2>1, ReturnKeeps, KeepsWriting
<1>7. CASE BreakOrContinue
  <2>1. phase = "body" /\ phase' = "body" /\ run' = run
    BY <1>7 DEF BreakOrContinue, Writing, Write
  <2> QED  BY <1>1, <1>7, <2>1, JumpKeeps, KeepsWriting
<1>8. CASE Open
  <2>1. phase = "body" /\ phase' = "body" /\ run' = run
    BY <1>8 DEF Open, Writing, Write
  <2> QED  BY <1>1, <1>8, <2>1, OpenKeeps, KeepsWriting
<1>9. CASE Close
  <2>1. phase = "body" /\ phase' = "body" /\ run' = run
    BY <1>9 DEF Close
  <2> QED  BY <1>1, <1>9, <2>1, CloseKeeps, KeepsWriting
<1>10. CASE Finish
  BY <1>10, Finished
<1>11. CASE RunLet
  <2>1. phase = "run" /\ phase' = "run" /\ UNCHANGED source
    BY <1>11 DEF RunLet, Step, Becomes
  <2> QED  BY <1>2, <1>11, <2>1, LetRuns, KeepsRunning
<1>12. CASE RunCall
  <2>1. phase = "run" /\ phase' = "run" /\ UNCHANGED source
    BY <1>12 DEF RunCall, Step, Becomes
  <2> QED  BY <1>2, <1>12, <2>1, CallRuns, KeepsRunning
<1>13. CASE RunAssign
  <2>1. phase = "run" /\ phase' = "run" /\ UNCHANGED source
    BY <1>13 DEF RunAssign, Step, Becomes
  <2> QED  BY <1>2, <1>13, <2>1, AssignRuns, KeepsRunning
<1>14. CASE RunValue
  <2>1. phase = "run" /\ phase' = "run" /\ UNCHANGED source
    BY <1>14 DEF RunValue, Step, Becomes
  <2> QED  BY <1>2, <1>14, <2>1, ValueRuns, KeepsRunning
<1>15. CASE Enter
  <2>1. phase = "run" /\ phase' = "run" /\ UNCHANGED source
    BY <1>15 DEF Enter, Step, Becomes
  <2> QED  BY <1>2, <1>15, <2>1, EnterRuns, KeepsRunning
<1>16. CASE Skip
  <2>1. phase = "run" /\ phase' = "run" /\ UNCHANGED source
    BY <1>16 DEF Skip, Step, Becomes
  <2> QED  BY <1>2, <1>16, <2>1, SkipRuns, KeepsRunning
<1>17. CASE RunClose
  <2>1. phase = "run" /\ phase' = "run" /\ UNCHANGED source
    BY <1>17 DEF RunClose, Step, Becomes
  <2> QED  BY <1>2, <1>17, <2>1, CloseRuns, KeepsRunning
<1>18. CASE RunJump
  <2>1. phase = "run" /\ phase' = "run" /\ UNCHANGED source
    BY <1>18 DEF RunJump, Step, Becomes
  <2> QED  BY <1>2, <1>18, <2>1, JumpRuns, KeepsRunning
<1>19. CASE RunExit
  BY <1>19, ExitKeeps
<1>20. CASE UNCHANGED vars
  <2>1. UNCHANGED <<phase, bodies, out, counter, defers, left, run>>
    BY <1>20 DEF vars, source
  <2>2. Typed' /\ (Fresh' <=> Fresh) /\ (Done' <=> Done)
    BY <2>1 DEF Invariant, Typed, Fresh, Done, ReturnsValue, HasValue, Current
  <2> QED  BY <2>1, <2>2 DEF Invariant
<1> QED  BY <1>3, <1>4, <1>5, <1>6, <1>7, <1>8, <1>9, <1>10, <1>11, <1>12, <1>13, <1>14, <1>15,
            <1>16, <1>17, <1>18, <1>19, <1>20 DEF Next, Desugar, Execute

(* The invariant holds throughout, in functions of every shape. *)
THEOREM Inductive == Spec => []Invariant
<1>1. Init => Invariant
  BY Begins
<1> QED  BY <1>1, Preserved, PTL DEF Spec

LEMMA InvariantTypes == Invariant => TypeOK
<1> SUFFICES ASSUME Invariant PROVE TypeOK
  OBVIOUS
<1>1. Typed
  BY DEF Invariant
<1>2. run.pc <= Len(out) + 1
  <2>1. Len(out) \in Nat
    BY <1>1 DEF Typed
  <2>2. CASE phase \in {"body", "rejected"}
    <3>1. run.pc = 1
      BY <2>2 DEF Invariant, Fresh
    <3> QED  BY <2>1, <3>1
  <2>3. CASE phase = "run"
    <3>1. run.pc \in 1 .. Len(out)
      BY <2>3 DEF Invariant, Running, At
    <3> QED  BY <2>1, <3>1
  <2>4. CASE phase = "done"
    <3>1. run.pc \in 1 .. Len(out)
      BY <2>4 DEF Invariant, Done
    <3> QED  BY <2>1, <3>1
  <2> QED  BY <1>1, <2>2, <2>3, <2>4 DEF Typed
<1>3. phase = "run" => run.live # <<>> /\ run.live[1].at = 0
  <2> SUFFICES ASSUME phase = "run" PROVE run.live # <<>> /\ run.live[1].at = 0
    OBVIOUS
  <2>1. PICK ctx \in Seq(Place) : Code(out, ctx, defers) /\ Whole(out, ctx) /\ At(run, out, ctx, defers)
    BY DEF Invariant, Running
  <2> DEFINE c == ctx[run.pc]
  <2>2. /\ c.open # <<>> /\ Len(c.open) \in Nat /\ Len(c.open) >= 1
        /\ Runs(run, c, Current, defers) /\ Encloses(out, ctx, c.open, run.pc)
    BY <1>1, <2>1, Now DEF Typed
  <2>3. Len(run.live) = Len(c.open) /\ \A k \in 1 .. Len(c.open) : run.live[k].at = c.open[k].at
    BY <2>2 DEF Runs, Lives
  <2>4. c.open[1].at = 0
    BY <2>2 DEF Encloses
  <2>5. 1 \in 1 .. Len(c.open) /\ Len(<<>>) = 0
    BY <2>2
  <2> HIDE DEF c
  <2> QED  BY <2>2, <2>3, <2>4, <2>5
<1> QED  BY <1>1, <1>2, <1>3 DEF Typed, TypeOK

\* The calls made are those that were due and some of those being left.
LEMMA MadeAsDue ==
    ASSUME Invariant, Faithful
    PROVE  /\ run.due \in Seq(Owed)
           /\ \E s \in Seq(Owed) : run.ran = run.due \o s
           /\ ~MidExit => run.ran = run.due
<1>1. run \in Machine /\ out \in Seq(Instr)
  BY DEF Invariant, Typed
<1>2. run.due \in Seq(Owed)
  BY <1>1, MachineParts
<1>3. CASE run.ran = run.due
  <2>1. run.ran = run.due \o <<>> /\ <<>> \in Seq(Owed)
    BY <1>2, <1>3
  <2> QED  BY <1>2, <1>3, <2>1
<1>4. CASE phase \in {"body", "rejected"}
  <2>1. run.ran = run.due
    BY <1>4 DEF Invariant, Fresh
  <2> QED  BY <1>3, <2>1
<1>5. CASE phase = "done"
  <2>1. run.ran = run.due
    BY <1>5 DEF Invariant, Done
  <2> QED  BY <1>3, <2>1
<1>6. CASE phase = "run"
  <2>1. PICK ctx \in Seq(Place) : Code(out, ctx, defers) /\ Whole(out, ctx) /\ At(run, out, ctx, defers)
    BY <1>6 DEF Invariant, Running
  <2> DEFINE c == ctx[run.pc]
  <2>2. /\ c \in Place /\ c.made \in Nat /\ c.open \in Seq(Frame) /\ c.open # <<>>
        /\ Runs(run, c, Current, defers)
        /\ run.pc \in 1 .. Len(out) /\ Len(c.open) \in Nat /\ Fits(Current, c, defers)
    BY <1>1, <2>1, Now
  <2>3. CASE c.made = 0
    <3>1. run.ran = run.due
      BY <1>1, <2>2, <2>3, RanDue
    <3> QED  BY <1>3, <3>1
  <2>4. CASE c.made # 0
    <3> DEFINE q == run.pc - 1
               F == Flat(c.open, 1)
    <3>1. q \in 1 .. Len(out) /\ q + 1 = run.pc /\ run.pc > 1 /\ q \in Nat /\ q \in 1 .. Len(out) + 1
      <4>1. ctx[1] = Start
        BY <2>1 DEF Code, Placed
      <4>2. run.pc # 1
        BY <2>4, <4>1, StartFlat
      <4>3. Len(out) \in Nat /\ run.pc \in 1 .. Len(out)
        BY <1>1, <2>2
      <4>4. \A n \in Nat : \A p \in 1 .. n : p # 1 =>
               p - 1 \in 1 .. n /\ (p - 1) + 1 = p /\ p > 1 /\ p - 1 \in Nat /\ p - 1 \in 1 .. n + 1
        OBVIOUS
      <4> QED  BY <4>2, <4>3, <4>4
    <3> HIDE DEF q
    <3>2. c = After(q, out[q], ctx[q]) /\ Fits(out[q], ctx[q], defers)
      BY <2>1, <3>1 DEF Code, Placed
    <3> HIDE DEF c
    <3>3. out[q].op = "call" /\ c.made = ctx[q].made + 1
      BY <2>4, <3>2 DEF After
    <3>4. MidExit
      BY <1>6, <3>1, <3>3 DEF MidExit, q
    <3>5. c.made \in 1 .. Len(F)
      <4>1. out[q] \in Instr /\ ctx[q].open \in Seq(Frame) /\ ctx[q].open # <<>>
        BY <1>1, <2>1, <3>1, PlaceOf, ElementOfSeq
      <4>2. OpenAfter(q, out[q], ctx[q].open) = ctx[q].open
        <5>1. out[q].op \notin AllKinds \cup {"close", "let"}
          BY <3>3, OpKinds
        <5> QED  BY <3>1, <4>1, <5>1, AfterOpen
      <4>3. c.open = ctx[q].open
        BY <3>2, <4>2 DEF After
      <4>4. ctx[q].made + 1 \in 1 .. Len(Flat(ctx[q].open, 1))
        BY <3>2, <3>3 DEF Fits, FitsCall
      <4> QED  BY <3>3, <4>3, <4>4
    <3> HIDE DEF F
    <3>6. Due(run.live, 1) \in Seq(Owed) /\ Len(Due(run.live, 1)) = Len(F)
      <4>1. Lives(run.live, c.open, run.lets) /\ run.live \in Seq(Life)
        BY <1>1, <2>2, MachineParts DEF Runs
      <4>2. 1 \in 1 .. Len(c.open) + 1
        BY <2>2
      <4> QED  BY <2>2, <4>1, <4>2, LivesOwe DEF F
    <3> DEFINE s == SubSeq(Reverse(Due(run.live, 1)), 1, c.made)
    <3>7. run.ran = run.due \o s
      BY <2>2 DEF Runs
    <3>8. s \in Seq(Owed)
      <4> DEFINE e == Reverse(Due(run.live, 1))
      <4>1. e \in Seq(Owed) /\ Len(e) = Len(F) /\ Len(e) \in Nat
        BY <3>6, Reversed
      <4> HIDE DEF e
      <4>2. \A m \in 1 .. Len(e) : SubSeq(e, 1, m) \in Seq(Owed)
        BY <4>1
      <4> QED  BY <3>5, <4>1, <4>2 DEF e
    <3> HIDE DEF s
    <3> QED  BY <1>2, <3>4, <3>7, <3>8
  <2> QED  BY <2>3, <2>4
<1> QED  BY <1>1, <1>4, <1>5, <1>6 DEF Invariant, Typed

LEMMA InvariantMakes ==
    ASSUME Invariant, Faithful
    PROVE  RunsOnExit /\ KeepsArguments
<1>1. PICK s \in Seq(Owed) : run.ran = run.due \o s
  BY MadeAsDue
<1>2. run.due \in Seq(Owed) /\ (~MidExit => run.ran = run.due)
  BY MadeAsDue
<1> DEFINE d == run.due
           r == run.ran
<1>3. /\ Len(d) \in Nat /\ Len(r) \in Nat /\ Len(d) <= Len(r) /\ r \in Seq(Owed)
      /\ \A k \in 1 .. Len(d) : r[k] = d[k]
      /\ DOMAIN d = 1 .. Len(d)
  BY <1>1, <1>2
<1>4. d \in Seq(Owed)
  BY <1>2
<1>5. IsPrefix(Ids(d), Ids(r))
  <2> HIDE DEF d, r
  <2>1. /\ Ids(d) = [k \in 1 .. Len(d) |-> d[k].defer]
        /\ Ids(r) = [k \in 1 .. Len(r) |-> r[k].defer]
    BY <1>3, <1>4 DEF Ids
  <2>2. \A k \in 1 .. Len(r) : r[k].defer \in Nat
    <3> SUFFICES ASSUME NEW k \in 1 .. Len(r) PROVE r[k].defer \in Nat
      OBVIOUS
    <3>1. r[k] \in Owed
      BY <1>3, ElementOfSeq
    <3> QED  BY <3>1 DEF Owed
  <2>3. Ids(r) \in Seq(Nat) /\ Len(Ids(r)) = Len(r)
    BY <1>3, <2>1, <2>2
  <2>4. \A k \in 1 .. Len(d) : k \in 1 .. Len(r) /\ d[k].defer = r[k].defer
    BY <1>3
  <2>5. Ids(d) \in Seq(Nat) /\ Len(Ids(d)) = Len(d)
    BY <1>3, <2>1, <2>2, <2>4
  <2>6. \A k \in 1 .. Len(d) : Ids(d)[k] = Ids(r)[k]
    BY <2>1, <2>4
  <2>7. SubSeq(Ids(d), 1, Len(d)) = SubSeq(Ids(r), 1, Len(d))
    BY <1>3, <2>3, <2>5, <2>6, SamePrefix
  <2> QED  BY <1>3, <2>3, <2>5, <2>7 DEF IsPrefix
<1>6. RunsOnExit
  BY <1>2, <1>5 DEF RunsOnExit
<1>7. KeepsArguments
  BY <1>3 DEF KeepsArguments
<1> QED  BY <1>6, <1>7

(* The state is typed, and a run is in bodies the code opened, in functions  *)
(* of every shape.                                                           *)
THEOREM TypeCorrect == Spec => []TypeOK
BY Inductive, InvariantTypes, PTL

(* Deferred calls run on every exit, once for each defer statement passed,   *)
(* last registered first, unless the function has one of the two shapes the  *)
(* desugarer loses calls in: a return in a loop body, and a jump out of a    *)
(* body it does not enter.  (emitDefers and its callers)                     *)
THEOREM MakesWhatIsDue ==
    ASSUME "loop-return" \notin Shapes, "hidden-exit" \notin Shapes
    PROVE  Spec => []RunsOnExit
<1>1. Invariant => RunsOnExit
  BY InvariantMakes DEF Faithful
<1> QED  BY <1>1, Inductive, PTL

(* Every call is made with the argument it had at the defer statement, in    *)
(* the same functions.  (snapshotCall)                                       *)
THEOREM MakesAsRegistered ==
    ASSUME "loop-return" \notin Shapes, "hidden-exit" \notin Shapes
    PROVE  Spec => []KeepsArguments
<1>1. Invariant => KeepsArguments
  BY InvariantMakes DEF Faithful
<1> QED  BY <1>1, Inductive, PTL

(* A function returns what its return expression was worth before the calls, *)
(* unless it returns a variable a call may write or ends in a value          *)
(* expression behind defers.  (processBlock on a return statement)           *)
THEOREM ReturnsAsEvaluated ==
    ASSUME "tail" \notin Shapes, "name" \notin Shapes
    PROVE  Spec => []ReturnsValue
<1>1. Invariant => ReturnsValue
  <2>1. ASSUME Invariant, phase = "done" PROVE ReturnsValue
    BY <2>1 DEF Invariant, Done
  <2>2. ASSUME phase # "done" PROVE ReturnsValue
    BY <2>2 DEF ReturnsValue
  <2> QED  BY <2>1, <2>2
<1> QED  BY <1>1, Inductive, PTL
=============================================================================
