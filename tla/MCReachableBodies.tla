------------------------- MODULE MCReachableBodies -------------------------
(* ReachableBodies on a root that imports A and B; A imports C, C imports D, *)
(* and B and D import A.  Functions a and a2 are A's, c is C's and d is D's; *)
(* `j` of A and `k` of C are methods that call sites call `run`.             *)
EXTENDS ReachableBodies

CONSTANTS A, B, C, D, a, a2, c, d, j, k

MCImports == [m \in Mods \cup {Root} |->
    CASE m = Root -> {A, B} [] m = A -> {C} [] m = C -> {D} [] OTHER -> {A}]
MCHome == [n \in Names |->
    CASE n \in {a, a2, j} -> A [] n \in {c, k} -> C [] OTHER -> D]
MCBare == [m \in Methods |-> "run"]

bare(x) == <<"bare", x>>
qual(x) == <<"qualified", x>>
expand  == bare(Macro)

Product(test, ofA, ofA2, ofC, ofD, macro) ==
    {[u \in Units |->
        CASE u = Root -> p[1] [] u = a -> p[2] [] u = a2 -> p[3] [] u = c -> p[4]
          [] u = d -> p[5] [] u = Macro -> p[6] [] u = k -> {bare(d)} [] OTHER -> {}] :
     p \in test \X ofA \X ofA2 \X ofC \X ofD \X macro}

(* Calls inside a module, into the next one, of the method and of the macro, *)
(* recursion across modules, and a c that is not declared yet.               *)
Ordinary == Product({{bare(a)}, {qual(a), expand}, {bare(a), bare("run")}},
                    {{qual(c)}, {bare(a2), bare(c)}, {expand}},
                    {{}, {bare("run")}},
                    {{bare(d)}, {bare(a2), expand}, Absent},
                    {{bare(a)}},
                    {{a2}, {c}, {}})

(* The test calls a function of a module two imports away.                   *)
Far == Product({{bare(a), bare(d)}}, {{}, {qual(c)}}, {{}, {bare("run")}}, {{}, {bare(d)}},
               {{}, {bare(a2)}}, {{}})
=============================================================================
