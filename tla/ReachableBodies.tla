--------------------------- MODULE ReachableBodies ---------------------------
(***************************************************************************)
(* Which imported functions a filtered test build keeps with their bodies. *)
(*                                                                         *)
(* A build indexes the modules it has, walks the bodies it has, and        *)
(* parses the bodies and finds the modules that the walks turn out to      *)
(* need: plugin_reachability.zig is the walk, plugin_import_expand.zig     *)
(* the loop around it and the plan cache that lets a later build skip it.  *)
(* Between builds the sources are edited.                                  *)
(*                                                                         *)
(* Functions have a plain symbol and an alias `namespace__name`, methods   *)
(* one symbol and a bare name that call sites use.  One macro stands for   *)
(* those of contract files: a call of it calls what it expands to.         *)
(***************************************************************************)
EXTENDS Naturals, Sequences, FiniteSets, SequencesExt

CONSTANTS
    Root,       \* the root source: its selected test, and what it imports
    Mods,       \* the SLA modules
    Imports,    \* the modules that the root and each module import
    Funcs,      \* the top-level functions of the modules
    Methods,    \* the methods of types the modules declare
    Home,       \* the module of each
    Bare,       \* the bare name of each method
    Macro,      \* the macro
    Importers,  \* who may import its contract file: the root or a module
    Programs,   \* the sources: the calls in each body, the callees of the macro
    Allowed,    \* what may happen beyond the ordinary, see below
    MaxBuilds,  \* bound on the builds
    MaxEdits    \* bound on the edits between them

(*   export    in a build that looks for modules lazily, a module that is    *)
(*             not imported by the root gains a function                     *)
(*   contract  the macro of a contract file of the root gets other callees   *)
(*   late      a plan is used by a program whose macro comes from a module's *)
(*             contract and calls functions                                  *)
(*   cut       the process dies while it writes a plan longer than a buffer  *)
AllAllowed == {"export", "contract", "late", "cut"}

Names  == Funcs \cup Methods
Units  == Names \cup {Root, Macro}
Spoken == {Bare[m] : m \in Methods}      \* the names methods are called by
Calls  == ({"bare"} \X (Funcs \cup Spoken \cup {Macro})) \cup ({"qualified"} \X Funcs)

Symbols == ({"plain"} \X Names) \cup ({"alias"} \X Funcs)
Callers == Symbols \cup {Root}
Absent  == {<<"absent">>}               \* in place of the calls of a function not declared
Expand  == <<"bare", Macro>>             \* a call of the macro

ASSUME ReachAssumption ==
    /\ Imports \in [Mods \cup {Root} -> SUBSET Mods]
    /\ Home \in [Names -> Mods]
    /\ Importers \subseteq Mods \cup {Root}
    /\ Programs \subseteq [Units -> (SUBSET Calls) \cup (SUBSET Funcs) \cup {Absent}]
    /\ \A p \in Programs :
          /\ p[Root] \in SUBSET Calls /\ p[Macro] \in SUBSET Funcs
          /\ \A n \in Names : p[n] \in (SUBSET Calls) \cup {Absent}
    /\ Root \notin Mods \cup Symbols
    /\ Spoken \cap (Names \cup {Macro}) = {}
    /\ {Root, Macro} \cap Names = {}
    /\ Allowed \subseteq AllAllowed
    /\ MaxBuilds \in Nat /\ MaxEdits \in Nat
    /\ IsFiniteSet(Funcs) /\ IsFiniteSet(Methods)

VARIABLES
    source,     \* the body of each function, of the test and of the macro
    importer,   \* who imports the contract file
    lazy,       \* whether the root is small enough for lazy discovery
    plans,      \* .sla-cache/reachable
    builds,     \* builds begun
    edits,      \* edits made
    pc,         \* "idle", "drain", "contracts", "rebuild", "done"
    mode,       \* "first" and then "session", or "plan"
    ordered,    \* ordered_modules
    reach,      \* reachable
    refs,       \* referenced_types, as far as it holds calls without a declaration
    work,       \* the worklist from worklist_index on
    records,    \* unresolved_callables
    resolved,   \* those marked resolved
    parsed,     \* parsed_function_bodies of all modules
    loaded      \* whether the macro is in imported_macros

files == <<source, importer, lazy, edits>>
sets  == <<reach, refs, work, records>>
vars  == <<files, plans, builds, pc, mode, ordered, sets, resolved, parsed, loaded>>

----------------------------------------------------------------------------
(* The callable index *)

\* The least of the subsets with a property that their intersections keep.
Least(universe, closed(_)) ==
    {x \in universe : \A S \in SUBSET universe : closed(S) => x \in S}

Defined == {n \in Names : source[n] # Absent}
Index(mods) == {s \in Symbols : s[2] \in Defined /\ Home[s[2]] \in mods}

\* A caller known by its alias prefers the alias in its own module.
Target(index, caller, x) ==
    LET own == <<"alias", x>>
    IN  IF /\ own \in index
           /\ caller \in {"alias"} \X Funcs
           /\ Home[caller[2]] = Home[x]
        THEN own
        ELSE <<"plain", x>>

\* Symbols that end in _x: the aliases of a function, the methods of that name.
Candidates(index, x) ==
    {s \in index : s = <<"alias", x>> \/ (s[2] \in Methods /\ Bare[s[2]] = x)}

Direct(index, caller, call) ==
    IF call[1] = "qualified" THEN <<"alias", call[2]>> ELSE Target(index, caller, call[2])

Expansion(known) == IF known THEN source[Macro] ELSE {}

\* The calls of a body that are resolved by name, those of the macro included.
NamedCalls(body, known) ==
    body \cup (IF Expand \in body THEN {"bare"} \X Expansion(known) ELSE {})

Marked(index, known, caller, body) ==
    ({Direct(index, caller, call) : call \in NamedCalls(body, known)} \cap index)
    \cup UNION {Candidates(index, call[2]) : call \in {c \in body : c[1] = "bare"}}

Unresolved(index, known, caller, body) ==
    [kind : {"direct"}, caller : {caller},
     call : {c \in NamedCalls(body, known) : Direct(index, caller, c) \notin index}]
    \cup [kind : {"associated"}, caller : {caller},
          call : {c \in body : c[1] = "bare" /\ Candidates(index, c[2]) = {}}]
    \cup [kind : {"imported_macro"}, caller : {caller},
          call : {c \in body : c = Expand /\ ~known}]

Undeclared(index, body) == {c \in body : Direct(index, Root, c) \notin index}

\* Mutant: methods found later are not looked for.
CanResolveDirect(index, record) == Direct(index, record.caller, record.call) \in index

CanResolve(index, record) ==
    CASE record.kind = "direct" -> Direct(index, record.caller, record.call) \in index
      [] record.kind = "associated" ->
            Candidates(index, record.call[2]) # {} \/ Direct(index, record.caller, record.call) \in index
      [] OTHER -> FALSE

----------------------------------------------------------------------------
(* Walking, parsing, discovering *)

Body(caller) == IF caller = Root THEN source[Root] ELSE source[caller[2]]

\* The bodies of `callers` are walked, with `queue` still to come.
Walk(callers, queue, mods, known) ==
    LET index == Index(mods)
    IN  /\ reach' = reach \cup UNION {Marked(index, known, s, Body(s)) : s \in callers}
        /\ work' = queue \o SetToSeq(reach' \ reach)
        /\ refs' = refs \cup UNION {Undeclared(index, Body(s)) : s \in callers}
        /\ records' = records \cup UNION {Unresolved(index, known, s, Body(s)) : s \in callers}

Selected(symbols, mods) == {s[2] : s \in symbols \cap Index(mods)}
\* Mutant: parsed bodies are parsed again.
NewlyAgain == Selected(reach, ordered)
Newly == Selected(reach, ordered) \ parsed

\* Mutant: the root is queued like any caller.
RescanRootQueued(again, mods, known) ==
    LET callers == {r.caller : r \in again}
    IN  /\ resolved' = resolved \cup again
        /\ Walk({}, SetToSeq(callers \cap (reach \cup {Root})), mods, known)

\* Mutant: only callers on the list are walked again.
RescanReached(again, mods, known) ==
    /\ resolved' = resolved \cup again
    /\ Walk({}, SetToSeq({r.caller : r \in again} \cap reach), mods, known)

\* The callers of records that have become resolvable are walked again.
Rescan(again, mods, known) ==
    LET callers == {r.caller : r \in again}
    IN  /\ resolved' = resolved \cup again
        /\ Walk(callers \cap {Root}, SetToSeq((callers \cap reach) \ {Root}), mods, known)

Wanted(open, m) ==
    LET own == {n \in Names : Home[n] = m}
    IN  \/ \E n \in own : <<"alias", n>> \in reach \/ <<"qualified", n>> \in refs
        \/ \E n \in own \cap Defined :
              \/ <<"plain", n>> \in reach \/ <<"bare", n>> \in refs
              \/ \E r \in open : /\ r.kind = "direct"
                                 /\ r.call = <<"bare", n>>
              \/ \E r \in open : /\ r.kind = "associated"
                                 /\ n \in Methods
                                 /\ r.call = <<"bare", Bare[n]>>

\* Children of modules found in the same call are looked at as well.
Grown(open) ==
    LET wanted == {m \in Mods : Wanted(open, m)}
        Closed(mods) == ordered \subseteq mods /\ \A p \in mods : Imports[p] \cap wanted \subseteq mods
    IN  Least(Mods, Closed)

----------------------------------------------------------------------------
(* Plans *)

AllImported ==
    LET Closed(mods) == \A p \in mods \cup {Root} : Imports[p] \subseteq mods
    IN  Least(Mods, Closed)

FirstModules == IF lazy THEN Imports[Root] ELSE AllImported

\* Mutant: the texts of the modules are not in the key.
KeyByPath(mods) == [lazy |-> lazy, root |-> source[Root], modules |-> mods]

\* What the name of the plan file is a hash of.
Key(mods) ==
    [lazy |-> lazy, root |-> source[Root], modules |-> mods,
     texts |-> [n \in {x \in Names : Home[x] \in mods} |-> source[n]]]

Usable(mods) == {p \in plans : p.key = Key(mods) /\ p.reach # {}}

\* The file is truncated and written again.
Written(r, t) ==
    {p \in plans : p.key # Key(ordered)} \cup {[key |-> Key(ordered), reach |-> r, refs |-> t]}

----------------------------------------------------------------------------
Init ==
    /\ source \in Programs
    /\ importer \in Importers
    /\ lazy \in BOOLEAN
    /\ plans = {} /\ builds = 0 /\ edits = 0
    /\ pc = "idle" /\ mode = "first" /\ ordered = {} /\ parsed = {} /\ loaded = FALSE
    /\ reach = {} /\ refs = {} /\ work = <<>> /\ records = {} /\ resolved = {}

\* The build's process is gone.
End ==
    /\ pc' = "idle" /\ mode' = "first" /\ ordered' = {} /\ parsed' = {} /\ loaded' = FALSE
    /\ reach' = {} /\ refs' = {} /\ work' = <<>> /\ records' = {} /\ resolved' = {}

Begin ==
    /\ pc = "idle" /\ builds < MaxBuilds
    /\ builds' = builds + 1
    /\ ordered' = FirstModules
    /\ loaded' = (importer = Root)
    /\ UNCHANGED <<files, plans, resolved>>

\* No plan: a session starts from the test.
BeginCold ==
    /\ Begin
    /\ Usable(FirstModules) = {}
    /\ pc' = "drain" /\ mode' = "first"
    /\ Walk({Root}, <<>>, FirstModules, importer = Root)
    /\ UNCHANGED parsed

\* A plan: its bodies are parsed and nothing is walked.
BeginPlanned ==
    /\ Begin
    /\ pc' = "contracts" /\ mode' = "plan"
    /\ \E p \in Usable(FirstModules) :
          /\ Expand \in p.refs /\ importer # Root => source[Macro] = {} \/ "late" \in Allowed
          /\ reach' = p.reach /\ refs' = p.refs
          /\ parsed' = Selected(p.reach, FirstModules)
    /\ UNCHANGED <<work, records>>

Drain ==
    /\ pc = "drain" /\ work # <<>>
    /\ LET s == Head(work)
       IN  Walk(IF s[2] \in parsed THEN {s} ELSE {}, Tail(work), ordered, loaded)
    /\ UNCHANGED <<files, plans, builds, pc, mode, ordered, resolved, parsed, loaded>>

Drained == pc = "drain" /\ work = <<>>

Materialize ==
    /\ Drained /\ mode # "plan" /\ Newly # {}
    /\ parsed' = parsed \cup Newly
    /\ work' = SetToSeq({s \in reach : s[2] \in parsed' \ parsed})
    /\ UNCHANGED <<files, plans, builds, pc, mode, ordered, reach, refs, records, resolved, loaded>>

Settled == Drained /\ mode # "plan" /\ Newly = {}

Discover ==
    /\ Settled /\ lazy
    /\ ordered' = Grown(records \ resolved)
    /\ ordered' # ordered
    /\ Rescan({r \in records \ resolved : CanResolve(Index(ordered'), r)}, ordered', loaded)
    /\ UNCHANGED <<files, plans, builds, pc, mode, parsed, loaded>>

Advanced == Settled /\ (lazy => Grown(records \ resolved) = ordered)

\* The plan is stored once, before the contract files of modules are loaded.
Store ==
    /\ Advanced /\ mode = "first"
    /\ plans' = Written(reach, refs)
    /\ mode' = "session" /\ pc' = "contracts"
    /\ UNCHANGED <<files, builds, ordered, sets, resolved, parsed, loaded>>

Advance ==
    /\ Advanced /\ mode = "session"
    /\ pc' = "contracts"
    /\ UNCHANGED <<files, plans, builds, mode, ordered, sets, resolved, parsed, loaded>>

Missing == ~loaded /\ importer \in ordered /\ Expand \in refs

LoadContract ==
    /\ pc = "contracts" /\ mode = "session" /\ Missing
    /\ loaded' = TRUE
    /\ pc' = "drain"
    /\ Rescan({r \in records \ resolved : r.kind = "imported_macro"}, ordered, TRUE)
    /\ UNCHANGED <<files, plans, builds, mode, ordered, parsed>>

\* After a plan there is no session to refresh.
LoadContractPlanned ==
    /\ pc = "contracts" /\ mode = "plan" /\ Missing
    /\ loaded' = TRUE
    /\ pc' = "rebuild"
    /\ UNCHANGED <<files, plans, builds, mode, ordered, sets, resolved, parsed>>

Rebuild ==
    /\ pc = "rebuild"
    /\ pc' = "drain"
    /\ Walk({Root}, <<>>, ordered, loaded)
    /\ UNCHANGED <<files, plans, builds, mode, ordered, resolved, parsed, loaded>>

Rebuilt ==
    /\ Drained /\ mode = "plan"
    /\ ordered' = IF lazy THEN Grown({}) ELSE ordered
    /\ IF ordered' = ordered
       THEN pc' = "contracts" /\ UNCHANGED <<reach, refs>>
       ELSE pc' = "rebuild" /\ reach' = {} /\ refs' = {}
    /\ records' = {}
    /\ UNCHANGED <<files, plans, builds, mode, work, resolved, parsed, loaded>>

Finish ==
    /\ pc = "contracts" /\ ~Missing
    /\ pc' = "done"
    /\ UNCHANGED <<files, plans, builds, mode, ordered, sets, resolved, parsed, loaded>>

Return ==
    /\ pc = "done"
    /\ End
    /\ UNCHANGED <<files, plans, builds>>

\* Killed while it stores: the file is there, and short plans are still in the
\* writer's buffer.
Cut ==
    /\ Advanced /\ mode = "first"
    /\ \E part \in SUBSET reach :
          /\ part # {} => "cut" \in Allowed
          /\ plans' = Written(part, {})
    /\ End
    /\ UNCHANGED <<files, builds>>

Versions == [u \in Units |-> {p[u] : p \in Programs}]

Edit(u) ==
    /\ pc = "idle" /\ builds \in 1..(MaxBuilds - 1) /\ edits < MaxEdits
    /\ edits' = edits + 1
    /\ \E b \in Versions[u] \ {source[u]} :
          /\ lazy /\ u \in Names /\ source[u] = Absent =>
                Home[u] \in Imports[Root] \/ "export" \in Allowed
          /\ u = Macro => importer # Root \/ "contract" \in Allowed
          /\ source' = [source EXCEPT ![u] = b]
    /\ UNCHANGED <<importer, lazy, plans, builds, pc, mode, ordered, sets, resolved, parsed, loaded>>

Build ==
    \/ Drain \/ Materialize \/ Discover \/ Store \/ Advance
    \/ LoadContract \/ LoadContractPlanned \/ Rebuild \/ Rebuilt \/ Finish

Next ==
    \/ BeginCold \/ BeginPlanned \/ Build \/ Return \/ Cut
    \/ \E u \in Units : Edit(u)

\* A build runs until it is done; nobody has to start one or to edit.
Spec == Init /\ [][Next]_vars /\ WF_vars(Build)

----------------------------------------------------------------------------
(* What a build must keep *)

\* What a name or the test calls, when the names in `needed` are needed.  A
\* method that others share the name with can be meant only if its module is
\* in play; the macro can be used only if the importer of its contract is.
Uses(u, needed) ==
    LET play   == FirstModules \cup {Home[n] : n \in needed}
        direct == {call[2] : call \in source[u]}
        meant  == {m \in Methods \cap Defined :
                      /\ Bare[m] \in direct
                      /\ \/ Home[m] \in play
                         \/ \A k \in Methods \cap Defined : Bare[k] = Bare[m] => k = m}
        within == IF Macro \in direct /\ importer \in play \cup {Root}
                  THEN source[Macro] ELSE {}
    IN  ((direct \cup within) \cap Defined) \cup meant

Needed ==
    LET Closed(needed) == \A u \in needed \cup {Root} : Uses(u, needed) \subseteq needed
    IN  Least(Defined, Closed)

\* Sets of symbols that hold all that is called, with these modules and bodies.
Holds(symbols, mods, known) ==
    \A s \in symbols \cup {Root} : Marked(Index(mods), known, s, Body(s)) \subseteq symbols

----------------------------------------------------------------------------
(* Properties *)

\* The sets of a build stay what the code takes them for.
TypeOK ==
    /\ \A u \in Units : source[u] \in Versions[u]
    /\ importer \in Importers /\ lazy \in BOOLEAN
    /\ builds \in 0..MaxBuilds /\ edits \in 0..MaxEdits
    /\ pc \in {"idle", "drain", "contracts", "rebuild", "done"}
    /\ mode \in {"first", "session", "plan"}
    /\ ordered \subseteq Mods
    /\ reach \subseteq Symbols /\ refs \subseteq Calls
    /\ work \in Seq(reach)
    /\ resolved \subseteq records
    /\ records \subseteq [kind : {"direct", "associated", "imported_macro"},
                          caller : reach \cup {Root}, call : Calls]
    /\ parsed \subseteq Names
    /\ loaded \in BOOLEAN
    /\ \A p \in plans : p.reach \subseteq Symbols /\ p.refs \subseteq Calls

\* A finished build keeps every function the test needs, with its body: also
\* those whose module, body or macro was found while walking, and also when it
\* took a plan over from a build of earlier sources.
Complete ==
    pc = "done" => Needed \subseteq Selected(reach, ordered) \cap parsed

\* Within a session no call is ever dropped: a body that was walked has marked
\* whatever it calls that is indexed, and holds an open record of the rest, so
\* that the module or macro that brings it will find the caller.
NothingLost ==
    pc # "idle" /\ mode # "plan" =>
        \A s \in {x \in reach : x[2] \in parsed} \cup {Root} :
            \/ s \in Range(work)
            \/ /\ Marked(Index(ordered), loaded, s, Body(s)) \subseteq reach
               /\ Unresolved(Index(ordered), loaded, s, Body(s)) \subseteq records \ resolved

\* The incremental session, and the plan, end where a walk from scratch over
\* the modules found would: what each new module or macro means to the bodies
\* walked before it is not lost, and nothing outlives the edit of its caller.
Exact ==
    pc = "done" =>
        /\ parsed = Selected(reach, ordered)
        /\ Holds(reach, ordered, loaded)
        /\ \A less \in SUBSET reach : Holds(less, ordered, loaded) => less = reach

\* Parsing, walking and discovering feed each other, and come to an end.
Terminates == (pc # "idle") ~> (pc \in {"done", "idle"})
=============================================================================
