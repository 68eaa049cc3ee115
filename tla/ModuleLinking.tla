---------------------------- MODULE ModuleLinking ----------------------------
(***************************************************************************)
(* Loading and linking a module graph: run_module up to the evaluation of  *)
(* the entry (crates/js-engine/src/pipeline.rs), over the metadata that    *)
(* crates/js-engine/src/module.rs extracts from each module.               *)
(*                                                                         *)
(* A module identity (canonical URL and type) is one element of Modules;   *)
(* the loader fails on the elements of Missing, which stand for everything *)
(* that makes load_module_graph fail before it publishes a record: no such *)
(* file, invalid JSON, a syntax error.  load_module_graph and link_module  *)
(* are recursive, "stack" is their call stack.  Name resolution makes no   *)
(* observable step and is a recursive function.                            *)
(*                                                                         *)
(* A binding cell is named by what it ultimately is, since an indirect     *)
(* import cell is a view that never changes its target.                    *)
(***************************************************************************)
EXTENDS Integers, Sequences, FiniteSets, SequencesExt

CONSTANTS
    Modules,      \* module identities
    Entry,        \* the identity passed to run_module
    Missing,      \* identities that cannot be loaded
    Names,        \* export names, "default" among them
    Slots,        \* binding slots of a module environment
    Programs,     \* the metadata of every module, for each program considered
    Unresolved    \* DynamicResolution::Unresolved

(* ImportEntry and ExportEntry.  An import binds a slot to an export of     *)
(* "from", or to its namespace, its deferred namespace or its source.      *)
Imports == [kind : {"name"}, from : Modules, imported : Names, slot : Slots]
           \cup [kind : {"namespace", "deferred", "source"}, from : Modules, slot : Slots]

Exports == [kind : {"local"}, exported : Names, slot : Slots]
           \cup [kind : {"indirect"}, exported : Names, from : Modules, imported : Names]
           \cup [kind : {"namespace"}, exported : Names, from : Modules]
           \cup [kind : {"star"}, from : Modules]

Metadata == [requests : Seq(Modules), dynamic : Seq(Modules),
             imports : Seq(Imports), exports : Seq(Exports)]

(* analyze_module pushes the request of every import and every re-export;   *)
(* no two imports of a module have the same local name.                    *)
Requested(x) == ToSet(x.requests)
WellFormed(x) ==
    /\ \A i, j \in DOMAIN x.imports : x.imports[i].slot = x.imports[j].slot => i = j
    /\ \A i \in DOMAIN x.imports : x.imports[i].from \in Requested(x)
    /\ \A i \in DOMAIN x.exports :
          x.exports[i].kind # "local" => x.exports[i].from \in Requested(x)

ASSUME LinkingAssumption ==
    /\ IsFiniteSet(Modules) /\ IsFiniteSet(Names)
    /\ Missing \subseteq Modules
    /\ Entry \in Modules \ Missing
    /\ Unresolved \notin Modules
    /\ Programs \subseteq [Modules -> Metadata]
    /\ \A p \in Programs : \A m \in Modules : WellFormed(p[m])

VARIABLES
    code,         \* the metadata of the modules
    records,      \* ModuleGraph::modules, in the order of publication
    deps,         \* RuntimeModule::dependencies: the requests resolved so far
    dynamic,      \* RuntimeModule::dynamic_dependencies
    status,       \* RuntimeModule::status
    env,          \* RuntimeModule::environment: the cell in each slot
    namespaces,   \* the bindings of each module namespace object
    stack,        \* the calls of load_module_graph or link_module in progress
    phase,        \* what run_module is doing
    outcome       \* what run_module returned, before any evaluation

graphVars == <<code, records, deps, dynamic>>
linkVars  == <<status, env, namespaces>>
ending    == <<phase, outcome>>
vars      == <<graphVars, linkVars, stack, ending>>

-----------------------------------------------------------------------------
Statuses == {"Unlinked", "Linking", "Linked", "Errored"}
Outcomes == {"running", "ok", "loadError", "linkError", "panic"}

(* "deferred" is the fresh cell that each deferred import gets.            *)
Cells == ({"slot", "deferred"} \X Modules \X Slots)
         \cup ({"namespace", "source"} \X Modules)

(* What a resolution can be besides a cell: Ok(None), Err(ambiguous), and   *)
(* the panic of indexing "dependencies" with a request that is not there.  *)
NotFound  == <<"notFound">>
Ambiguous == <<"ambiguous">>
Panic     == <<"panic">>

Frames == [op : {"load", "link"}, mod : Modules,
           todo : Seq(Modules), dynamic : Seq(Modules)]

LoadFrame(m) == [op |-> "load", mod |-> m, todo |-> code[m].requests,
                 dynamic |-> code[m].dynamic]

(* Mutants: dependencies are not linked first; the last request is dropped.  *)
LinkAlone(m) == [op |-> "link", mod |-> m, todo |-> <<>>, dynamic |-> <<>>]

LinkAllButLast(m) ==
    [op |-> "link", mod |-> m, dynamic |-> <<>>,
     todo |-> IF code[m].requests = <<>> THEN <<>> ELSE Front(code[m].requests)]

LinkFrame(m) == [op |-> "link", mod |-> m, todo |-> code[m].requests, dynamic |-> <<>>]

Idle        == stack = <<>>
Top         == Last(stack)
Running(op) == ~Idle /\ Top.op = op
Recorded    == ToSet(records)

(* What can be reached from the members of S, when the successors of x are  *)
(* next[x]: as many steps as there are elements are enough.                *)
Closure(S, next) ==
    LET steps == Cardinality(DOMAIN next)
        reached[k \in 0 .. steps] ==
          IF k = 0 THEN S
          ELSE LET before == reached[k - 1]
               IN  before \cup UNION {next[x] : x \in before}
    IN  reached[steps]

EndWith(result) == phase' = "end" /\ outcome' = result

-----------------------------------------------------------------------------
(* load_module_graph                                                       *)

(* The request a call is waiting for: the static requests come first.      *)
Awaiting(f) == IF f.todo # <<>> THEN Head(f.todo) ELSE Head(f.dynamic)
HasRequest  == Running("load") /\ (Top.todo # <<>> \/ Top.dynamic # <<>>)

(* Ok(d) is returned to the last call of "calls".                          *)
Deliver(d, calls) ==
    LET f == Last(calls) IN
    \/ /\ f.todo # <<>>
       /\ deps' = [deps EXCEPT ![f.mod] = @ \cup {d}]
       /\ stack' = Append(Front(calls), [f EXCEPT !.todo = Tail(@)])
       /\ UNCHANGED dynamic
    \/ /\ f.todo = <<>>
       /\ dynamic' = [dynamic EXCEPT ![f.mod] = Append(@, d)]
       /\ stack' = Append(Front(calls), [f EXCEPT !.dynamic = Tail(@)])
       /\ UNCHANGED deps

(* A record that is in the graph is returned as it is, complete or not.    *)
FindRecord ==
    /\ HasRequest /\ Awaiting(Top) \in Recorded
    /\ Deliver(Awaiting(Top), stack)
    /\ UNCHANGED <<code, records, linkVars, ending>>

(* The record is published before its own requests are resolved.           *)
LoadRecord ==
    /\ HasRequest
    /\ LET d == Awaiting(Top) IN
         /\ d \notin Recorded \cup Missing
         /\ records' = Append(records, d)
         /\ stack' = Append(stack, LoadFrame(d))
    /\ UNCHANGED <<code, deps, dynamic, linkVars, ending>>

LoadReturns ==
    /\ Running("load") /\ Top.todo = <<>> /\ Top.dynamic = <<>>
    /\ \/ /\ Len(stack) > 1
          /\ Deliver(Top.mod, Front(stack))
          /\ UNCHANGED ending
       \/ /\ Len(stack) = 1
          /\ stack' = <<>>
          /\ phase' = "link"
          /\ UNCHANGED <<deps, dynamic, outcome>>
    /\ UNCHANGED <<code, records, linkVars>>

(* An error goes up through every call that loads a static request, to the  *)
(* innermost one that loads a dynamic request; the records published on the *)
(* way stay in the graph with the dependencies they have.                  *)
CatchingCalls == {i \in 1 .. Len(stack) : stack[i].todo = <<>>}

(* Mutants: the failed request leaves no entry; it is tried again; its       *)
(* incomplete record is taken for the answer.                               *)
CatchAsResolved(f) ==
    /\ dynamic' = [dynamic EXCEPT ![f.mod] = Append(@,
                      IF Head(f.dynamic) \in Recorded THEN Head(f.dynamic) ELSE Unresolved)]
    /\ \E i \in {j \in CatchingCalls : stack[j] = f} :
          stack' = Append(SubSeq(stack, 1, i - 1), [f EXCEPT !.dynamic = Tail(@)])

CatchWithoutEntry(f) ==
    /\ UNCHANGED dynamic
    /\ \E i \in {j \in CatchingCalls : stack[j] = f} :
          stack' = Append(SubSeq(stack, 1, i - 1), [f EXCEPT !.dynamic = Tail(@)])

CatchAndRetry(f) ==
    /\ UNCHANGED dynamic
    /\ \E i \in {j \in CatchingCalls : stack[j] = f} : stack' = SubSeq(stack, 1, i)

CatchLoadError(f) ==
    /\ dynamic' = [dynamic EXCEPT ![f.mod] = Append(@, Unresolved)]
    /\ \E i \in {j \in CatchingCalls : stack[j] = f} :
          stack' = Append(SubSeq(stack, 1, i - 1), [f EXCEPT !.dynamic = Tail(@)])

LoadFails ==
    /\ HasRequest /\ Awaiting(Top) \in Missing
    /\ \/ /\ CatchingCalls = {}
          /\ stack' = <<>>
          /\ EndWith("loadError")
          /\ UNCHANGED dynamic
       \/ /\ CatchingCalls # {}
          /\ CatchLoadError(stack[Max(CatchingCalls)])
          /\ UNCHANGED ending
    /\ UNCHANGED <<code, records, deps, linkVars>>

-----------------------------------------------------------------------------
(* resolve_export.  The first matching entry decides; without one, the star *)
(* exports are tried in order, and must agree.  "seen" is the resolve set   *)
(* that all the calls of one resolution share.                             *)
Matching(m, n) ==
    {i \in DOMAIN code[m].exports :
        code[m].exports[i].kind # "star" /\ code[m].exports[i].exported = n}

Deciding(m, n) == code[m].exports[Min(Matching(m, n))]

(* Mutant: the first star export that has the name decides.                  *)
FirstStar(sofar, found) ==
    IF found.cell \in {Ambiguous, Panic} THEN found
    ELSE IF sofar.cell = NotFound THEN found
    ELSE [sofar EXCEPT !.seen = found.seen]

Agree(sofar, found) ==
    IF found.cell \in {Ambiguous, Panic} THEN found
    ELSE IF sofar.cell = NotFound THEN found
    ELSE IF found.cell \in {NotFound, sofar.cell} THEN [sofar EXCEPT !.seen = found.seen]
    ELSE [found EXCEPT !.cell = Ambiguous]

(* In these three, answer[s][<<d, i>>] is what a call of resolve_export for   *)
(* the name i of d returns when it finds the resolve set s.                *)
TryStar(m, n, answer, sofar, x) ==
    IF x.kind # "star" \/ sofar.cell \in {Ambiguous, Panic} THEN sofar
    ELSE IF x.from \notin deps[m] THEN [sofar EXCEPT !.cell = Panic]
    ELSE Agree(sofar, answer[sofar.seen][<<x.from, n>>])

TryStars(m, n, answer, first) ==
    LET exports == code[m].exports
        tried[i \in 0 .. Len(exports)] ==
          IF i = 0 THEN first ELSE TryStar(m, n, answer, tried[i - 1], exports[i])
    IN  tried[Len(exports)]

Resolving(e, m, n, seen, answer) ==
    LET now       == seen \cup {<<m, n>>}
        Result(c) == [cell |-> c, seen |-> now]
        x         == Deciding(m, n)
    IN  IF <<m, n>> \in seen THEN [cell |-> NotFound, seen |-> seen]
        ELSE IF Matching(m, n) = {} THEN
            IF n = "default" THEN Result(NotFound)
            ELSE TryStars(m, n, answer, Result(NotFound))
        ELSE IF x.kind = "local" THEN Result(e[m][x.slot])
        ELSE IF x.from \notin deps[m] THEN Result(Panic)
        ELSE IF x.kind = "indirect" THEN answer[now][<<x.from, x.imported>>]
        ELSE Result(<<"namespace", x.from>>)

Resolver(e) ==
    LET resolve[seen \in SUBSET (Modules \X Names)] ==
          [p \in Modules \X Names |-> Resolving(e, p[1], p[2], seen, resolve)]
    IN  resolve

ResolveExport(e, m, n) == Resolver(e)[{}][<<m, n>>].cell

-----------------------------------------------------------------------------
(* build_module_namespace                                                  *)

StarTargets(m) == {x.from : x \in {y \in ToSet(code[m].exports) : y.kind = "star"}}

(* Mutant: the names of a star export's own star exports are left out.       *)
StarReachOnce(m) == {m} \cup StarTargets(m)

(* The modules collect_export_names visits.                                *)
StarReach(m) == Closure({m}, [k \in Modules |-> StarTargets(k)])

OwnNames(m) == {x.exported : x \in {y \in ToSet(code[m].exports) : y.kind # "star"}}

(* "default" does not come through a star export.                          *)
CollectExportNames(m) ==
    OwnNames(m) \cup ((UNION {OwnNames(n) : n \in StarReach(m)}) \ {"default"})

CollectPanics(m) == \E n \in StarReach(m) : ~(StarTargets(n) \subseteq deps[n])

(* A name that is not found or ambiguous is not in the namespace.          *)
BuildNamespace(m) ==
    {<<n, ResolveExport(env, m, n)>> : n \in CollectExportNames(m)}

BuildPanics(m) == CollectPanics(m) \/ \E b \in BuildNamespace(m) : b[2] = Panic

-----------------------------------------------------------------------------
(* link_module                                                             *)

EnterLink(m, return) ==
    /\ status' = [status EXCEPT ![m] = "Linking"]
    /\ stack' = Append(return, LinkFrame(m))

(* run_module links the entry, the first record, and then every record that *)
(* is still Unlinked, also those only an import() asks for.                *)
LinkRecord ==
    /\ Idle /\ phase = "link"
    /\ \E i \in DOMAIN records :
          /\ status[records[i]] = "Unlinked"
          /\ \A j \in 1 .. i - 1 : status[records[j]] # "Unlinked"
          /\ EnterLink(records[i], <<>>)
    /\ UNCHANGED <<graphVars, env, namespaces, ending>>

(* A request that was not loaded is silently passed over, and a dependency   *)
(* that is being linked further down the stack is not waited for.  None is  *)
(* Errored here: the first error ends the run.                             *)
LinkDependency ==
    /\ Running("link") /\ Top.todo # <<>>
    /\ LET return == Append(Front(stack), [Top EXCEPT !.todo = Tail(@)])
           d      == Head(Top.todo)
       IN  IF d \in deps[Top.mod] /\ status[d] = "Unlinked"
             THEN EnterLink(d, return)
             ELSE stack' = return /\ UNCHANGED status
    /\ UNCHANGED <<graphVars, env, namespaces, ending>>

(* The cell for an import, or why there is none.  A namespace object exists,  *)
(* still empty, since its record was published: importing it builds nothing *)
(* and cannot fail.                                                        *)
Bind(m, x) ==
    IF x.from \notin deps[m] THEN NotFound
    ELSE IF x.kind = "name" THEN ResolveExport(env, x.from, x.imported)
    ELSE IF x.kind = "deferred" THEN <<"deferred", m, x.slot>>
    ELSE <<x.kind, x.from>>

Bindings(m) == [i \in DOMAIN code[m].imports |-> Bind(m, code[m].imports[i])]

(* create_import_binding, after all imports have been resolved.            *)
CreateImportBindings(m, cells) ==
    [env EXCEPT ![m] = [s \in Slots |->
        LET bound == {i \in DOMAIN code[m].imports : code[m].imports[i].slot = s}
        IN  IF bound = {} THEN env[m][s] ELSE cells[Min(bound)]]]

(* Every indirect export must resolve, with the import bindings in place.   *)
IndirectExports(e, m) ==
    [i \in {j \in DOMAIN code[m].exports : code[m].exports[j].kind = "indirect"} |->
        ResolveExport(e, m, code[m].exports[i].exported)]

Failures == {NotFound, Ambiguous, Panic}
(* Mutant: only a panic stops the binding of the imports.                   *)
IgnoreUnresolved(results) == \E i \in DOMAIN results : results[i] = Panic

Fails(results) == \E i \in DOMAIN results : results[i] \in Failures
FirstFailure(results) == results[Min({i \in DOMAIN results : results[i] \in Failures})]

(* An error that leaves link_module marks the callers Errored and ends the  *)
(* run; "own" is the module itself when the code marks it, too.            *)
LinkFails(failure, own) ==
    /\ stack' = <<>>
    /\ IF failure = Panic
         THEN EndWith("panic") /\ UNCHANGED status
         ELSE /\ EndWith("linkError")
              /\ LET errored == own \cup {f.mod : f \in ToSet(Front(stack))} IN
                   status' = [m \in Modules |-> IF m \in errored THEN "Errored"
                                                ELSE status[m]]

BindImports ==
    /\ Running("link") /\ Top.todo = <<>>
    /\ LET m       == Top.mod
           cells   == Bindings(m)
           bound   == CreateImportBindings(m, cells)
           checked == IndirectExports(bound, m)
       IN  \/ /\ Fails(cells)
              /\ LinkFails(FirstFailure(cells), {})
              /\ UNCHANGED env
           \/ /\ ~Fails(cells) /\ Fails(checked)
              /\ env' = bound
              /\ LinkFails(FirstFailure(checked),
                           IF FirstFailure(checked) = NotFound THEN {m} ELSE {})
           \/ /\ ~Fails(cells) /\ ~Fails(checked)
              /\ env' = bound
              /\ status' = [status EXCEPT ![m] = "Linked"]
              /\ stack' = Front(stack)
              /\ UNCHANGED ending
    /\ UNCHANGED <<graphVars, namespaces>>

-----------------------------------------------------------------------------
(* materialize_namespaces                                                  *)

MaterializeNamespaces ==
    /\ Idle /\ phase = "link"
    /\ \A m \in Recorded : status[m] # "Unlinked"
    /\ LET panics == \E m \in Recorded : BuildPanics(m)
       IN  \/ panics /\ EndWith("panic") /\ UNCHANGED namespaces
           \/ /\ ~panics
              /\ namespaces' = [m \in Modules |->
                    IF m \in Recorded
                      THEN {b \in BuildNamespace(m) : b[2] \notin Failures}
                      ELSE {}]
              /\ EndWith("ok")
    /\ UNCHANGED <<graphVars, status, env, stack>>

-----------------------------------------------------------------------------
Init ==
    /\ code \in Programs
    /\ records = <<Entry>>
    /\ deps = [m \in Modules |-> {}]
    /\ dynamic = [m \in Modules |-> <<>>]
    /\ status = [m \in Modules |-> "Unlinked"]
    /\ env = [m \in Modules |-> [s \in Slots |-> <<"slot", m, s>>]]
    /\ namespaces = [m \in Modules |-> {}]
    /\ stack = <<LoadFrame(Entry)>>
    /\ phase = "load"
    /\ outcome = "running"

Load == FindRecord \/ LoadRecord \/ LoadReturns \/ LoadFails
Link == LinkRecord \/ LinkDependency \/ BindImports \/ MaterializeNamespaces
Step == Load \/ Link
Terminating == phase = "end" /\ UNCHANGED vars
Next == Step \/ Terminating

(* run_module is straight-line code that nothing preempts.                 *)
Spec == Init /\ [][Next]_vars /\ WF_vars(Step)

-----------------------------------------------------------------------------
(* What linking is for, said of the modules' metadata alone.               *)

Reach(m) == Closure({m}, [k \in Modules |-> Requested(code[k])])

InCycle(m) == \E d \in Requested(code[m]) : m \in Reach(d)

ImportsOf(m, s) == {x \in ToSet(code[m].imports) : x.slot = s}

(* Where the binding of the name n of m comes from, one module further on:  *)
(* the exports of other modules it refers to, and the cells it is.         *)
Refers(m, n) ==
    IF Matching(m, n) # {}
      THEN LET x == Deciding(m, n) IN
           CASE x.kind = "indirect"  -> {<<x.from, x.imported>>}
             [] x.kind = "namespace" -> {}
             [] x.kind = "local" -> {<<i.from, i.imported>> :
                    i \in {j \in ImportsOf(m, x.slot) : j.kind = "name"}}
      ELSE IF n = "default" THEN {} ELSE {<<d, n>> : d \in StarTargets(m)}

Provides(m, n) ==
    IF Matching(m, n) = {} THEN {}
    ELSE LET x == Deciding(m, n) IN
         CASE x.kind = "indirect"  -> {}
           [] x.kind = "namespace" -> {<<"namespace", x.from>>}
           [] x.kind = "local" ->
                IF ImportsOf(m, x.slot) = {} THEN {<<"slot", m, x.slot>>}
                ELSE {IF i.kind = "deferred" THEN <<"deferred", m, i.slot>>
                                             ELSE <<i.kind, i.from>> :
                         i \in {j \in ImportsOf(m, x.slot) : j.kind # "name"}}

(* The cells that an import of n from m may denote, through any number of   *)
(* re-exports: none, exactly one, or several when the name is ambiguous.    *)
Denotes(m, n) ==
    LET through == Closure({<<m, n>>}, [p \in Modules \X Names |-> Refers(p[1], p[2])])
    IN  UNION {Provides(p[1], p[2]) : p \in through}

(* A module that re-exports one of its imports by a local export.          *)
Forwards(m) == \E x \in ToSet(code[m].exports) :
                   x.kind = "local" /\ ImportsOf(m, x.slot) # {}

(* No cycle that m needs leads to a module that forwards an import, be it in *)
(* the cycle or below it.  A module of a cycle can be linked before what    *)
(* another module of the cycle needs, and then finds a forwarder whose own  *)
(* imports are not bound.                                                  *)
CyclesDoNotForward(m) ==
    \A n \in Reach(m) : InCycle(n) => \A k \in Reach(n) : ~Forwards(k)

(* Every static dependency of every record could be loaded.                *)
Complete == \A m \in Recorded : Requested(code[m]) \subseteq deps[m]

IsLive(m, x) == x.kind = "name" => {env[m][x.slot]} = Denotes(x.from, x.imported)

-----------------------------------------------------------------------------
(* Properties.                                                             *)

TypeOK ==
    /\ code \in [Modules -> Metadata]
    /\ records \in Seq(Modules)
    /\ deps \in [Modules -> SUBSET Modules]
    /\ dynamic \in [Modules -> Seq(Modules \cup {Unresolved})]
    /\ status \in [Modules -> Statuses]
    /\ env \in [Modules -> [Slots -> Cells]]
    /\ namespaces \in [Modules -> SUBSET (Names \X Cells)]
    /\ stack \in Seq(Frames)
    /\ phase \in {"load", "link", "end"}
    /\ outcome \in Outcomes

(* A linked import is the very cell of the binding it denotes, and that is   *)
(* the only one: resolution through re-exports, star exports and cycles, in  *)
(* an order that depends on the graph, agrees with the definition.          *)
LiveUnlessForwarded ==
    \A m \in Modules : status[m] = "Linked" /\ CyclesDoNotForward(m) =>
        \A x \in ToSet(code[m].imports) : IsLive(m, x)

(* Every import whose name denotes one binding is that binding's cell, also   *)
(* when a cycle leads to a module that forwards an import.                  *)
LiveBindings ==
    outcome = "ok" =>
        \A m \in Recorded : \A x \in ToSet(code[m].imports) :
            x.kind = "name" /\ Cardinality(Denotes(x.from, x.imported)) = 1 => IsLive(m, x)

(* In a graph that loaded completely, linking fails exactly when some import *)
(* or indirect export denotes no binding or more than one.                  *)
LinkVerdict ==
    phase = "end" /\ outcome # "loadError" /\ Complete
    /\ (\A m \in Recorded : CyclesDoNotForward(m)) =>
        outcome = IF \E m \in Recorded :
                        \/ \E x \in ToSet(code[m].imports) :
                              x.kind = "name" /\ Cardinality(Denotes(x.from, x.imported)) # 1
                        \/ \E x \in ToSet(code[m].exports) :
                              x.kind = "indirect" /\ Cardinality(Denotes(m, x.exported)) # 1
                    THEN "linkError" ELSE "ok"

(* A namespace has exactly the names that denote one binding, with its cell. *)
NamespaceExact ==
    outcome = "ok" =>
        \A m \in Recorded : CyclesDoNotForward(m) =>
            namespaces[m] = {b \in Names \X Cells : Denotes(m, b[1]) = {b[2]}}

(* The dynamic resolutions of a record answer its import() requests one by   *)
(* one, however deep below a request the failure was: the opcode finds its   *)
(* resolution by position.                                                  *)
DynamicAligned ==
    \A m \in Recorded :
        /\ \A i \in DOMAIN dynamic[m] :
              dynamic[m][i] \in {code[m].dynamic[i], Unresolved} \ Missing
        /\ phase # "load" /\ outcome # "loadError"
           /\ Requested(code[m]) \subseteq deps[m]
           => Len(dynamic[m]) = Len(code[m].dynamic)

(* A record lacks a dependency only when an import() on the way to it failed *)
(* and has been told so.                                                    *)
PartialIsReported ==
    phase = "link" /\ ~Complete =>
        \E m \in Recorded : Unresolved \in ToSet(dynamic[m])

(* A module is linked after all its dependencies, except those in its own    *)
(* cycle that are still being linked.                                       *)
LinkOrder ==
    [][\A m \in Modules : status'[m] = "Linked" /\ status[m] # "Linked" =>
          \A d \in deps[m] \ {m} :
              status[d] = "Linked" \/ (status[d] = "Linking" /\ m \in Reach(d))]_vars

(* Loading and linking end, whatever the cycles.                            *)
Termination == <>(phase = "end")
=============================================================================
