# A TLA+ model of JustScript

JustScript is a JavaScript engine in Rust: lexer, parser, bytecode compiler,
stack-based interpreter, and an engine that loads, links and evaluates graphs of
ECMAScript modules. This directory holds TLA+ models of the parts whose
difficulty is in their control, the TLC configurations that check small
instances of them, and proofs that TLAPS checks for every instance.

## The system

| Component | Source (under `src/crates`) | State it keeps | Operations | What is hard |
| --- | --- | --- | --- | --- |
| module loading and linking | `js-engine/src/pipeline.rs` 250-422, 531-842; `module.rs` | `ModuleGraph`: records by identity, resolved dependencies, environments of binding cells, namespaces, `ModuleStatus` | `load_module_graph`, `link_module`, `resolve_export`, `materialize_namespaces`, `instantiate_module_functions` | cycles (a record is used before it is complete), failing dynamic dependencies, star export ambiguity |
| module evaluation | `pipeline.rs` 843-1145 | status, pending async dependencies, async parents, evaluation order, import() waiters | `evaluate`, `inner_evaluation`, `start_module`, `complete_module`, `gather_available_ancestors`, `fail_module`, `process_dynamic_imports` | re-entrancy, asynchronous parents, import() during evaluation, errors half way |
| deferred evaluation | `js-vm/src/interp.rs` 3193-3261 | `evaluated` flags beside `ModuleStatus` | `ensure_deferred_module` | a second record of which module ran |
| interpreter | `interp.rs`, `frame.rs`, `stack.rs` | call frames, operand and handler stacks, suspended modules and async functions, step budget | `step`, `handle_exception`, `call_value`, `Await`, `Yield`, `Return`, `DynamicImport` | unwinding, re-entrant dispatch from natives, suspension of part of the stack |
| promises and jobs | `js-vm/src/builtins.rs` 580-933; `interp.rs` 3024-3191 | promise state and reactions, FIFO of jobs | `settle_promise`, `resolve_promise`, `promise_then`, `register_await_reaction`, `drain_jobs` | ordering, a promise settled twice, jobs that queue jobs |
| generators | `interp.rs` 120-296, 2189-2448, 3028, 3876-4015 | saved frame, `done`, delegate, request queue | `next`/`throw`/`return`, `yield`, `yield*` | requests that arrive while the generator runs, completion with requests queued |
| compiler | `js-bytecode/src/compiler.rs`, `local.rs`, `module.rs`, `constant.rs`, `opcode.rs` | code, constants, local tables, upvalues, handler tables; loop, label and scope frames | `compile_stmt`, `compile_expr`, `compile_function`, `compile_class_value`, `resolve_var`, `patch` | order of evaluation, temporaries shared by nested constructs, captures through several functions, jumps patched later |
| verifier | `js-bytecode/src/verify.rs` | none | `verify_function`, `verify_module` | boundaries |
| early errors | `js-parser/src/early_errors.rs`, `static_semantics.rs` | stack of scopes; strictness, labels, loops, private names, await, yield, super and new.target of the place | `check_stmt`, `check_expr`, `check_class`, `check_function`, `check_module_body` | every context is set and restored by hand; eval inherits part of it |
| regular expressions | `js-lexer/src/lexer.rs` 302-475, `js-parser/src/regexp.rs`, `js-vm/src/regex.rs` | position and mode of three readers; thread lists, captures | `eat_regex`, `validate_pattern`, `run_pike`, `match_at`, `find_all` | three readers of one grammar, two matchers of one meaning |
| rest of parser and lexer | `js-parser`, `js-lexer` | token cursor, context flags | recursive descent, snapshots | text, not control |
| values, realm, builtins | `js-runtime`, `js-vm/src/builtins.rs` | objects, prototypes | library functions | data more than control |
| diagnostics, codegen, CLI | `js-diagnostics`, `js-codegen`, `js-cli` | none | formatting, skeleton backends, I/O | nothing a model checker reaches |
| test262 runner | `js-test262/src/runner.rs` | a child process, its pipe, a deadline | `spawn_execute_one`, `wait_with_timeout` | the pipe and the time limit |

The components call each other downwards: the engine loads and links the graph,
then the evaluator drives the interpreter, which runs one module body at a time
and reports that it completed, suspended or failed. The only traffic upwards is
data the evaluator polls: the queue of import() requests, the queue of promise
jobs, and whether the promise a suspended module waits for is settled. Everything
is one thread; what interleaves is the evaluation of different modules, the
promise jobs between them, and the import() calls each of them makes.

What makes each component correct, in the order in which it is modelled:

1. *Module evaluation.* Every body is started at most once and after its
   dependencies; the asynchronous accounting neither loses nor invents a
   dependency; every import() promise is settled, truthfully, by whoever holds
   it; the loop ends, and reports "pending" only if nothing could be done.
2. *Loading and linking.* After linking, every import is the exporter's own
   cell; resolution of a name agrees with its definition (unique, unambiguous,
   through any number of star exports and cycles); the failure of an import()
   target does not reach modules that do not import it.
3. *Deferred evaluation.* The two records of "has run" agree; a body runs once
   whichever path evaluates it first.
4. *Promises.* A promise is settled once; reactions run in order; an async
   function is resumed exactly once for each await.
5. *Generators.* Requests are answered in order, each exactly once, and none is
   forgotten; a generator never has two lives at once.
6. *Compiler and interpreter.* A program is accepted exactly when its early errors
   allow it; its code is well formed; every name reaches its declaration; the
   operand and handler stacks are balanced; and running the code asks the host
   for what the language prescribes, in that order, whatever the host answers.
7. *Regular expressions.* The readers agree on where a literal ends and what is
   in it; a matcher finds a match when there is one, at the leftmost position,
   and the preferred one.

## Modules

### ModuleEvaluation

`ModuleEvaluation.tla` models `ModuleEvaluator` and the part of the interpreter
it drives. The evaluator is one thread of recursive Rust calls, so its call stack
is the variable `stack`, and an action is one step of the call on top:

| Code | Model |
| --- | --- |
| `RuntimeModule` fields | `deps`, `status`, `pending`, `parents`, `order`, `waiters` |
| `Interpreter::suspended_modules`, `dynamic_import_requests`, `jobs` | `suspended`, `requests`, `jobs` (their number) |
| promise of an import() and its resolution | `promise`, `to` |
| local variables of `evaluate` and `process_dynamic_imports` | `phase`, `batch`, `ready`, `progressed`, `outcome` |
| `inner_evaluation` | frames `inner` and `join`; `Enter`, `SkipDependency`, `EvaluateDependency`, `DependencyErrored`, `JoinDependency`, `WaitForDependencies`, `StartModule` |
| `complete_module`, `gather_available_ancestors` | `CompleteModule`, frame `complete`; `StartAvailable`, `ReturnFromComplete` |
| a module body and the Return opcode | frames `body` and `return`; `ImportInBody`, `QueueJob`, `Suspend`, `Throw`, `Return`, `BodyCompleted` |
| `drain_jobs` | `RunJob` |
| the loop of `evaluate` | `TakeRequests`, `ProcessRequest`, `RunPromiseJobs`, `CollectReady`, `ResumeReady`, `EndOfTurn`, `ReturnFromEvaluate` |
| `?` | `Raise`, which discards the stack down to the two callers that hand the error to `fail_module` |

`gather_available_ancestors` is a recursion that decrements counts as it visits;
`Available` is the least set that it reaches, and `GatherAvailableAncestors`
its effect on the counts and the parent lists. `runs` and `awaits` are history.

What a body does is left open: which modules it imports dynamically, whether it
queues promise jobs, awaits or throws. An awaited promise is the promise of an
import() made so far, one that the queued jobs settle, or one that nothing
settles. A job of the queue may call import(). The number of import() calls, of
suspensions of one module and of jobs queued by bodies are bounded by the
constants `MaxImports`, `MaxAwaits` and `MaxJobs`.

Left out: the values modules evaluate to, namespaces (a thenable namespace would
make the promise of an import() wait for another promise), faults of promise
jobs, and deferred evaluation.

### ModuleEvaluationProofs, EvaluationLoopProofs

The theorems about ModuleEvaluation: types, counts and single starts in the first,
the event loop and the order of bodies in the second; see "What is proved".

### ModuleLinking

`ModuleLinking.tla` models what `run_module` does before it evaluates the entry:
`load_module_graph`, `link_module` and `materialize_namespaces`, over the
metadata (requests, imports, exports, import() requests) that
`ModuleMetadata` holds for each module. The metadata is chosen in `Init`.

| Code | Model |
| --- | --- |
| `ModuleGraph::modules` | `records`, in the order of publication |
| `RuntimeModule` fields | `deps`, `dynamic`, `status`, `env`, `namespaces` |
| a `BindingCell` | the name of what it ultimately is: a slot of a module, a namespace, a deferred namespace, a source. An import cell is a view whose target never changes, so it is the target's name |
| calls of `load_module_graph` and `link_module` in progress | `stack`, frames `load` and `link` |
| `load_module_graph` | `FindRecord` (the cache), `LoadRecord` (published before its requests), `LoadReturns`, `LoadFails` (the error unwinds to the innermost import() request, which becomes `Unresolved`) |
| `link_module` | `LinkRecord`, `LinkDependency`, `BindImports` (`Bind`, `CreateImportBindings`, `IndirectExports`, `LinkFails`) |
| `resolve_export`, with its shared resolve set | `Resolving`, one call; `Resolver`, a recursive function from the resolve set a call finds to its answers, each a result and the resolve set it leaves. Every call that goes on adds a point to the set, so the recursion ends |
| `module_namespace` | nothing of its own: every record is published with an empty namespace object (pipeline.rs:341), which an import of the namespace binds |
| `collect_export_names`, `materialize_namespaces` | `CollectExportNames`, `BuildNamespace`, `MaterializeNamespaces`, the only place where the objects are filled; `BuildPanics` says when that panics |

The members of `Missing` are the identities whose loading fails for whatever
reason: no file, invalid JSON, a syntax error. A run ends with `ok` (evaluation
would begin), `loadError`, `linkError`, or `panic`, when a record whose
dependency failed to load is asked for it: by `resolve_export` while an import or
an indirect export is bound, or by `materialize_namespaces`.

`Denotes` says, from the metadata alone, which cells a name of a module may be:
the cells reachable through re-exports and star exports. It has no order, no
resolve set and no link status, and is what the algorithm is checked against.

Left out: source text and its analysis, host errors after the record is
published, the initial values `instantiate_module_functions` gives to hoisted
functions, and evaluation (the other module).

`ModuleLinkingProofs.tla` has the theorems about loading and the order of linking,
`NameResolutionProofs.tla` those about names: imports, verdict and namespaces.

### PromiseJobs

`PromiseJobs.tla` models promises, reactions, the job queue and async functions,
for the program of one module. Its code is the environment: whatever frame runs
may construct promises, call resolving functions it has been given, call `then`,
`Promise.resolve`, `reject` and `all`, call async functions, await, return and
throw.

| Code | Model |
| --- | --- |
| `PromiseData` of every promise, `Interpreter::jobs` | `heap`: states, reactions, jobs; which promises the program can name, and whose resolving functions it has |
| `settle_promise`, `resolve_promise`, `promise_resolved`, `register_await_reaction` | `Settle`, `Resolve`, `Wrapped`, `Register`: functions from heap to heap, as the code passes `&mut Interpreter` |
| `suspended_async`, `next_async_continuation` | `suspended`, `awaits` |
| call frames, and the `drain_jobs` loops between them | `stack` |
| `pending_err` | `pendingErr`, raised by the next step of any frame (`RaisePendingErr`) |
| promise natives | `PromiseConstructor`, `CallResolvingFunction`, `PromiseThen`, `PromiseResolve`, `PromiseReject`, `PromiseAll` |
| `Await`, `Return`, `Throw`, `handle_exception` | `Await`, `AwaitInMain`, `Return` and `CompleteReturn` (the queue is drained between the two when one call frame is left), `Throw` and `Unwind` |
| `drain_jobs`, `resume_async_continuation` | `RunJob`: `ResumeAsync`, `RunReaction`, `RunThenable`; `EndDrain` |
| the loop of `evaluate`, for one module | `RunPromiseJobs`, `ResumeMain`, `NoProgress` |

Left out: values (a settled promise only ever holds a plain one), the requests of
async generators in the queue, executors and thenables that are native functions,
and faults.

`PromiseJobsProofs.tla` has the inductive invariant, the lemmas about the heap's
operators, the steps and the theorems.

### Generators, RequestQueue and their proofs

`Generators.tla` models generators and async generators. As in PromiseJobs the
code of the program is the environment: main, the bodies of generators and the
callbacks of jobs may call `next`, `return` and `throw`, yield, await, delegate,
enter and leave try blocks and throw, `MaxOps` times in all.

| Code | Model |
| --- | --- |
| `GeneratorState`, `async_queue`, `async_executing`, `Interpreter::jobs` | `heap.gens`, `heap.jobs`; the promises of requests are `heap.requests` |
| `suspended_async` | `heap.asleep`; `heap.waiting` holds the generators that await what nobody settles |
| call frames, and loops of `drain_jobs` between them | `frames`; `then` is what the caller of a drain goes on with |
| `GenNext`, `GenReturn`, `GenThrow`, `begin_async_generator_request`, `checkout_generator` | `Call` (`Ask`, `Checkout`), `Defer` |
| step prologue, `suspend_generator`, `Yield`, `Await`, `complete_generator_request` | `PlainResume`, `Yield`, `Suspend`, `Await`, `Complete` |
| `step_yield_star` | `Delegate`, `AcquireDelegate`, `TakeCompletion`, `CallDelegate`, `YieldDelegated`, `EndDelegation` |
| `Return`, `handle_exception`, try instructions | `ReturnFromBody`, `Throw`, `Unwind`, `Try`, `EndTry`, `EndFinally` |
| `drain_jobs`, `await_value_now`, `finish_async_generator_request` | `RunJob`, `AnswerClosed`, `EndDrain`, `SettleAwaited`, `Finish` |
| an index into the locals of a frame that has lost them | `UseLostLocal`, after which the run is over (`panic`) |

`RequestQueue.tla` is what a caller may rely on: requests stand in line and are
answered once each, the oldest first, until the generator is closed; from then on
those in line are answered by their kind, and new ones on the spot.
`GeneratorPromises` gives the refinement mapping: the line is the request being
worked on, wherever it is (a frame, a queued job, a body asleep, an answer under
way), followed by `async_queue`; `RequestsInLine` is `Queue!Spec` under it.

`RequestQueueProofs.tla` is about the abstract queue alone. `GeneratorProofs.tla`
has the inductive invariant of the generators and its lemmas, then the steps, the
theorems and the refinement.

### SyntaxTree, Bytecode, Lowering

`SyntaxTree.tla` has a constructor for every variant of the tree the parser makes,
but for two that have no rule of their own. `Expr::Paren` is made only around the
expression of a decorator (class.rs:101), which is parsed and never compiled, and
whoever meets one passes through it. `Stmt::Debugger` is in every match beside
`Stmt::Empty` (compiler.rs:175, early_errors.rs:630), and `Empty` stands for both.
The two default exports, `ExportSpec::Default` and `DefaultDecl`, are one
constructor, of an expression or of a declaration.
`Bytecode.tla` has values, instructions and their operand kinds, function records
and the verifier. Values are opaque; an operator applied to values that are not
both known is a value that names the operator and its operands.

`Lowering.tla` is the compiler. Each construct has a *template*: a sequence of
parts, in the order in which the code emits them. A part is an instruction, a jump
to a named label, a label, a temporary slot, or a nested construct. `Asm` runs a
template on the compiler's state (`CompilerCtx` and the function being built) and
patches its jumps. `ExprParts` and `StmtParts` choose the template of a construct,
so that what the compiler emits for it is a line or two that can be laid beside
the code.

A function that a module itself declares is not stored where it stands:
`InitialiseFunction` leaves it to `Machine!Init`, which does for the functions of a
module what `instantiate_module_function` does before its body runs. That goes for a
default export without a name, too, kept in `*default*`.

| Code | Template or operator |
| --- | --- |
| `resolve_var`, `resolve_upvalue`, `add_upvalue` | `ResolveVar`, `ResolveUpvalue`, `AddUpvalue` |
| `capture_visible_environment` | `Capture`, `CaptureVisible` |
| `emit_break`, `emit_continue`, loop frames | parts `loop`, `end loop`, `break`, `continue`; `PopLoop` |
| `compile_for_of`, `compile_try`, `compile_switch` | `ForOfParts`, `TryParts`, `SwitchParts` |
| `Expr::Assign`, `bind_pattern`, `assign_pattern` | `AssignParts`, the parts `bind` and `assign`, `AssignPatternParts` |
| `compile_class_value` | the class templates |
| `compile_program`, `compile_eval_program_with_source` | `CompileProgram` |

### Machine, Host, Reference, LoweredProgram

`Machine.tla` is the interpreter's `step`: the compiled program (`unit`), call
frames with their operand stacks, handlers, `with` environments and private
environments, heap cells and closures, globals. There is one action for each kind
of instruction, and `RaisePending` for an exception under way. `Host.tla` is the
world around the program: its functions, objects and iterators are opaque, every
call, property access and step of an iterator is an event of `log`, and the answer
(a fresh value, a nullish one, an exception, `done`, as the program's `choose`
allows) is chosen when it is asked for and remembered in `tape`.

`Reference.tla` says what a program means: one recursive evaluation of the tree
after ECMAScript, given the answers on the tape. It shares with the
compiler which names a body declares and a few tests of the tree's form, and with
the machine values and host. `LoweredProgram` compares the two and states the invariants of
compiled code.

### EarlyErrors, StaticRules, ProgramFamilies

`EarlyErrors.tla` is the checker. What `check_stmt`, `check_expr` and the others
do at a node is a sequence of steps in the order of the code: refuse, open or
close a scope, declare a name, visit a child in a context. The context is a record
with what the checker keeps in fields and restores by hand; only the scopes are
threaded from step to step (`ScopesAfter`). `Accepts` is `check`, `check_eval` and,
for a module, `check_module_body`. `Machine!Init` refuses what it does not accept,
as `Parser::parse` does.

`StaticRules.tla` is what it is checked against: every node with the path that
leads to it, and rules on paths ("a `break` has a loop or switch above it, below
any function", "of two declarations of one name in these two scopes one gives
way"). It has no order and no state. `ProgramFamilies.tla` makes the programs (see
"Runs").

### RegexSyntax, RegexCompiler, RegexSearch, RegexMeaning

`RegexSyntax.tla` has the three readers of a regular expression literal, a turn
of a reader's loop being a step: `eat_regex` (`Lex...`), `validate_pattern`
(`Check...`) and the engine's parser, which makes the tree. `RegexCompiler.tla`
is the compiler of the tree, a recursive operator (`CompiledTree`). `RegexSearch.tla`
takes what it makes of a tree as a constant operator, `Compiled`, for which the
configurations give it. It runs the Pike machine (`Add`, `StepThread`,
`StepCharacter`) or, when there is lookaround or a backreference, the backtracker,
whose continuation closures are the list `todo` and whose choices are `trail`; and
`find_all` and the methods on top of them. `RegexMeaning.tla` defines the ways in
which a pattern matches from a position, the preferred one first, by recursion on the
tree. What the Pike machine is to find has a definition without the tree, by which it
can be proved: `Reached(p)`, the threads that its instructions lead to from `p`, and
`Ends(p)`, where those end that reach the last instruction. `RegexSearchProofs.tla`
has the theorems.

## Runs

`MCModuleEvaluation` gives the constants values for TLC: three scripts and a JSON
module, and 64 dependency graphs over them, among them chains of three, shared
dependencies, cycles of two and three modules, and a module requested twice.

| Run | Checks | Shows |
| --- | --- | --- |
| `evaluation` | type, five invariants, start order, termination | the evaluator keeps its accounting, starts bodies once and in order, settles import() truthfully, loses one in the two ways `fail_module` does and in no other, and ends |
| `evaluation_order` | `DependencyOrder` | violated: an importer can start while its dependency is suspended |
| `evaluation_stuck` | `StuckOnAwait` | violated: "top-level await is pending" is reported although no module awaits |
| `linking` | type, five invariants, link order, termination | imports are the cells they denote, linking fails exactly when it should, namespaces are exact, import() requests and resolutions stay aligned, a partial record is always one that an import() was told about |
| `promises` | type, four invariants on ownership, order and completion, drain depth, settled promises, termination | each pending promise and each suspended function is in exactly one pair of hands; reactions run in order; nothing runnable is left at the end |
| `promises_native` | `HandlerErrorRejects` | violated: the exception of a native handler does not reject the result |
| `generators` | type, `BusyOnce`, `NoneForgotten`, refinement of RequestQueue | whatever the program does, an async generator has one life, forgets no request when the program ends, and answers in line |
| `lowering` | `CodeVerified`, `CaptureChains`, `StackBalanced`, `HandlersNest`, `TraceAgrees`, `EarlyErrorsAgree` | programs are refused exactly when the rules say so; the code of the others is well formed and does what they mean |
| `lowering_forof` | `SteppedUntilDone` | violated: nested for-of loops step one iterator |
| `regex` | `ReadAlike`, `WellCompiled`, `OneThreadPerInstruction`, `LeftmostLongest`, `MatchAgrees`, `GlobalMatches` | the three readers agree, the compiler leaves no jump unpatched, the Pike machine finds the leftmost match and the longest there, and both matchers find what the pattern means |
| `regex_preferred` | `PreferredWay` | violated: the Pike machine reports the last match it meets, not the preferred one |
| `linking_live` | `LiveBindings` | violated: an import across a re-exported import in a cycle is a dead cell |

Bounds of `evaluation`: two import() calls, so that one can be made while
another waits for the same module, or its failing dependency be imported again;
one await per module, so that a chain of three suspended modules exists; one
queued job, so that the job queue can be the only progress of a turn; one module
that throws, in the middle of the chain. Larger bounds repeat these cases.
`evaluation_order` needs no import() and no exception, so it has none.

`MCModuleLinking` has an entry, three modules and one that cannot be loaded, and
4410 programs: every combination of 5 entries with 14, 9 and 7 forms of the
other modules. The forms are those that differ in how the name `x` travels: a
declaration, a forwarded import, an indirect export, a namespace or source
export, one or two star exports, a star export shadowed by an indirect one, a
missing static dependency, a missing import() target. Three modules are enough
for a diamond of star exports, a cycle through two modules, and a failure two
records below the import() that absorbs it; two names tell `default`, which star
exports skip, from the others; two slots tell the imports of a module apart.
`linking_live` keeps the programs in which `a` forwards an import.

`LiveUnlessForwarded`, `LinkVerdict` and `NamespaceExact` exclude modules that
need a cycle from which a module that re-exports one of its own imports can be
reached (`CyclesDoNotForward`): that is the case `linking_live` shows to be wrong.
The forwarding module need not be in the cycle itself. Of two modules in a cycle
the one entered last is linked first, and may resolve a name through the other
before what the other requests next is linked: a forwarder below it still has
placeholders then. `LinkVerdict` is about graphs that loaded completely,
`NamespaceExact` about linking that succeeded;
`PartialIsReported` and `DynamicAligned` cover the failing loads.

`promises` has four promises and four operations: enough for an async function
suspended on a promise that another reaction settles, two reactions on one
promise, a promise followed by another, and a drain nested in the return of a
resumed function. The handlers given to `then` are a bytecode function for either
outcome, a native for both, and a native that fails. `PendingIsOwned` excludes
promises whose resolving functions the program has, and those that `Promise.all`
returns for a pending element, which nothing ever settles
(docs/module-runtime.md:60 lists combinators as future work).

`generators` has one generator of each kind and six operations: enough for two
requests queued behind one that awaits, a request answered by a closed generator
while others wait, a delegate that throws inside a try block, and a callback that
asks again from inside a drain. Generators of one kind meet only through the job
queue, in which a callback stands for the other.

`lowering` has two sorts of programs. Twenty-two are run (`Ran`): between them they
use every template, and each is run under every choice of answers its `choose`
allows for the first `MaxAsks` (6) questions; later questions get the last
answer of the list. They nest loops in loops, try in try with calls between,
closures in closures, private names in blocks of classes and `super` in arrows,
since it is in nesting that labels, handlers, captures and slots could be
confused. The others (`Family`, about 14,500) are only compiled. They put each of
25 constructs that have a rule of their own under every two of 21 constructs that
could satisfy the rule or stand in its way, in scripts, modules and four contexts
of eval; and two declarations of one name, of every two kinds and in both orders,
in one scope or in two. Two levels are enough for a boundary between a construct
and what it needs; a third repeats the second. Families leave out trees the
parser does not make and the places of `Known`, where the checker is known to
differ from the language.

`regex` has 1,300 literals: every one of one or two characters of an alphabet of
14 and of three of 10, so that every pair of metacharacters meets a reader, and
110 for longer constructs; seven strings, with empty ones, line ends and a
character of two bytes; and six calls.

Fairness (ModuleEvaluation, ModuleLinking, PromiseJobs): `WF_vars(Step)`. The evaluator is an ordinary thread that is never
preempted by anything in the program: as long as some step is possible, the code
takes one. Nothing is assumed about which: a body may import, queue and suspend
only as often as the bounds allow, and returns after that. The other modules state
no liveness: that a request is answered is `NoneForgotten`, a property of the end
of a run, and deadlock is checked everywhere.

## Findings

- `gather_available_ancestors` (pipeline.rs:1141) recurses into a parent's
  importers at once, also when the parent still has a top-level await of its own
  to run. With m1 importing m2 and m2 importing m3, and awaits in m2 and m3, m1's
  body starts while m2 is suspended, against the "dependency-ordered bytecode
  evaluation" of docs/module-runtime.md:17.
- A failed import() marks only its target `Errored` (pipeline.rs:978): the
  dependency that threw, and every module between the two, stays `Evaluating`.
  Importing one of them leaves a promise nobody settles, and the run ends with "top-level await is pending with no
  runnable PromiseJobs" (pipeline.rs:921).
- `import {x} from './c.js'; export {x}` is answered with whatever cell is in the
  import's slot (pipeline.rs:693). A module in a cycle with it that imports `x`
  before the slot is bound keeps the placeholder for ever, against the "shared
  live binding cells" and "cyclic graph linking" of docs/module-runtime.md:41-42.
  The module need not be in the cycle; it is enough that the cycle leads to it. The
  proof of `ImportsLive` found this second form: with the exception stated for
  cycles through the forwarder alone, its invariant was not inductive.

- `call_value` pops its callee's result although a native callee that throws has
  pushed none (interp.rs:2956): with such a handler, a reaction fulfils its result,
  and the exception stays in `pending_err` for whatever bytecode runs next.

- The for-of loops of a function keep their iterator in one slot
  (compiler.rs:2167): after an inner loop the outer one goes on with the inner
  iterator, against "step it with `.next()` until `done`" (compiler.rs:2158).
- The Pike machine overwrites its match with every later one (regex.rs:1248):
  lazy quantifiers and the order of alternatives have no effect, against
  "`atom*` (greedy or lazy)" (regex.rs:524).

Without a document to contradict, and so in the hazards only: a record whose
dependency failed to load below an import() makes the run panic when its
`export *` is resolved (pipeline.rs:731), and a parent that throws after a
dependency completed is never marked `Errored` (pipeline.rs:1125);
an async function that the host's drain resumes runs the rest of the queue before
its own promise is resolved (interp.rs:1607, bounded by `DrainDepth`).

### Known differences from the language

The models do what the code does. Where that differs from ECMAScript and nothing
in the repository says otherwise, it is no finding; the comparison with the
language (`TraceAgrees`, `EarlyErrorsAgree`, `MatchAgrees`) then runs on programs
that do not meet the difference, or states it. They are listed here so that a
reader knows what the passing runs do not say.

*Control.* break, continue and return leave a try block without its finally, and
leave its handler active (compiler.rs:3237-3285); an exception in a catch skips the
finally (interp.rs:885-905); a try inside a finally forgets the exception being
rethrown; break out of a for-of pops the wrong value (compiler.rs:2196) and leaving
`with` by a jump keeps its environment (381-388); iterators are never closed;
function declarations of scripts are not hoisted; there are no per-iteration
bindings, and a variable's scope is its function (so in the reference too).

*Expressions.* A member assignment evaluates its right side before object and key;
an object literal's computed key comes after its value; elisions of array literals
and assignment patterns are dropped; `?.` before a call has no effect; an array
rest binds an empty array (2646), an object rest copies the whole object; declared
array patterns are read by index; nested patterns share a slot (2300, 2323);
constructors do not destructure their parameters (700-715); named function
expressions do not bind their name; reading or setting a property of a nullish
value does not throw.

*Early errors.* Substitutions of tagged templates, spread arguments and computed
keys of object literals are not visited (early_errors.rs:1454, 1372, 1399); `catch
(e) { var e }` and a static block that declares a name as var and function are
refused; an arrow takes await from the function around it, a field initializer
await and yield; `super()` in a default of a derived constructor is refused; the
declarations of an eval in a field initializer are not searched for `arguments`.

*Strict code.* Here the code agrees with the language and its comments do not.
early_errors.rs:5-7 lists "modules, classes, generators/async, arrows" as strict, and
784-785 says that a "class member/generator/async" forces strictness; but
`check_function` is called with `force_strict` false for declarations, function
expressions and object methods (713, 1275, 1435), whatever kind of function it is,
and arrows inherit. Only class members force it (948). `EarlyErrors` follows the
calls and `StaticRules` the language, so `EarlyErrorsAgree` passes on a sloppy
generator, async function or arrow that holds a `with`; it would not if the code did
what the comments say.

*eval.* Classes of a directly evaluated source are numbered from one, as those of
its caller are, whose private names it inherits (interp.rs:3614, compiler.rs:686).

*Generators.* `return()` at a plain yield skips finally blocks (interp.rs:983); a
delegate whose method throws stays (2365-2407); re-entering a running sync
generator loses its locals, and the run panics; a yield* over a promise nobody has
settled yet is an internal error (2331); a generator that is closed, or closed
before it ran, answers at once, before the requests still in line.

*Regular expressions.* `/]*/` is cut short by the lexer (lexer.rs:368); `[]`,
`[^]`, `[a-\]]`, a bare `\k` and a `\k<name>` before its group pass the early
errors and fail in the engine; lookbehind tries one way from each start
(regex.rs:1146); captures survive a turn of a loop; a backreference ignores the
flag i, and one inside its own group underflows in its second turn (1030);
`find_all` reports an empty match at the end twice (723-748); lastIndex and sticky
have no effect.

## What is proved

Every theorem holds for all values of the constants that satisfy the named
assumptions of the model: any finite set of modules, any graphs or metadata, any
sets of generators, and any bounds. Where the models bound something (imports,
suspensions, jobs, promises, operations), the proofs use no more of the bound than
that it is a natural number. The inductive invariants were checked by TLC on the
instances of the runs before they were proved (that of the Pike machine, which is
costly to evaluate, on a large part of the states of `regex` that it reaches).

### Module evaluation

Assumptions: `ModulesAssumption`, `GraphsAssumption`, `BoundsAssumption`.

`ModuleEvaluationProofs.tla`:

- `TypeCorrect`: `Spec => []TypeOK`.
- `PendingAccounting`: `Spec => []PendingCountsParents`. The count of pending
  asynchronous dependencies is exactly the number of lists that will release it.
- `BodyStartedOnce`: `Spec => []BodyOnce`.

The invariants are not inductive alone. The inductive invariant `IInv` adds what
holds of every call in progress (`FrameOK`): a module whose dependencies are
being visited is `Evaluating`, has not run, and is registered only with
dependencies it has seen (so the filter on requests is what keeps
`JoinDependency` from counting twice); a running body has no dependency pending;
an available parent is `EvaluatingAsync`, has nothing pending and has not run. No
module has two calls in progress, and no module is in two lists of available
parents (`Distinct`). Of modules it says that one which has run has nothing
pending, and that a `Linked` one is in no list (`ModuleOK`).

There is a lemma for each action. The most delicate is `CompleteStep`: the set
`Available` is a least fixed point, each of whose members has just lost its last
dependency (`AvailableIsReleased`), which makes it disjoint from the lists other
frames still hold, whose members had none left.

`EvaluationLoopProofs.tla`:

- `ImportHeld`: `Spec => []PendingImportIsHeld`. A pending import() is in the queue,
  in the batch, or with a target that can still end (`CanEnd`: somebody has the target
  in hand, or all it waits for can end). The statement names the two ways in which
  `fail_module` loses one, and excepts no other: the target was left `Evaluating` by
  a failed import() (`LeftBehind`, the finding `evaluation_stuck`), or waits for a module that
  failed (`WaitsForFailed`, pipeline.rs:1125), and nobody tells it. Without either
  exception TLC finds it violated. A module asleep at an await counts as in hand:
  whether its body goes on is up to the promise the program awaits.
- `ImportTruthful`: `Spec => []SettledImportAgrees`.
- `StuckIsIdle`: `Spec => []StuckMeansNothingRunnable`.
- `DependenciesFirst`: `Spec => StartOrder`.

They rest on `LoopInv` (`LoopInductive`), which adds five parts to `IInv`:

- `Nested`: which calls there can be in each phase. While the evaluator visits (the
  entry, or the target of an import()), no call has parents to start, because a
  module that completes was `Evaluating` and nobody registers with such a module.
  When a body is resumed, only the call at the bottom can have parents to start:
  `gather_available_ancestors` has emptied the lists of those it found, so the ones
  it starts find none when they complete.
- `HeldOnce`: a pending promise is in the queue, in the batch or in the list of its
  target, in one of them and once; with it what import() was told is stable, because
  no step leaves `Evaluated` or `Errored` (`StatusStep`).
- `Turn`: what a turn of the loop that made no progress has left behind after each of
  its phases. Since `progressed` is never reset inside a turn, nothing can have been
  queued in one that ends with it false.
- `Ordered`: the calls of a visit lead along the imports from one to the next
  (`Path`), so that a dependency which is `Evaluating` either leads back to the
  module or was left behind by an error; every dependency a visit has seen is on
  time, or has the module in its list (`Visits`); and for a module that waits to be
  started, each dependency is on time, lists it, or is itself about to be started and
  has the smaller `async_evaluation_order` (`Awaited`, `Numbered`). The last case
  is what the sort in `complete_module` is for.
- `Accounted`: what becomes of each module that has not ended (`Fate`). One that is
  `Evaluating` without a call in progress was left behind below a module that is
  `Errored`; one that is `EvaluatingAsync` is in hand or has a dependency pending; and
  an evaluated module has no parents registered. From `Fate` a module that waits leads
  down the registrations to one that is in hand or to one that failed, which is
  an induction on `async_evaluation_order` (`WaitingEnds`): the dependencies that a
  waiting module is registered with became asynchronous before it.

`StartOrder` is as strong as the code allows: that dependencies have been *evaluated*
is false (see the findings).

### Loading and linking

Assumption: `LinkingAssumption`. `ModuleLinkingProofs.tla`:

- `Aligned`: `Spec => []DynamicAligned`.
- `Reported`: `Spec => []PartialIsReported`.
- `Order`: `Spec => LinkOrder`.

The properties say nothing of calls in progress, and an error drops many at once. The
inductive invariant (`Inductive`) says where each call of `load_module_graph` is in
the requests of its record (`Position`) and that it waits for a request the record
does not have yet (`Waiting`); so a record the error leaves short of a resolution is
short of a dependency too, and the import() that caught the error was told. Of
`link_module` it says that `Linking` is the status of the records on the stack and
that each call is for a dependency of the one below. That a record still `Linking`
reaches the one being linked is then the existence of a path along the stack, by a
least-counterexample argument over its length (`BelowReaches`).

These theorems hold whatever `resolve_export` returns. `NameResolutionProofs.tla`
is about what it returns:

- `WellTyped`: `Spec => []TypeOK`; a slot or a namespace holds cells only.
- `ImportsLive`: `Spec => []LiveUnlessForwarded`.
- `VerdictExact`: `Spec => []LinkVerdict`.
- `NamespacesExact`: `Spec => []NamespaceExact`.

1. *The recursion has a solution* (`ResolverIs`). `Resolver` is a function over all
   resolve sets that refers to itself. A solution for the sets that fewer than `k`
   points are missing from exists for every `k`, since each call that goes on adds a
   point; the last of them is for all sets. The induction over `k` is carried out by
   hand, as the set of the `k` for which there is one (`NatSteps`).
2. *What a search finds* (`Search`). `Tally` compares the result of a call with the
   points it has visited: with a cell, everything found at them is that cell; with
   "not found", nothing was; with "ambiguous", two found different cells; and the
   set of visited points is closed under asking further, but for those another call
   of the same resolution has in hand. Two tallies one after the other are a tally
   (`TallyThen`), so star exports that share the resolve set are.
3. *What a name denotes* (`Resolved`). `Denotes` follows the imports behind a local
   export, while `resolve_export` reads the slot. Where each slot on the way holds
   the one cell its import denotes (`Sound`), both come to the same: one cell if and
   only if the name denotes one. That several cells are more than one, and none less,
   needs them finite (`DenotedFinite`).
4. *Which slots do*. While `m` is bound, resolution stays among the linked modules and
   those behind a cycle that `m` needs (`Zone`): what is still `Linking` reaches `m`,
   which is in a cycle with it then (`LinkingIsBehind`). Linked modules are sound by
   the invariant, and those behind a cycle have only slots of their own by
   `CyclesDoNotForward`.
5. *The invariant* (`BindingInv`, on top of `Inductive`'s): a linked module for which
   `CyclesDoNotForward` holds has sound slots and indirect exports that denote one
   binding each; the dependencies of a linked module are linked or linking; and when
   the run has ended, its outcome is the one the graph calls for.
   `LiveUnlessForwarded` itself is not inductive: it does not say what the slots hold
   that are bound to namespaces and sources, or are not bound, and names resolve
   through these as well.

### Promises and jobs

Assumption: `PromisesAssumption`. `PromiseJobsProofs.tla`:

- `Types`, `PendingOwned`, `Continuations`, `InOrder`, `Ended`, `Depth`: `Spec => []P`
  for `TypeOK`, `PendingIsOwned`, `ContinuationHeld`, `ReactionOrder`, `NothingLeft`
  and `DrainDepth`. For `InOrder`, history numbers every registration of the run from
  one counter, whether a `then()`, an await or an adoption made it (`nth`), so that a
  `then()` and an await on one promise are compared, too.
- `Settled`: `Spec => SettledForever`.

The argument is one of counting. The frames, continuations, reactions and jobs that
are to settle a promise are its owners; a pending promise whose resolving functions
the program does not have has exactly one. Each operation of the interpreter settles
a promise or hands it from one owner to one other (`Handed`). Existence alone is not
inductive: a step that takes one owner away would have to know that it was the only
one. Suspended functions and the reactions that resume them are counted likewise. The
shape of the stack (`Shape`) is part of the invariant, and gives `DrainDepth`.

### Generators

Assumption: `GeneratorsAssumption`; none for the abstract queue. `GeneratorProofs.tla`:

- `Types`, `OneLife`, `EveryRequestAnswered`: `Spec => []P` for `TypeOK`, `BusyOnce`
  and `NoneForgotten`.
- `Refinement`: `Spec => RequestsInLine`, the generators implement RequestQueue.

The inductive invariant gives an async generator whose executing flag is set exactly
one *life*: a body on the stack, an answer that waits for jobs, a job that will resume
it, or a frame asleep that one job will wake. The life has in hand the oldest
unanswered request, and `async_queue` has the others. Each action of GeneratorPromises
starts a life, ends one, or turns one form into another. The refinement maps each
action to asking one request, to answering the head of the line, or to a stutter.

`RequestQueueProofs.tla` proves `RequestsAnsweredInOrder`: in RequestQueue a request
is never answered before an older one of the same generator unless that generator is
closed. Its inductive invariant says that the line of a generator is exactly its
unanswered requests, in the order they were made (`LineIsUnanswered`). With the
refinement it holds of what callers of the interpreter's generators see.

### Regular expressions

Assumption: `InputsAssumption` (strings are sequences of characters).
`RegexSearchProofs.tla`:

- `LongestFound`: `Spec /\ []WellCompiled => []LeftmostLongest`.
- `ThreadsOnce`: `Spec /\ []WellCompiled => []OneThreadPerInstruction`.
- `AttemptsRight`: `Spec /\ []WellCompiled => AttemptsDecided`: each attempt, in a
  search for all matches too, reports the longest match from its start or is given up
  because there is none. From it a reader has of every match of `replace` what
  `LongestFound` says of the first.

They hold for every string, every set of flags and every program that is well
compiled: it begins with `Save 0` and ends with `Save 1` and `Match`, and its jumps
stay between. That the compiler makes such programs is `WellCompiled`, which `regex`
checks for each of its literals; the compiler itself is a recursion over trees.

`Reached(p)` is computed by as many rounds as there are pairs of an instruction and a
position. That this many are enough is a matter of counting: a round that adds
nothing is the last that does, and otherwise there is one pair more
(`ReachedIsLeast`). So it is the least set with the start that no thread leaves,
and that is all the proof uses of it.

The inductive invariant (`Attempting`) compares the machine, which has only the
threads of one position, with that set. What was visited at the position is in it
(`Visited`). What an instruction leads to was visited or is in `todo` (`Followed`).
The lists hold the instructions that take a character, each once (`Queued`). The
match so far ends at the last position before this one where one can end
(`Longest`), and its captures 0 and 1 are where it begins and ends (`Captured`).
When nothing is left to do at a position, the threads that are elsewhere or were
visited here are a set that no thread leaves, so that every thread of the position
was visited (`Complete`). From there a character on (`CharacterMoves`), or, when no
thread waits, at the end (`AttemptEnds`).

The theorems say that the match is the *longest*. That is not what JavaScript asks
for (see `PreferredWay` under the findings), and it does not depend on the order of
the threads. About the captures of groups, which do depend on it, they say nothing;
`MatchAgrees` does.

### Checked by TLC only

- Every `Termination`: liveness under fairness is out of the prover's reach.
- Everything about compiled programs and early errors. SyntaxTree, Lowering, Reference,
  Machine, EarlyErrors and StaticRules are recursive operators over trees.
- Of regular expressions, what relates a match to the tree: `WellCompiled`,
  `ReadAlike`, `MatchAgrees` and `GlobalMatches`. The compiler and
  the meaning of a pattern are recursive over trees too.
- The properties that fail (see the findings).

## Plan

1. An abstract specification of what a promise is to its reactions (settled once, each
   reaction run once and in order) for PromiseJobs to implement.
2. Deferred evaluation, as a second way to start the bodies of ModuleEvaluation.

## Not modelled

- *Deferred evaluation* (interp.rs 3193-3261). It starts bodies beside the
  evaluator, with flags of its own; see the plan.
- *The parser* other than early errors. It turns text into trees; the models start
  from trees and say which of them it makes (`ProgramFamilies!Parsed`). Of the
  *lexer* only regular expression literals are modelled.
- *In the interpreter*: the frame limit and the step budget, @@unscopables,
  brands per evaluation of a class, execution of the source given to eval, the
  environment records a module starts with, and generator and async frames in
  Machine (they are in Generators and PromiseJobs, where code is left open).
- *In Generators*: delegates that are generators or whose methods run code of the
  program, and the adapter from sync iterators.
- *Values, objects, realm and builtins* other than promises and regular
  expressions; *tokens, source map, diagnostics, code generation, command line*:
  data transformations, I/O or skeletons, without the interleavings and failures
  a model checker is for.
- *The test262 runner*: a harness around the engine. Its pipe and its time limit
  are in the hazards.

`PROJECT.json` lists every component with its state, and the hazards with the
properties that watch them.
