# TLA+ models of the Maroon IR builder and interpreter

The code lives in `src/cpp_ir/src/`. A Maroon test program is written in the DSL of `boilerplate/dsl.spec.h`. The macros expand into calls of the `Register*` handlers of `boilerplate/dsl.prefix.h`, which assemble a `MaroonIRScenarios` value (the IR of `ir.h`). A code generator, which is not part of the repository, lowers each fiber of that IR into a flat table of `MaroonStep`s. `MaroonEngine::run` in `engine.h` then executes that table.

The project models the stateful parts: the builder's two halves (the declarations, and the function bodies), and the interpreter. It also models the lowering between them, as spec.md 4.3 describes it.

## Inventory

| Part | Source | State | Operations | Module |
|---|---|---|---|---|
| Value layer | engine.h 13-136, 323-387 | U64, BOOL and OPTIONAL values | construction, `operator=`, arithmetic that wraps, comparisons, EXISTS/VALUE, type names, display, transcript lines | `MaroonValues` |
| Interpreter | engine.h 181-570 | call stack of `ImplCallStackEntry` (index, function, return slot, vars, args), output | one loop iteration per step: past-table check, pre-step truncate, `new_vars`, the step's code, then Branch, Call, Return or next | `MaroonEngine` (abstract `IRInterp`) |
| Lowering | (generator, not in repo) | none: a pure function | IR to step table | `Lowering` (spec_modelled) |
| Body builder | dsl.prefix.h 9-112, 300-534 | `current_fn_blocks_stack`, `blocks_stack`, `next_placeholder_idx`, `current_function_name`, the fiber's functions, and the C++ stack of DSL lambdas | FN, STMT, VAR, ARG, BLOCK, IF, MATCH_ENUM_STMT, ENUM_ARM, ENUM_DEFAULT and their lambdas' returns | `IRBuilder` (with `IRNodes`, abstract `IRTree`) |
| Test registry | dsl.spec.h 58-79, ir.h 212-241; the runner is not in the repository | the `tests` list of `MaroonIRScenarios` | TEST_FIBER, TEST_FIBER_SHOULD_THROW, the runner's comparison (spec.md 4.4) | `MaroonTests` (runner spec_modelled) |
| Declaration builder | dsl.prefix.h 114-298, 489-497, 536-574 | namespace, fiber and type names, optional-type tally, `finalized` | MAROON, FIBER, TYPE, ENUM, FIELD, CASE, the scope checks of FN/VAR/ARG, Finalize | `IRDecls` |
| diff_ir, schema emitters | *.cc | none | I/O | not modelled |

### How the parts interact

The builder's output, the function bodies, is the lowering's input. The lowering's output is the engine's program.

In `MCMaroonEngine` the programs are written as IR values shaped the way the builder emits them:
- args come first among a body's vars;
- a capture alias comes last among its arm's vars;
- functions are in `std::map` order.

`Lowering` turns each into the step table.

## Modules

- **`Lowering`**. Recursive operators `LowerFns`, `LowerBlock`, `LowerItem` and `LowerArms` produce the step table. Each step records:
  - `before` (`num_vars_available_before_step`);
  - `declared` and `decl` (what `new_vars` declares);
  - the op;
  - the function it belongs to.

  An IF becomes a branch with two targets, the then unit, a jump past the else unit, and the else unit. A match becomes a branch to every arm start; each arm is a block and a jump to the end. `FnStart` gives the `FN_<f>` constants.

  Each step also records `here`: the structured work that remains from it on. That is a list of IR items and `LeaveScope(n)` markers, one per enclosing block, which cut the frame's vars back to `n`. `Settle` drops the leading markers. This bookkeeping produces nothing the engine reads. The refinement mapping uses it to recover a frame's continuation.
- **`MaroonTests`**. `TestRunFiber(golden)` and `TestShouldThrow(error)` are the records the two TEST macros push. `Passes(tc, res)` is the runner of spec.md 4.4: a run test compares the transcript lines, and a throw test compares the error text. `MaroonEngine!Result` is what `run()` returns: the transcript with no error, or no transcript with `ErrorText`, the ImplException's text. The text is written as the code's literal pieces and the names streamed between them. The backquotes are dropped, because a TLA+ string cannot hold one.
- **`MaroonValues`**. The value layer as operators, with no variables:
  - a value is `[t |-> "U64", n]` with `n` taken mod `2^Width`, `[t |-> "BOOL", b]`, or `[t |-> "OPTIONAL", of, has, inner]`;
  - `Construct(T, v)` is `make_unique<T>(v)` as `pack_args` and `RETURN(x)` use it, and `Assign` is `operator=`;
  - `Arith` and `Compare` are `DEFINE_BINARY_OP` and `DEFINE_BOOLEAN_OP`, so `+`, `-` and `*` wrap;
  - `ClassOf` is what `dynamic_cast` tests, and `TypeName` is `MAROON_type_name()`. For an OPTIONAL_T that is T's name (engine.h:110);
  - `Display` is `MAROON_display`, character by character (`Decimal` writes the digits).

  `DebugLine`, `ExprLine`, `VarsChars` and `StackLine` are the lines `ImplEnv` writes. A line is a sequence of characters and whole words (a DEBUG message, an expression's text, a name).
- **`MaroonEngine`**. Its variables are:
  - `prog`, the compiled fiber;
  - `stack`, the call stack;
  - `out`, the transcript;
  - `status`: running, done, error, or `exit`/`segv` for `std::exit(1)` and a null or out-of-range dereference;
  - `err`, the ImplException kind.

  There is one action per kind of step (`StepNop`, `StepDebug`, `StepExpr`, `StepSet`, `StepDumpVars`, `StepDumpStack`, `StepIf`, `StepMatch`, `StepBranch`, `StepCall`, `StepReturn`), plus `MissingReturn` for the check at engine.h:506. Each action contains the whole iteration:
  - the pre-step checks and truncation (`Prepared`, `PreFails`);
  - the `DeclareVar`, `DeclareFunctionArg` and `DeclareCapturedAlias` calls;
  - the collector outcome and the stack update.

  A var holds a `MaroonValues` value, or `Null` for the alias that `DeclareCapturedAlias` leaves empty. A statement reads its operands through `AccessVar`. A read fails with `exit` on a wrong slot or name, with `segv` on a null value, or with a TypeMismatch whose message record `msg` holds the name, the printed type, the expected type and the class actually held. `VALUE()` of an empty optional fails with `escape`: `Value()` of an empty Optional throws an exception that `run()` does not catch. C++ does not fix the order in which operands are evaluated, so any failing read may be the one that ends the step. An IF head evaluates its condition and a match head dispatches on the payload's type; branches are no longer nondeterministic.
- **`IRInterp`**. What running a fiber means on the IR tree itself. Each frame holds a continuation of IR items and scope markers, its vars, the args not yet bound and its return slot:
  - `EnterBlock` binds a block's vars and pushes its code;
  - `RunIf` and `RunMatch` pick a unit or an arm by the values: the condition, or the payload's type (the keyed arm, else `default`, else nothing);
  - `DoExpr`, `DoSet`, `DoDebug` and the dumps write the transcript and the vars with `MaroonValues`;
  - `DoCall` and `DoReturn` push and pop frames;
  - `FnEnd` is MissingReturn.

  There are no indices and no jumps. `MaroonEngine!Abs` instantiates it with these substitutions:
  - `fns` is the source IR of the compiled program (`SourceIR`);
  - each frame maps, via `AbsFrame`, to its function, to the settled `here` of the step it resumes at (a caller's is the `here` after its CALL), to its vars cut to that step's scope, and to its unbound args.

  `AbsFramesUpTo` builds the frame tuple one element at a time.
- **`IRNodes`**. The ir.h node structs as records. They keep lines, var kinds and capture fields, and drop strings copied through unchanged.
- **`IRBuilder`**. `ctl` is the C++ stack of DSL lambdas being run. Each frame holds the locals of the Register* frame: the block key and saved depth, the collected arms, the arm key and capture. An event action (`StartFn`, `Stmt`, `Var`, `Arg`, `OpenBlock`, `OpenIf`, `OpenMatch`, `OpenArm`) takes the next `__LINE__`. A return action (`EndFn`, `CloseBlock`, `IfNext`, `CloseIf`, `CloseArm`, `CloseMatch`) runs what the handler does after its lambda. The effects are as follows:
  - `MarkInnerBlockAsCompleted` keeps the checks WTF0 to WTF5.
  - `CloseIf` extracts the else unit, then the then unit.
  - `CloseArm` wraps the unit with `AsBlock`.
  - `CloseMatch` is `AddArms` followed by the destructor.

  `std::exit` is `status = "exit"`, and a `back()` of an empty block is `"ub"`. `WellFormed` restricts streams to the DSL's grammar: an IF branch and an arm each emit exactly one unit, and no VAR goes inside them. With `WellFormed = FALSE` they may emit none or several units and declare VARs, which `NOPARENS` in dsl.spec.h lets a user write. `emitted` is a history variable: the lines of every STMT and VAR of each FN, for `NothingDropped`.
- **`IRTree`**. The abstract builder. It builds the tree directly from a stack of constructs under construction, with no placeholders, as the design notes of spec.md describe. `IRBuilder!Tree` instantiates it through a refinement mapping. Each `ctl` frame maps to the part of its host block from its start index (`at`) to where the next frame started.

- **`IRDecls`**. The declaration side of the builder. Its variables are:
  - `nsLine`, `fiberLine` and `fnDefined` (the names already in `out`);
  - `types` (each namespace's type table: struct, enum or synthesized optional, with its line);
  - `uses` (every type name a FIELD, CASE, VAR or ARG mentions, as stored);
  - `cur` (the `current_*_name` fields), `inFn`, `optionals` (`optional_types_per_maroon`) and `finalized`.

  Each constructor (`OpenMaroon`, `OpenFiber`, `OpenStruct` and `OpenEnum` through `OpenType`, `OpenFn`) keeps its scope and duplicate checks. Each `operator<<` return (`CloseMaroon`, `CloseFiber`, `CloseStruct`, `CloseEnum`, `CloseFn`) keeps its FOO/BAR checks and its reset. `Field` and `Case` (through `Member`) and `Var` call `SupportOptionalTypes`, and `Arg` does not, as in the code. `Finalize` exits on a collision with a user type and otherwise installs the `Optional` declarations. It is called by the generated `main()`, which is not in the repository, so it is taken once, at the top level, and it ends the stream.

## Runs

| Run | Checks | Result |
|---|---|---|
| engine_pass | `TypeOK`; `NoAbort` (on these well-formed programs: no internal exit, no crash, no escaping exception; the null and fall-through runs show step tables where the engine does abort); `TestsPass` (every scenario's test passes once `run()` returns. The scenarios are those of spec.md 8, `Sums(x, y)`, `MissingReturns(b)` and the recursive `Fact(k)`. Golden transcripts are compared line by line and error texts exactly; each `Sums(x, y)` golden is what `SumsOut` computes with explicit overflow arithmetic, and each `Fact(k)` golden is the factorial reduced mod 2^Width once, at the end); `FrameMatchesScope` (each frame's vars match, by name and type, the scope of the step it resumes at); `Terminates`; `RunsTree` (every behaviour of the engine, over the lowered table, is a behaviour of `IRInterp` over the source tree, transcript included) | pass, 516 states |
| engine_read_order | `ReadOutcomeUnique` (a step's failing reads all fail the same way, since spec.md 4.4's runner compares a TEST_FIBER_SHOULD_THROW's error text verbatim; spec.md 8's determinism covers only the transcript, which is empty on an error) | violation: `DEBUG_EXPR(f + g)` with two BOOL vars read as U64 fails naming `f` or `g`. Which one depends on the order in which the compiler evaluates the operands of `operator+` (engine.h:66) |
| engine_mismatch_message | `MismatchNamesActualType` (spec.md 4.3: the TypeMismatch message names the var's actual type) | violation: an OPTIONAL<U64> read as a U64 says "of type `U64` as `U64`", because OPTIONAL_T's `MAROON_type_name()` is T's (engine.h:110, 450) |
| engine_null_deref | `NoNullDeref` with DEBUG_DUMP_VARS in a capturing arm | violation: null `value->MAROON_display` (engine.h:363) |
| engine_fall_through | `StepsStayInFunction` with a function missing its RETURN() | violation: it runs into the next function (engine.h:506) |
| builder_pass | `NoInternalError` (none of the builder's internal exits fires, and no read of an empty block); `BuildsTree` (refinement of `IRTree`) | pass |
| builder_nameless_capture | `OnlyCapturingArmsAlias` | violation: `ENUM_ARM(key, stmt)` gets an alias named "" (dsl.spec.h:44) |
| builder_loose | with `WellFormed = FALSE`: `TypeOK`; `NoSpliceFailure` (the index `EnterBlock` saves always finds its placeholder: no WTF exit); `NoPlaceholderLeft` (no placeholder reaches a finished body) | pass, about 406,000 states |
| builder_drop | `NothingDropped` (every STMT and VAR of a finished FN is in its body) | violation: `ENUM_ARM(k, (STMT(a); STMT(b)))` loses `STMT(a)`, and a VAR in an arm is lost the same way, with the match's scratch block (dsl.prefix.h:308) |
| builder_if_steals | `IfTakesItsBranches` (an action property: when the If is assembled, the block holds exactly the two units its branches appended) | violation: `STMT(a); STMT(b); IF(c, , )` builds an If whose branches are `a` and `b`, because `RegisterIf` (dsl.prefix.h:442-444) extracts the last two items whatever the branches emitted |
| decls_pass | `TypeOK`; `NoInternalError` (only a duplicate name or an OPTIONAL_T collision stops the build); `OptionalsDeclared` (after Finalize every OPTIONAL_T a FIELD, CASE or VAR uses is declared, with the line of its first use); `UserTypesKept` (no user TYPE or ENUM is ever replaced) | pass, about 114,000 states |
| decls_arg_optional | `TypeNamesResolve` (spec.md 3: every mentioned type name resolves) | violation: `ARG(x, OPTIONAL<U64>)` keeps the name `OPTIONAL<U64>`, because `RegisterArg` skips `SupportOptionalTypes` (dsl.prefix.h:521) |

### Bounds

- **Engine.** `Width = 3`, so U64 values are 0..7 and a sum of two `Inputs` = {0, 3, 5, 7} wraps in 8 of the 16 pairs, and to 0 in two of them (3 + 5 and 5 + 3). The pass programs are:
  - the seven end-to-end scenarios of spec.md 8;
  - `Sums(x, y)` for all 16 pairs, whose `r < x` test sees the wrap;
  - `MissingReturns(b)` and `NestedCalls(k)`;
  - `Fact(k)` for k in 0..4, a recursive function whose result lands in its own caller's slot, down to a stack of six frames.

  Together they contain:
  - calls that capture into slots of inner scopes;
  - a return from a capturing arm;
  - a branch whose else is a scoped block;
  - RETURN() without a value while the caller captures;
  - a function without RETURN().

  - wrapping `+`, `-=` and `*=`, an optional set from a U64 and matched with and without a payload, NONE passed as an optional argument.

  Conditions are evaluated, so recursion ends by the program's own values. `Fact(4)` reaches a stack of six frames and wraps 24 to 0.
- **Builder.** Event streams of `MaxLine = 6` events over two function names. That is enough for:
  - a BLOCK inside an IF inside a BLOCK;
  - two arms, one of which captures;
  - a duplicate FN.

  The run visits about 180,000 states in about 12 s. The ill-formed run uses the same bound; it covers an IF whose branches emit nothing, so the IF steals earlier statements or reads an empty block, and an arm with two units or a VAR.
- **Declarations.** Streams of `MaxLine = 6` events, then Finalize, over:
  - two namespaces and one fiber and function name;
  - a user type `P` and a user type named `OPTIONAL_BOOL`, so the collision exit is reachable;
  - the base types `U64` and `BOOL`, spelled plain or as `OPTIONAL<>`.

  That covers two OPTIONAL uses in one namespace, in any order of FIELD, CASE and VAR, as well as the same T in both namespaces. The ARG run lets an ARG be spelled `OPTIONAL<>`; the pass run does not.

### Fairness

`run()` is a single-threaded loop that nothing blocks, so `WF_vars(Next)` is justified. `IRInterp` assumes the same fairness, so `RunsTree` also requires that the engine does not stop while the tree interpreter could still move. The builder runs are safety-only. Deadlock checking is off in all of these runs, for different reasons:
- the engine's run really returns;
- a builder stream really ends after its last event.

## Not modelled, and the plan

- **Finalize called twice.** Its caller, the generated `main()`, is not in the repository.
- **Nested `OPTIONAL<OPTIONAL<T>>`.** `SupportOptionalTypes` strips only the outer level, so the inner name stays spelled. Bases are plain names in `IRDecls`.
- **Width.** U64 is 3 bits wide, not 64. The wrap behaves the same at any width, and a small width lets a few inputs reach it.
- **The argument check with OPTIONAL values.** An `OPTIONAL_T` value reports the name `T` (engine.h:110), so the check at engine.h:414 cannot tell an OPTIONAL_U64 argument from a U64 one. `pack_args` always builds the declared type, so this is never reached.
- **The test selection.** A test's maroon and fiber names select its program. The models pair each test with its program, so the selection is not modelled.
- **The "corrupted stack" checks of the Declare calls** (engine.h:390-393, 402-405, 422-425). The generated code numbers a step's declarations from the count of vars in scope before the step. After the truncation that count is the frame's length, so `idx != vars_.size()` never holds; declarations carry no index in `Lowering`.
- **WRONG NUMBER OF ARGS** (engine.h:211-214, 230-233). `pack_args<MAROON_F_ARGS_f>` only compiles when the call passes as many arguments as `f` has parameters, because `MaroonPackArgsImpl` has no specialization for lists of unequal length. `NUMBER_OF_ARGS_f` is that same count, so `StepCall` leaves this check out.
- **VALUE() of an empty optional in a run.** `Eval` models the escape, but no modelled program unwraps an empty optional. The code marks this as a TODO (engine.h:132).
- **RETURN(x) from main** (engine.h:544). No modelled `main` returns a value.
- **The collector's multiple-outcome checks** (engine.h:197, 208, 227, 243, 253). A generated step makes at most one `branch`, `call` or `ret` call, so these checks never fire.
- **The rest.** The diff and schema tools are I/O only.
