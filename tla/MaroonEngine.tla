---------------------------- MODULE MaroonEngine ----------------------------
(***************************************************************************)
(* The interpreter of src/cpp_ir/src/engine.h: MaroonEngine::run, the      *)
(* ImplEnv it drives (call stack of ImplCallStackEntry frames, DeclareVar, *)
(* DeclareFunctionArg, DeclareCapturedAlias, AccessVar, the DEBUG_* lines) *)
(* and the ImplResultCollector that a step's code fills in.                *)
(*                                                                         *)
(* One action is one iteration of the `while (!call_stack_.empty())` loop  *)
(* (engine.h:505-564): the past-the-end check, the pre-step vars check,    *)
(* the truncation, new_vars, the intra-step check, the step's code and the *)
(* dispatch on the collector's status.  The actions differ only in what    *)
(* the step's code does.  Values are those of MaroonValues; a captured     *)
(* alias holds no value at all (Null).                                     *)
(*                                                                         *)
(* Outcomes: "done" (run returns {transcript, ""}), "error" (an            *)
(* ImplException: run returns {"", message}), "exit" (std::exit(1) on an   *)
(* internal invariant), "segv" (a dereference of a null value) and        *)
(* "escape" (an exception that is not an ImplException leaves run()).     *)
(***************************************************************************)
EXTENDS Naturals, Sequences, Lowering, MaroonValues

CONSTANTS
  Programs,  (* fibers to run: each a sequence of functions in map order   *)
  Main,      (* the entry function's name ("main")                         *)
  NoSlot     (* static_cast<MaroonVarIndex>(-1): the return is discarded  *)

VARIABLES
  prog,     (* the fiber's compiled form: steps, FN_ starts, signatures   *)
  stack,    (* ImplEnv::call_stack_                                        *)
  out,      (* the transcript written to os_                               *)
  status,   (* "running", "done", "error", "exit", "segv" or "escape"      *)
  err,      (* the ImplException's kind once status = "error"             *)
  msg       (* what a TypeMismatch message names: the variable, the two   *)
            (* type names, and (not in the text) the class of its value   *)

vars == <<prog, stack, out, status, err, msg>>

Errors == {"none", "MissingReturn", "MissingReturnValue", "TypeMismatch"}
NoMsg == [name |-> "", actual |-> "", expected |-> "", held |-> ""]

(* T_FIBER::MAROON_steps() and the per-function constants the generated    *)
(* code bakes in: FN_<f>, MAROON_F_ARGS_<f>, MAROON_F_RETURN_TYPE_<f>.     *)
(* ir is not in the code: the fiber the table was generated from, kept for *)
(* the refinement mapping.                                                  *)
Compile(fns) ==
  LET names == {fns[i].name : i \in 1..Len(fns)}
      sig(n) == CHOOSE f \in {fns[i] : i \in 1..Len(fns)} : f.name = n
  IN  [steps |-> LowerFns(fns, 0),
       start |-> [n \in names |-> FnStart(fns, n)],
       args  |-> [n \in names |-> sig(n).args],
       ret   |-> [n \in names |-> sig(n).ret],
       ir    |-> fns]

(* ImplCallStackEntry(idx, f, call_retval_var_idx) with its args_ moved in; *)
(* home is not in the code: it is the function the frame was pushed for.   *)
Frame(idx, f, slot, args, home) ==
  [idx |-> idx, f |-> f, retslot |-> slot, vars |-> <<>>,
   args |-> args, argsUsed |-> 0, home |-> home]

Init ==
  /\ prog \in {Compile(p) : p \in Programs}
  /\ stack = << Frame(prog.start[Main], "", NoSlot, <<>>, Main) >>
  /\ out = <<>>
  /\ status = "running"
  /\ err = "none"
  /\ msg = NoMsg

Top == stack[Len(stack)]
StepAt(i) == prog.steps[i + 1]
Cur == StepAt(Top.idx)
Op == Cur.op
SetTop(fr) == [stack EXCEPT ![Len(stack)] = fr]
(* Mutant: the step index is not moved past the executed step. *)
AdvanceStuck(fr) == fr
Advance(fr) == [fr EXCEPT !.idx = @ + 1]

(***************************************************************************)
(* Variable declaration, engine.h:389-431.  Exit marks a std::exit(1).    *)
(* The "corrupted stack" exits of all three (idx != vars_.size(),         *)
(* engine.h:390-393, 402-405, 422-425) are left out: the generated code   *)
(* numbers a step's declarations from the count of vars in scope before   *)
(* the step, which is exactly Len(vars) after Truncate, so the check is   *)
(* never taken and a decl carries no idx.  Exit stands for the two arg    *)
(* checks of DeclareFunctionArg.                                          *)
(***************************************************************************)
Exit == [failed |-> TRUE]
IsExit(fr) == "failed" \in DOMAIN fr

(* DeclareVar(idx, name, init): the VAR's initial value. *)
DeclareVar(fr, v) == [fr EXCEPT !.vars = Append(@, [name |-> v.name, val |-> v.init])]

(* The next packed arg is moved in; its runtime type name must be the     *)
(* static name of the ARG's type.                                          *)
DeclareFunctionArg(fr, v) ==
  IF fr.argsUsed >= Len(fr.args) THEN Exit
  ELSE LET a == fr.args[fr.argsUsed + 1] IN
       IF StaticTypeName(v.type) # TypeName(a) THEN Exit
       ELSE [fr EXCEPT !.vars = Append(@, [name |-> v.name, val |-> a]),
                       !.argsUsed = @ + 1]

DeclareCapturedAlias(fr, v) == [fr EXCEPT !.vars = Append(@, [name |-> v.name, val |-> Null])]

(* step.new_vars(env): the step's declarations, in order. *)
RECURSIVE NewVars(_, _)
NewVars(fr, decl) ==
  IF IsExit(fr) \/ decl = <<>> THEN fr
  ELSE LET v == Head(decl)
           nx == CASE v.kind = "reg"     -> DeclareVar(fr, v)
                   [] v.kind = "arg"     -> DeclareFunctionArg(fr, v)
                   [] v.kind = "capture" -> DeclareCapturedAlias(fr, v)
       IN  NewVars(nx, Tail(decl))

(* Mutant: the resize that releases the vars of a left scope is dropped. *)
TruncateNone(fr, n) == fr
(* vars_.resize(num_vars_available_before_step): scope exit. *)
Truncate(fr, n) == [fr EXCEPT !.vars = SubSeq(@, 1, n)]

(* The frame after the loop's pre-step part (engine.h:511-527). *)
Prepared == NewVars(Truncate(Top, Cur.before), Cur.decl)

(* One of the loop's internal-invariant exits fires before the code runs. *)
PreFails ==
  \/ Len(Top.vars) < Cur.before
  \/ IsExit(Prepared)
  \/ Len(Prepared.vars) # Cur.before + Cur.declared

Running == status = "running" /\ Top.idx < Len(prog.steps)

Abort(how) == /\ status' = how
              /\ UNCHANGED <<prog, stack, out, err, msg>>

Throw(kind) == /\ status' = "error"
               /\ err' = kind
               /\ UNCHANGED <<prog, stack, out, msg>>

(* A step whose code leaves the collector at None: idx + 1. *)
FallThrough(fr) == /\ stack' = SetTop(Advance(fr))
                   /\ UNCHANGED <<prog, status, err, msg>>

(***************************************************************************)
(* What a step's code reads, engine.h:433-454.  A read is Ok(value) or     *)
(* Failed(how, message).                                                   *)
(***************************************************************************)
Ok(v) == [ok |-> TRUE, v |-> v]
Failed(how, m) == [ok |-> FALSE, how |-> how, m |-> m]

(* AccessVar<T>(idx, name): the slot must exist and carry the name; a     *)
(* value that is not a T is a TypeMismatch whose message names the two    *)
(* MAROON_type_name()s; a null value is dereferenced for its name.        *)
AccessVar(vs, r) ==
  IF r.slot >= Len(vs) \/ vs[r.slot + 1].name # r.name THEN Failed("exit", NoMsg)
  ELSE LET v == vs[r.slot + 1].val IN
       IF v = Null THEN Failed("segv", NoMsg)
       ELSE IF ClassOf(v) = r.type THEN Ok(v)
       ELSE Failed("TypeMismatch", [name |-> r.name, actual |-> TypeName(v),
                                    expected |-> StaticTypeName(r.type), held |-> ClassOf(v)])

(* An operand: a var, or VALUE(x) of an optional var x, whose Value() of  *)
(* an empty Optional throws an exception that is not an ImplException.    *)
Read(vs, a) ==
  IF "unwrap" \notin DOMAIN a THEN AccessVar(vs, a)
  ELSE LET x == AccessVar(vs, a.unwrap) IN
       IF ~x.ok THEN x ELSE IF x.v.has THEN Ok(x.v.inner) ELSE Failed("escape", NoMsg)

(* The reads of the expressions es that fail.  C++ leaves the order in     *)
(* which operands are evaluated unspecified, so any of them may be the    *)
(* one that ends the step.                                                 *)
Failures(vs, es) ==
  {f \in {Read(vs, a) : a \in UNION {Operands(e) : e \in es}} : ~f.ok}

RECURSIVE Eval(_, _)
Eval(vs, e) ==
  IF IsLit(e) THEN e.lit
  ELSE IF IsArith(e) THEN Arith(e.op, Eval(vs, e.l), Eval(vs, e.r))
  ELSE Read(vs, e).v

Holds(vs, c) == IF c.cmp = "is" THEN Eval(vs, c.l).b ELSE Compare(c.cmp, Eval(vs, c.l), Eval(vs, c.r))

(* A failed read: an ImplException for a TypeMismatch, else an exit, a     *)
(* crash or an escaping exception.                                         *)
Fail(f) ==
  IF f.how = "TypeMismatch"
  THEN /\ status' = "error" /\ err' = "TypeMismatch" /\ msg' = f.m
       /\ UNCHANGED <<prog, stack, out>>
  ELSE Abort(f.how)

(* The text of an ImplException, as the pieces the code writes: the     *)
(* literals, and the name and type names AccessVar streams between them.  *)
(* The backquotes of the literals are dropped: a TLA+ string has none.    *)
ErrorText(kind, m) ==
  CASE kind = "TypeMismatch" ->
         <<"Attempted to use", m.name, "of type", m.actual, "as", m.expected, ".">>
    [] kind = "MissingReturn"      -> <<"Need RETURN() at least at the last STMT() of the FN().">>
    [] kind = "MissingReturnValue" -> <<"A return value must have been provided.">>

(* What run() returns once the loop is left: the transcript and no error, *)
(* or no transcript and the ImplException's text.                          *)
Result ==
  IF status = "done" THEN [output |-> out, error |-> <<>>]
  ELSE [output |-> <<>>, error |-> ErrorText(err, msg)]

(* The expressions a step's code reads. *)
StepReads(op) ==
  CASE op.o = "expr"           -> {op.e}
    [] op.o = "ret" /\ op.val   -> {op.e}
    [] op.o = "set"             -> {op.dst, op.e}
    [] op.o = "if"              -> CondExprs(op.cond)
    [] op.o = "match"           -> {op.var}
    [] op.o = "call"            -> {op.args[i] : i \in DOMAIN op.args}
    [] OTHER                    -> {}

(* The step's code runs only once its reads succeed. *)
Reads(Body) ==
  LET F == Failures(Prepared.vars, StepReads(Op)) IN
  IF F # {} THEN \E f \in F : Fail(f) ELSE Body

(***************************************************************************)
(* The loop's iterations.                                                  *)
(***************************************************************************)

(* engine.h:506-508: the index is past kStepsCount, the whole fiber's table. *)
MissingReturn ==
  /\ status = "running"
  /\ Top.idx >= Len(prog.steps)
  /\ Throw("MissingReturn")

(* A block entry step: only its new_vars. *)
StepNop ==
  /\ Running /\ Op.o = "nop"
  /\ IF PreFails THEN Abort("exit")
     ELSE FallThrough(Prepared) /\ UNCHANGED out

(* DEBUG(s): ImplEnv::debug appends one line. *)
StepDebug ==
  /\ Running /\ Op.o = "debug"
  /\ IF PreFails THEN Abort("exit")
     ELSE FallThrough(Prepared) /\ out' = Append(out, DebugLine(Op.msg))

(* DEBUG_EXPR(e): debug_expr appends `e=` and e's display. *)
StepExpr ==
  /\ Running /\ Op.o = "expr"
  /\ IF PreFails THEN Abort("exit")
     ELSE Reads(
            FallThrough(Prepared) /\ out' = Append(out, ExprLine(Op.text, Eval(Prepared.vars, Op.e))))

(* dst = e (operator=) or dst += e, -= e, *= e (DEFINE_BINARY_OP's op2). *)
StepSet ==
  /\ Running /\ Op.o = "set"
  /\ IF PreFails THEN Abort("exit")
     ELSE Reads(
            LET old == Eval(Prepared.vars, Op.dst)
                new == IF Op.how = "=" THEN Assign(old, Eval(Prepared.vars, Op.e))
                       ELSE Arith(Op.how, old, Eval(Prepared.vars, Op.e))
            IN  FallThrough([Prepared EXCEPT !.vars[Op.dst.slot + 1].val = new])
                /\ UNCHANGED out)

(* DEBUG_DUMP_VARS(): MAROON_display of every var of the current frame. *)
StepDumpVars ==
  /\ Running /\ Op.o = "dumpvars"
  /\ IF PreFails THEN Abort("exit")
     ELSE LET vs == Prepared.vars IN
          IF \E j \in 1..Len(vs) : vs[j].val = Null THEN Abort("segv")
          ELSE FallThrough(Prepared) /\ out' = Append(out, VarsChars(vs))

(* DEBUG_DUMP_STACK(): the vars of every frame, bottom to top. *)
StepDumpStack ==
  /\ Running /\ Op.o = "dumpstack"
  /\ IF PreFails THEN Abort("exit")
     ELSE LET st == SetTop(Prepared) IN
          IF \E k \in 1..Len(st) : \E j \in 1..Len(st[k].vars) : st[k].vars[j].val = Null
          THEN Abort("segv")
          ELSE FallThrough(Prepared) /\ out' = Append(out, StackLine(st))

(* An IF head: MAROON_result.branch to the then or the else unit. *)
StepIf ==
  /\ Running /\ Op.o = "if"
  /\ IF PreFails THEN Abort("exit")
     ELSE Reads(
            /\ stack' = SetTop([Prepared EXCEPT !.idx = IF Holds(Prepared.vars, Op.cond) THEN Op.yes ELSE Op.no])
            /\ UNCHANGED <<prog, out, status, err, msg>>)

(* A MATCH_ENUM_STMT head: MAROON_result.branch to the arm for the value. *)
StepMatch ==
  /\ Running /\ Op.o = "match"
  /\ IF PreFails THEN Abort("exit")
     ELSE Reads(
            /\ stack' = SetTop([Prepared EXCEPT !.idx = ArmFor(Op.arms, Op.end, Eval(Prepared.vars, Op.var))])
            /\ UNCHANGED <<prog, out, status, err, msg>>)

(* MAROON_result.branch(idx): the jump past a branch. *)
StepBranch ==
  /\ Running /\ Op.o = "branch"
  /\ IF PreFails THEN Abort("exit")
     ELSE \E t \in Op.targets :
            /\ stack' = SetTop([Prepared EXCEPT !.idx = t])
            /\ UNCHANGED <<prog, out, status, err, msg>>

(* pack_args<MAROON_F_ARGS_f>(args...): each argument made, in order, the *)
(* callee's parameter type with make_unique.                               *)
PackArgs(f, args) ==
  [i \in DOMAIN args |-> Construct(prog.args[f][i], Eval(Prepared.vars, args[i]))]

(* CALL(f, args) / CALL(v, f, args): the caller moves past the call and a  *)
(* frame for FN_f is pushed with pack_args<MAROON_F_ARGS_f>, each arg a    *)
(* parameter type made from the argument's value.  The WRONG NUMBER OF   *)
(* ARGS throw (engine.h:211-214, 230-233) is left out: pack_args only     *)
(* compiles when the call has as many arguments as MAROON_F_ARGS_f has    *)
(* types (MaroonPackArgsImpl, engine.h:158-172, has no specialization for *)
(* unequal lengths), and NUMBER_OF_ARGS_f is that count, so the throw     *)
(* cannot be taken.                                                        *)
StepCall ==
  /\ Running /\ Op.o = "call"
  /\ IF PreFails THEN Abort("exit")
     ELSE Reads(
            /\ stack' = Append(SetTop(Advance(Prepared)),
                               Frame(prog.start[Op.fn], Op.fn, Op.ret, PackArgs(Op.fn, Op.args), Op.fn))
            /\ UNCHANGED <<prog, out, status, err, msg>>)

(* ImplResultCollector::ret<T_FUNCTION_RETURN_TYPE>(x): the returned value *)
(* made a T_FUNCTION_RETURN_TYPE, the return type of the function whose    *)
(* code the step is.                                                       *)
RetVal(e) == Construct(prog.ret[Cur.fn], Eval(Prepared.vars, e))

(* Mutant: the value is stored into the bottom frame, not the caller. *)
StoreRetBottom(st, slot, v) == [st EXCEPT ![1].vars[slot + 1].val = v]
(* The returned value lands in the caller's designated slot. *)
StoreRet(st, slot, v) == [st EXCEPT ![Len(st)].vars[slot + 1].val = v]

(* Mutant: the loop goes on as if a frame were left. *)
PoppedStale(rest) == "running"
(* After pop_back(): the while condition ends the run once the stack is empty. *)
Popped(rest) == IF rest = <<>> THEN "done" ELSE "running"

(* RETURN() / RETURN(x), engine.h:540-555.  The value is made a            *)
(* T_FUNCTION_RETURN_TYPE, the return type of the function whose code the  *)
(* step is.                                                                *)
StepReturn ==
  /\ Running /\ Op.o = "ret"
  /\ IF PreFails THEN Abort("exit")
     ELSE LET slot == Top.retslot
              rest == SubSeq(stack, 1, Len(stack) - 1)
          IN  IF Op.val
              THEN Reads(
                     IF rest = <<>> THEN Abort("exit")
                     ELSE IF slot = NoSlot
                          THEN /\ stack' = rest /\ UNCHANGED <<prog, out, status, err, msg>>
                          ELSE IF slot >= Len(rest[Len(rest)].vars) THEN Abort("segv")
                          ELSE /\ stack' = StoreRet(rest, slot, RetVal(Op.e))
                               /\ UNCHANGED <<prog, out, status, err, msg>>)
              ELSE IF slot # NoSlot THEN Throw("MissingReturnValue")
              ELSE /\ stack' = rest
                   /\ status' = Popped(rest)
                   /\ UNCHANGED <<prog, out, err, msg>>

Next ==
  \/ MissingReturn
  \/ StepNop
  \/ StepDebug
  \/ StepDumpVars
  \/ StepDumpStack
  \/ StepExpr
  \/ StepSet
  \/ StepIf
  \/ StepMatch
  \/ StepBranch
  \/ StepCall
  \/ StepReturn

(* The loop runs to completion on one thread: nothing can stall it. *)
Spec == Init /\ [][Next]_vars /\ WF_vars(Next)

(***************************************************************************)
(* Properties.                                                             *)
(***************************************************************************)

TypeOK ==
  /\ status \in {"running", "done", "error", "exit", "segv", "escape"}
  /\ err \in Errors
  /\ (status = "running") <=> (stack # <<>> /\ status \notin {"error", "exit", "segv", "escape"})
  /\ \A k \in 1..Len(stack) :
       /\ stack[k].idx \in Nat
       /\ stack[k].argsUsed <= Len(stack[k].args)
       /\ \A i \in 1..Len(stack[k].args) : stack[k].args[i] \in AllValues
       /\ \A j \in 1..Len(stack[k].vars) : stack[k].vars[j].val \in AllValues \cup {Null}

(* On the well-formed programs of the pass run (nested calls, recursion,  *)
(* MATCH arms, both missing-RETURN forms, a TypeMismatch), the engine never *)
(* takes one of its internal-invariant exits (pre-step or intra-step var  *)
(* counts, missing or mistyped packed args, a stale AccessVar slot),       *)
(* dereferences a null value or lets a non-ImplException escape.  Other   *)
(* step tables can: the null and fall-through runs show two.              *)
NoAbort == status \notin {"exit", "segv", "escape"}

(* Every frame's live vars are exactly the variables its next step may see: *)
(* the first num_vars_available_before_step slots have the names and types  *)
(* the static scope gives them, across truncation, calls and the returned   *)
(* value written into the caller's slot.                                    *)
SlotFits(slot, v) ==
  /\ slot.name = v.name
  /\ IF v.kind = "capture" THEN slot.val = Null
     ELSE slot.val # Null /\ ClassOf(slot.val) = v.type

FrameMatchesScope ==
  \A k \in 1..Len(stack) :
    stack[k].idx < Len(prog.steps) =>
      LET st == StepAt(stack[k].idx) IN
        /\ Len(stack[k].vars) >= st.before
        /\ \A j \in 1..st.before : SlotFits(stack[k].vars[j], st.scope[j])

(* The run loop ends: the stack empties or an error or exit stops it. *)
Terminates == <>(status # "running")

(* No step dereferences a var without a value: DEBUG_DUMP_VARS,          *)
(* DEBUG_DUMP_STACK and AccessVar never meet a captured alias.            *)
NoNullDeref == status # "segv"

(* A frame only ever executes steps of the function it was pushed for: a  *)
(* function that lacks a RETURN() is stopped with MissingReturn, as      *)
(* spec.md section 4.3 says, instead of running on into the next one.    *)
StepsStayInFunction ==
  status = "running" => (Top.idx < Len(prog.steps) => Cur.fn = Top.home)

(* The refinement mapping.  Each frame stands for the structured work its  *)
(* step index leaves in the function (the step's `here`): for the top     *)
(* frame from its next step on, with the scopes already left dropped, and  *)
(* for a caller from just after its CALL step.  The top frame's vars are  *)
(* the ones the next step keeps; vars the engine releases only at that    *)
(* step's pre-check are not part of the abstract state.                   *)
SourceIR == prog.ir
AbsFrame(k) ==
  LET fr   == stack[k]
      top  == k = Len(stack)
      next == IF fr.idx < Len(prog.steps)
              THEN Settle(StepAt(fr.idx).here, StepAt(fr.idx).before)
              ELSE <<<<>>, 0>>
  IN  [f       |-> fr.f,
       cont    |-> IF top THEN next[1] ELSE Tail(StepAt(fr.idx - 1).here),
       vars    |-> IF top THEN SubSeq(fr.vars, 1, next[2]) ELSE fr.vars,
       args    |-> SubSeq(fr.args, fr.argsUsed + 1, Len(fr.args)),
       retslot |-> fr.retslot]

(* Built as a tuple, one frame after another. *)
RECURSIVE AbsFramesUpTo(_)
AbsFramesUpTo(n) == IF n = 0 THEN <<>> ELSE Append(AbsFramesUpTo(n - 1), AbsFrame(n))

Abs == INSTANCE IRInterp WITH fns <- SourceIR, frames <- AbsFramesUpTo(Len(stack))

(* Running the flat step table with its jump targets, var counts and lazy *)
(* truncation does what running the IR tree does (spec.md 4.3): the same   *)
(* transcript, the same frames and variables at every step, the same      *)
(* outcome, and no internal exit or crash on the way.                     *)
RunsTree == Abs!Spec

(* A TypeMismatch's message names the type of the variable's value (spec.md *)
(* 4.3: "its actual type, and the expected type"): AccessVar prints         *)
(* MAROON_type_name() of the value it found.                                *)
MismatchNamesActualType ==
  (status = "error" /\ err = "TypeMismatch") => msg.actual = msg.held

(* spec.md 4.4: a TEST_FIBER_SHOULD_THROW test compares the error message *)
(* with its expected string verbatim, so the message must be fixed by the  *)
(* program.  (The determinism of spec.md 8 speaks of the transcript only, *)
(* which is empty on any error.)  The generated code of a statement calls *)
(* AccessVar once per var it reads, in an order C++ leaves unspecified;    *)
(* so whenever a step is about to run, its failing reads must all fail the *)
(* same way (the same exit, crash, or TypeMismatch message), or the        *)
(* message the test compares depends on the compiler.                      *)
ReadOutcomeUnique ==
  (Running /\ ~PreFails) =>
    \A f, g \in Failures(Prepared.vars, StepReads(Op)) : f = g

=============================================================================
