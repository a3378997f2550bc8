------------------------------ MODULE Lowering ------------------------------
(***************************************************************************)
(* The lowering of a fiber's IR into the flat step table that the engine   *)
(* (src/cpp_ir/src/engine.h, MaroonEngine::run) executes.  The code        *)
(* generator that performs this lowering is not part of the repository;    *)
(* these operators follow the "Compile step" of spec.md section 4.3: one   *)
(* step per primitive unit (leaf statement, If head, arm head, block       *)
(* entry), each step carrying the number of variables visible at entry     *)
(* (num_vars_available_before_step), the variables it declares            *)
(* (num_vars_declared_for_step / new_vars), and explicit jump targets in   *)
(* place of nesting.                                                       *)
(*                                                                         *)
(* IR values (after ir.h):                                                 *)
(*   Var   [kind |-> "reg", name, type, init]  (VAR with its initial value)*)
(*         [kind |-> "arg" | "capture", name, type]                        *)
(*   Item  [k |-> "stmt", op]            a MaroonIRStmt                    *)
(*         [k |-> "block", vars, code]   a MaroonIRBlock                   *)
(*         [k |-> "if", cond, yes, no]   a MaroonIRIf                      *)
(*         [k |-> "match", var, arms]    a MaroonIRMatchEnumStmt, each arm *)
(*                                       a block with its case key (the    *)
(*                                       payload type) or "default"       *)
(*   Fn    [name, args, ret, body]       a MaroonIRFunction                *)
(* An operand is a var read [slot, name, type] (AccessVar<T>(slot, name)), *)
(* the payload [unwrap |-> r] of the optional r reads (VALUE), or a       *)
(* literal [lit |-> v] (Null for NONE); an expression is an operand or    *)
(* [op, l, r] with op in {"+", "-", "*"}; a condition is [cmp, l, r] with  *)
(* a comparison of U64 operands, or [cmp |-> "is", l] of a BOOL operand.   *)
(* A statement's op is what its C++ code does to the engine:               *)
(*   [o |-> "debug", msg]   [o |-> "dumpvars"]   [o |-> "dumpstack"]       *)
(*   [o |-> "expr", text, e]          (DEBUG_EXPR(e), text its spelling)   *)
(*   [o |-> "set", dst, how, e]       (dst = e, or dst += e etc.: how)     *)
(*   [o |-> "call", fn, ret, args]    (CALL2 / CALL3; ret a slot or NoSlot)*)
(*   [o |-> "ret", val, e]            (RETURN() / RETURN(e))               *)
(* The lowering adds the control ops [o |-> "nop"] (block entry),          *)
(* [o |-> "if", cond, yes, no] and [o |-> "match", var, arms, end] (the   *)
(* heads, arms a table of [key, at]) and [o |-> "branch", targets] (the  *)
(* jumps past a branch).  Step indices are 0-based as MaroonStateIndex is. *)
(***************************************************************************)
EXTENDS Naturals, Sequences

(* The operands an expression reads, and the expressions a condition has. *)
IsLit(e) == "lit" \in DOMAIN e
IsArith(e) == "op" \in DOMAIN e

RECURSIVE Operands(_)
Operands(e) ==
  IF IsArith(e) THEN Operands(e.l) \cup Operands(e.r) ELSE IF IsLit(e) THEN {} ELSE {e}

CondExprs(c) == IF c.cmp = "is" THEN {c.l} ELSE {c.l, c.r}

Nop == [o |-> "nop"]
Branch(targets) == [o |-> "branch", targets |-> targets]
(* A generator that swaps the two targets of an IF head. *)
IfHeadSwapped(cond, yes, no) == [o |-> "if", cond |-> cond, yes |-> no, no |-> yes]
IfHead(cond, yes, no) == [o |-> "if", cond |-> cond, yes |-> yes, no |-> no]
MatchHead(var, arms, end) == [o |-> "match", var |-> var, arms |-> arms, end |-> end]

(* Where a match head sends the optional x: to the arm whose key is the   *)
(* payload's type if x has one, else to the default arm, else past the    *)
(* match.                                                                  *)
ArmFor(arms, end, x) ==
  LET keyed == {a \in {arms[i] : i \in DOMAIN arms} : x.has /\ a.key = x.of}
      dflt  == {a \in {arms[i] : i \in DOMAIN arms} : a.key = "default"}
  IN  CASE keyed # {} -> (CHOOSE a \in keyed : TRUE).at
        [] dflt # {}  -> (CHOOSE a \in dflt : TRUE).at
        [] OTHER      -> end

(* The end of a block's scope in a structured continuation: the frame     *)
(* keeps its first n vars.                                                 *)
LeaveScope(n) == [k |-> "leave", n |-> n]

(* A step of the table; fn, scope and here are bookkeeping of the lowering *)
(* (the function the step belongs to, the variables visible after its     *)
(* decls, and the structured work left in the function from this step on:  *)
(* IR items and LeaveScope markers; ctx.rest is what follows the item).    *)
Step(ctx, decl, op, here) ==
  [before   |-> Len(ctx.scope),
   declared |-> Len(decl),
   decl     |-> decl,
   op       |-> op,
   fn       |-> ctx.fn,
   scope    |-> ctx.scope \o decl,
   here     |-> here]

(* Number of steps an item lowers to. *)
RECURSIVE Size(_), SizeSeq(_)
SizeSeq(items) == IF items = <<>> THEN 0 ELSE Size(Head(items)) + SizeSeq(Tail(items))
Size(it) ==
  CASE it.k = "stmt"  -> 1
    [] it.k = "block" -> 1 + SizeSeq(it.code)
    [] it.k = "if"    -> 2 + Size(it.yes) + Size(it.no)
    [] it.k = "match" -> 1 + SizeSeq(it.arms) + Len(it.arms)

(* Case key and first step of every arm of a match whose first arm starts *)
(* at start.                                                               *)
RECURSIVE ArmTable(_, _)
ArmTable(arms, start) ==
  IF arms = <<>> THEN <<>>
  ELSE << [key |-> Head(arms).key, at |-> start] >> \o ArmTable(Tail(arms), start + Size(Head(arms)) + 1)

RECURSIVE LowerItem(_, _, _), LowerSeq(_, _, _), LowerBlock(_, _, _), LowerArms(_, _, _, _)

(* A block: an entry step declaring the block's vars, then its code in the *)
(* widened scope; leaving it is a step whose `before` is the outer count.  *)
LowerBlock(b, start, ctx) ==
  << Step(ctx, b.vars, Nop, <<b>> \o ctx.rest) >>
    \o LowerSeq(b.code, start + 1, [ctx EXCEPT !.scope = @ \o b.vars,
                                               !.rest  = <<LeaveScope(Len(ctx.scope))>> \o @])

LowerSeq(items, start, ctx) ==
  IF items = <<>> THEN <<>>
  ELSE LET h == LowerItem(Head(items), start, [ctx EXCEPT !.rest = Tail(items) \o @])
       IN  h \o LowerSeq(Tail(items), start + Len(h), ctx)

(* Each arm is its block followed by a jump past the whole match. *)
LowerArms(arms, start, ctx, end) ==
  IF arms = <<>> THEN <<>>
  ELSE LET a == LowerBlock(Head(arms), start, ctx) \o << Step(ctx, <<>>, Branch({end}), ctx.rest) >>
       IN  a \o LowerArms(Tail(arms), start + Len(a), ctx, end)

LowerItem(it, start, ctx) ==
  CASE it.k = "stmt"  -> << Step(ctx, <<>>, it.op, <<it>> \o ctx.rest) >>
    [] it.k = "block" -> LowerBlock(it, start, ctx)
    [] it.k = "if"    ->
         LET yesAt == start + 1
             noAt  == yesAt + Size(it.yes) + 1
         IN  << Step(ctx, <<>>, IfHead(it.cond, yesAt, noAt), <<it>> \o ctx.rest) >>
               \o LowerItem(it.yes, yesAt, ctx)
               \o << Step(ctx, <<>>, Branch({noAt + Size(it.no)}), ctx.rest) >>
               \o LowerItem(it.no, noAt, ctx)
    [] it.k = "match" ->
         << Step(ctx, <<>>, MatchHead(it.var, ArmTable(it.arms, start + 1), start + Size(it)), <<it>> \o ctx.rest) >>
           \o LowerArms(it.arms, start + 1, ctx, start + Size(it))

(* The fiber: its functions laid out one after another in the order of    *)
(* the std::map that holds them (fns is that order), each body lowered     *)
(* from an empty scope.                                                    *)
RECURSIVE LowerFns(_, _)
LowerFns(fns, start) ==
  IF fns = <<>> THEN <<>>
  ELSE LET f == Head(fns)
           b == LowerBlock(f.body, start, [scope |-> <<>>, fn |-> f.name, rest |-> <<>>])
       IN  b \o LowerFns(Tail(fns), start + Len(b))

(* Leading LeaveScope markers of a continuation, applied: the work left   *)
(* and the number of vars the frame keeps (n while no scope is left).     *)
RECURSIVE Settle(_, _)
Settle(ws, n) ==
  IF ws # <<>> /\ Head(ws).k = "leave" THEN Settle(Tail(ws), Head(ws).n) ELSE <<ws, n>>

RECURSIVE FnStarts(_, _)
FnStarts(fns, start) ==
  IF fns = <<>> THEN {}
  ELSE {<<Head(fns).name, start>>}
         \cup FnStarts(Tail(fns), start + Size(Head(fns).body))

(* FN_<name>: the step index a call to the function jumps to. *)
FnStart(fns, name) == CHOOSE s \in {p[2] : p \in {q \in FnStarts(fns, 0) : q[1] = name}} : TRUE

=============================================================================
