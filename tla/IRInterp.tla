------------------------------ MODULE IRInterp ------------------------------
(***************************************************************************)
(* What running a fiber means, stated on the IR tree itself (spec.md 4.3): *)
(* a stack of frames, each with the structured work left in its function  *)
(* (IR items and the LeaveScope markers that end a block's scope) and its *)
(* variables.  A block declares its vars on entry and drops them when its *)
(* code is done; an IF runs the unit its condition picks; a match runs     *)
(* the arm for its value's case.  There are no step indices, jump targets *)
(* or var counts here: MaroonEngine, which runs the lowered step table, is *)
(* checked to implement this.                                              *)
(*                                                                         *)
(* Values are those of MaroonValues, and a capture alias holds no value    *)
(* (Null): engine.h:426-430 leaves it empty.  A statement's op is the one  *)
(* Lowering describes.  A read of a slot that is missing, misnamed or      *)
(* empty, or the payload of an empty optional, has no meaning here: no     *)
(* step takes it.                                                          *)
(***************************************************************************)
EXTENDS Naturals, Sequences, Lowering, MaroonValues

CONSTANTS Programs, Main, NoSlot

VARIABLES
  fns,     (* the fiber's functions                                        *)
  frames,  (* [f, cont, vars, args (not yet bound), retslot], caller first *)
  out,     (* the transcript                                               *)
  status,  (* "running", "done" or "error"                                 *)
  err      (* the error kind once status = "error"                         *)

vars == <<fns, frames, out, status, err>>

FnOf(name) == fns[CHOOSE i \in 1..Len(fns) : fns[i].name = name]

NewFrame(f, body, args, slot) ==
  [f |-> f, cont |-> <<body>>, vars |-> <<>>, args |-> args, retslot |-> slot]

Init ==
  /\ fns \in Programs
  /\ frames = << NewFrame("", FnOf(Main).body, <<>>, NoSlot) >>
  /\ out = <<>>
  /\ status = "running"
  /\ err = "none"

Top  == frames[Len(frames)]
Work == Head(Top.cont)
Rest == Tail(Top.cont)

(* A frame about to run: the scopes its work has left are dropped. *)
Settled(fr) ==
  LET s == Settle(fr.cont, Len(fr.vars))
  IN  [fr EXCEPT !.cont = s[1], !.vars = SubSeq(@, 1, s[2])]

(* The top frame moves on to `fr`. *)
Put(fr) == frames' = [frames EXCEPT ![Len(frames)] = Settled(fr)]
Next1   == [Top EXCEPT !.cont = Rest]

Running == status = "running" /\ Top.cont # <<>>
IsOp(o) == Running /\ Work.k = "stmt" /\ Work.op.o = o

Throw(kind) == /\ status' = "error" /\ err' = kind /\ UNCHANGED <<fns, frames, out>>

(***************************************************************************)
(* Reading the frame's variables.                                          *)
(***************************************************************************)
VarRef(a) == IF "unwrap" \in DOMAIN a THEN a.unwrap ELSE a
SlotOf(r) == Top.vars[r.slot + 1]
Readable(r) == r.slot < Len(Top.vars) /\ SlotOf(r).name = r.name /\ SlotOf(r).val # Null
WrongType(r) == ClassOf(SlotOf(r).val) # r.type

RECURSIVE Value(_)
Value(e) ==
  CASE IsLit(e)              -> e.lit
    [] IsArith(e)            -> Arith(e.op, Value(e.l), Value(e.r))
    [] "unwrap" \in DOMAIN e -> SlotOf(e.unwrap).val.inner
    [] OTHER                 -> SlotOf(e).val

(* A statement that reads the expressions es: a TypeMismatch if one of    *)
(* the vars holds another type, else Body.                                 *)
Reading(es, Body) ==
  LET as == UNION {Operands(e) : e \in es} IN
  /\ \A a \in as : Readable(VarRef(a))
  /\ IF \E a \in as : WrongType(VarRef(a)) THEN Throw("TypeMismatch")
     ELSE /\ \A a \in as : "unwrap" \in DOMAIN a => SlotOf(a.unwrap).val.has
          /\ Body

(***************************************************************************)
(* Statements.                                                             *)
(***************************************************************************)

(* DEBUG(s) *)
DoDebug ==
  /\ IsOp("debug")
  /\ out' = Append(out, DebugLine(Work.op.msg))
  /\ Put(Next1)
  /\ UNCHANGED <<fns, status, err>>

(* DEBUG_EXPR(e) *)
DoExpr ==
  /\ IsOp("expr")
  /\ Reading({Work.op.e},
       /\ out' = Append(out, ExprLine(Work.op.text, Value(Work.op.e)))
       /\ Put(Next1)
       /\ UNCHANGED <<fns, status, err>>)

(* dst = e, or dst op= e: the variable takes the new value. *)
DoSet ==
  /\ IsOp("set")
  /\ Reading({Work.op.dst, Work.op.e},
       LET old == Value(Work.op.dst)
           new == IF Work.op.how = "=" THEN Assign(old, Value(Work.op.e))
                  ELSE Arith(Work.op.how, old, Value(Work.op.e))
       IN  /\ Put([Next1 EXCEPT !.vars[Work.op.dst.slot + 1].val = new])
           /\ UNCHANGED <<fns, out, status, err>>)

(* DEBUG_DUMP_VARS(): the frame's variables. *)
DoDumpVars ==
  /\ IsOp("dumpvars")
  /\ \A j \in 1..Len(Top.vars) : Top.vars[j].val # Null
  /\ out' = Append(out, VarsChars(Top.vars))
  /\ Put(Next1)
  /\ UNCHANGED <<fns, status, err>>

(* DEBUG_DUMP_STACK(): every frame's function name and variables. *)
DoDumpStack ==
  /\ IsOp("dumpstack")
  /\ \A k \in 1..Len(frames) : \A j \in 1..Len(frames[k].vars) : frames[k].vars[j].val # Null
  /\ out' = Append(out, StackLine(frames))
  /\ Put(Next1)
  /\ UNCHANGED <<fns, status, err>>

(* CALL: the callee runs its body with the arguments' values made its     *)
(* parameter types; the caller waits with the rest of its work.           *)
DoCall ==
  /\ IsOp("call")
  /\ LET op == Work.op
         g  == FnOf(op.fn)
     IN  Reading({op.args[i] : i \in DOMAIN op.args},
           /\ frames' = Append([frames EXCEPT ![Len(frames)] = Next1],
                               NewFrame(g.name, g.body,
                                        [i \in DOMAIN op.args |-> Construct(g.args[i], Value(op.args[i]))],
                                        op.ret))
           /\ UNCHANGED <<fns, out, status, err>>)

(* RETURN(e) into the caller's slot (or nowhere), or RETURN(); a RETURN()  *)
(* whose caller waits for a value is MissingReturnValue.                  *)
DoReturn ==
  /\ IsOp("ret")
  /\ LET caller == frames[Len(frames) - 1]
         slot   == Top.retslot
         below  == SubSeq(frames, 1, Len(frames) - 1)
     IN  IF Work.op.val
         THEN Reading({Work.op.e},
                LET v == Construct(FnOf(Top.f).ret, Value(Work.op.e)) IN
                /\ Len(frames) > 1
                /\ slot = NoSlot \/ slot < Len(caller.vars)
                /\ frames' = [below EXCEPT ![Len(below)] =
                                Settled(IF slot = NoSlot THEN caller
                                        ELSE [caller EXCEPT !.vars[slot + 1].val = v])]
                /\ UNCHANGED <<fns, out, status, err>>)
         ELSE IF slot # NoSlot THEN Throw("MissingReturnValue")
         ELSE IF below = <<>>
              THEN frames' = below /\ status' = "done" /\ UNCHANGED <<fns, out, err>>
              ELSE /\ frames' = [below EXCEPT ![Len(below)] = Settled(caller)]
                   /\ UNCHANGED <<fns, out, status, err>>

(***************************************************************************)
(* Structure.                                                              *)
(***************************************************************************)

(* Entering a block: its vars come into scope, in order; a VAR with its    *)
(* initial value, an ARG var with the next argument, a capture alias with  *)
(* no value.                                                               *)
ArgsBefore(vs, j) == Len(SelectSeq(SubSeq(vs, 1, j - 1), LAMBDA v : v.kind = "arg"))
Bound(vs, args) ==
  [j \in 1..Len(vs) |->
     [name |-> vs[j].name,
      val  |-> CASE vs[j].kind = "reg"     -> vs[j].init
                 [] vs[j].kind = "arg"     -> args[ArgsBefore(vs, j) + 1]
                 [] vs[j].kind = "capture" -> Null]]
EnterBlock ==
  /\ Running /\ Work.k = "block"
  /\ LET b == Work
         n == ArgsBefore(b.vars, Len(b.vars) + 1)
     IN  /\ n <= Len(Top.args)
         /\ Put([Top EXCEPT !.vars = @ \o Bound(b.vars, Top.args),
                            !.args = SubSeq(@, n + 1, Len(@)),
                            !.cont = b.code \o <<LeaveScope(Len(Top.vars))>> \o Rest])
  /\ UNCHANGED <<fns, out, status, err>>

(* IF(cond, yes, no): the unit the condition picks runs. *)
RunIf ==
  /\ Running /\ Work.k = "if"
  /\ Reading(CondExprs(Work.cond),
       LET c    == Work.cond
           hold == IF c.cmp = "is" THEN Value(c.l).b ELSE Compare(c.cmp, Value(c.l), Value(c.r))
       IN  /\ Put([Top EXCEPT !.cont = <<IF hold THEN Work.yes ELSE Work.no>> \o Rest])
           /\ UNCHANGED <<fns, out, status, err>>)

(* MATCH_ENUM_STMT(x): the arm whose case is x's payload type if x has a   *)
(* payload, else the default arm; with neither, nothing runs.              *)
RunMatch ==
  /\ Running /\ Work.k = "match"
  /\ Reading({Work.var},
       LET x     == Value(Work.var)
           arms  == Work.arms
           keyed == {i \in DOMAIN arms : x.has /\ arms[i].key = x.of}
           dflt  == {i \in DOMAIN arms : arms[i].key = "default"}
           run   == CASE keyed # {} -> << arms[CHOOSE i \in keyed : TRUE] >>
                      [] dflt # {}  -> << arms[CHOOSE i \in dflt : TRUE] >>
                      [] OTHER      -> <<>>
       IN  /\ Put([Top EXCEPT !.cont = run \o Rest])
           /\ UNCHANGED <<fns, out, status, err>>)

(* The function's work is done without a RETURN(). *)
FnEnd ==
  /\ status = "running" /\ frames # <<>> /\ Top.cont = <<>>
  /\ Throw("MissingReturn")

Next ==
  \/ DoDebug \/ DoExpr \/ DoSet \/ DoDumpVars \/ DoDumpStack \/ DoCall \/ DoReturn
  \/ EnterBlock \/ RunIf \/ RunMatch \/ FnEnd

Spec == Init /\ [][Next]_vars /\ WF_vars(Next)

=============================================================================
