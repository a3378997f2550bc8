------------------------------- MODULE IRTree -------------------------------
(***************************************************************************)
(* What the function-body builder promises (spec.md 4.2 and the "cleaner   *)
(* implementation" of its design notes): the same event stream builds the  *)
(* IR tree directly, with a stack of constructs under construction and no  *)
(* placeholders.  Each open construct is a frame holding what has been     *)
(* emitted into it; closing it wraps that into a node and adds the node to *)
(* the construct below.  The grammar is the DSL's: an IF holds exactly two *)
(* units (then, else), an arm exactly one, VAR and ARG go to a function or *)
(* BLOCK body.  A second FN with a name already defined halts the build.   *)
(***************************************************************************)
EXTENDS Naturals, Sequences, SequencesExt, IRNodes

CONSTANTS FnNames, MaxLine, MatchVar, CaseKey, CaptureName, NoFn, NoKey

VARIABLES
  fns,     (* the fiber's functions                                        *)
  open,    (* constructs under construction, innermost last               *)
  ln,      (* line of the next event                                       *)
  halted   (* a duplicate FN stopped the build                             *)

tvars == <<fns, open, ln, halted>>

Frame(kind, l, name) ==
  [kind |-> kind, line |-> l, name |-> name, vars |-> <<>>, code |-> <<>>,
   arms |-> <<>>, akey |-> NoKey, capture |-> NoKey]

Init ==
  /\ fns = [f \in FnNames |-> NoFn]
  /\ open = <<>>
  /\ ln = 1
  /\ halted = FALSE

Top == open[Len(open)]

(* An event consumes a line. *)
Event == ~halted /\ ln <= MaxLine /\ ln' = ln + 1
Close == ~halted /\ UNCHANGED ln

(* The innermost construct may take one more statement-like unit. *)
TakesUnit ==
  /\ open # <<>>
  /\ \/ Top.kind \in {"fn", "block"}
     \/ Top.kind = "if" /\ Len(Top.code) < 2
     \/ Top.kind = "arm" /\ Top.code = <<>>

Emit(o, item) == [o EXCEPT ![Len(o)].code = Append(@, item)]
Pop(item) == Emit(Front(open), item)

StartFn ==
  /\ Event /\ open = <<>>
  /\ \E f \in FnNames :
       IF fns[f] # NoFn
       THEN halted' = TRUE /\ UNCHANGED <<fns, open>>
       ELSE /\ fns' = [fns EXCEPT ![f] = FnRec(ln)]
            /\ open' = << Frame("fn", ln, f) >>
            /\ UNCHANGED halted

EndFn ==
  /\ Close /\ open # <<>> /\ Top.kind = "fn"
  /\ fns' = [fns EXCEPT ![Top.name].body = BlockNode(Top.line, Top.vars, Top.code)]
  /\ open' = <<>>
  /\ UNCHANGED halted

Stmt ==
  /\ Event /\ TakesUnit
  /\ open' = Emit(open, StmtNode(ln))
  /\ UNCHANGED <<fns, halted>>

Declare(kind) ==
  /\ Event /\ open # <<>> /\ Top.kind \in {"fn", "block"}
  /\ open' = [open EXCEPT ![Len(open)].vars = Append(@, VarRec(kind, ln, "", NoKey, ""))]
  /\ fns' = IF kind = "arg" THEN [fns EXCEPT ![open[1].name].args = Append(@, ln)] ELSE fns
  /\ UNCHANGED halted

Enter(kind) ==
  /\ Event /\ TakesUnit
  /\ open' = Append(open, Frame(kind, ln, ""))
  /\ UNCHANGED <<fns, halted>>

EnterArm ==
  /\ Event /\ open # <<>> /\ Top.kind = "match"
  /\ \E form \in {"keyed", "capturing", "default"} :
       open' = Append(open, [Frame("arm", ln, "") EXCEPT
                 !.akey    = IF form = "default" THEN NoKey ELSE CaseKey,
                 !.capture = CASE form = "keyed"     -> ""
                               [] form = "capturing" -> CaptureName
                               [] OTHER              -> NoKey])
  /\ UNCHANGED <<fns, halted>>

CloseBlock ==
  /\ Close /\ open # <<>> /\ Top.kind = "block"
  /\ open' = Pop(BlockNode(Top.line, Top.vars, Top.code))
  /\ UNCHANGED <<fns, halted>>

CloseIf ==
  /\ Close /\ open # <<>> /\ Top.kind = "if" /\ Len(Top.code) = 2
  /\ open' = Pop(IfNode(Top.line, Top.code[1], Top.code[2]))
  /\ UNCHANGED <<fns, halted>>

(* The arm's unit as a block, plus the alias of the match var it captures. *)
ArmBlock(a) ==
  LET u == a.code[1]
      b == IF u.k = "block" THEN u ELSE BlockNode(a.line, <<>>, <<u>>)
  IN  IF a.capture = NoKey THEN b
      ELSE [b EXCEPT !.vars = Append(@, VarRec("capture", 0, a.capture, a.akey, MatchVar))]

CloseArm ==
  /\ Close /\ open # <<>> /\ Top.kind = "arm" /\ Len(Top.code) = 1
  /\ open' = [Front(open) EXCEPT ![Len(open) - 1].arms =
                Append(@, ArmRec(Top.line, Top.akey, Top.capture, ArmBlock(Top)))]
  /\ UNCHANGED <<fns, halted>>

CloseMatch ==
  /\ Close /\ open # <<>> /\ Top.kind = "match"
  /\ open' = Pop(MatchNode(Top.line, MatchVar, Top.arms))
  /\ UNCHANGED <<fns, halted>>

Next ==
  \/ StartFn \/ EndFn \/ Stmt \/ Declare("reg") \/ Declare("arg")
  \/ Enter("block") \/ Enter("if") \/ Enter("match") \/ EnterArm
  \/ CloseBlock \/ CloseIf \/ CloseArm \/ CloseMatch

Spec == Init /\ [][Next]_tvars

=============================================================================
