------------------------------- MODULE IRNodes -------------------------------
(***************************************************************************)
(* The function-body node types of src/cpp_ir/src/ir.h, as records.  Only  *)
(* what tells nodes apart is kept: the __LINE__ that created a node, the   *)
(* kind of a var and, for a capture alias, its name, key and src.  Strings *)
(* the builder copies through unchanged (a statement's text, a var's type  *)
(* or init, an If's cond) are left out.                                    *)
(***************************************************************************)

(* MaroonIRBlock *)
NewBlock(l) == [k |-> "block", line |-> l, vars |-> <<>>, code |-> <<>>]
BlockNode(l, vs, code) == [k |-> "block", line |-> l, vars |-> vs, code |-> code]

(* MaroonIRVar: MaroonIRVarRegular ("reg"), MaroonIRVarFunctionArg ("arg")  *)
(* or MaroonIRVarEnumCaseCapture ("capture", with name, key and src).       *)
VarRec(kind, l, name, key, src) ==
  [kind |-> kind, line |-> l, name |-> name, key |-> key, src |-> src]

(* MaroonIRStmt *)
StmtNode(l) == [k |-> "stmt", line |-> l]

(* MaroonIRBlockPlaceholder, with its _idx *)
Placeholder(key, l) == [k |-> "ph", key |-> key, line |-> l]

(* MaroonIRIf *)
IfNode(l, yes, no) == [k |-> "if", line |-> l, yes |-> yes, no |-> no]

(* MaroonIRMatchEnumStmtArm and MaroonIRMatchEnumStmt *)
ArmRec(l, key, capture, code) == [line |-> l, key |-> key, capture |-> capture, code |-> code]
MatchNode(l, var, arms) == [k |-> "match", line |-> l, var |-> var, arms |-> arms]

(* MaroonIRFunction, before its body is moved in (the return type is a   *)
(* string copied through and left out).                                  *)
FnRec(l) == [line |-> l, args |-> <<>>, body |-> NewBlock(0)]

=============================================================================
