------------------------------ MODULE IRDecls ------------------------------
(***************************************************************************)
(* The declaration side of the builder in                                  *)
(* src/cpp_ir/src/boilerplate/dsl.prefix.h: RegisterMaroon, RegisterFiber, *)
(* RegisterType, RegisterEnum, RegisterField, RegisterCase, the name and   *)
(* scope checks of RegisterFn, RegisterVar and RegisterArg,                *)
(* SupportOptionalTypes / Ctx::ConsiderOptionalType and Ctx::Finalize.     *)
(*                                                                         *)
(* What a function body holds is IRBuilder's; here a FN is only a scope   *)
(* and a VAR or ARG only the type it mentions.  Every declaration that     *)
(* mentions a type is kept as a use [kind, type, line] of its namespace.   *)
(* A spelled type is a record: [opt |-> TRUE, name |-> T] is OPTIONAL<T>,  *)
(* [opt |-> FALSE, name |-> T] is T.                                       *)
(*                                                                         *)
(* `ctl` is the stack of DSL lambdas being run; the stream follows the     *)
(* DSL's nesting: MAROON at the top, FIBER, TYPE and ENUM in a MAROON, FN  *)
(* in a FIBER, FIELD in a TYPE, CASE in an ENUM, VAR and ARG in a FN, and  *)
(* Finalize() once after the last MAROON.                                  *)
(***************************************************************************)
EXTENDS Naturals, Sequences, FiniteSets, FiniteSetsExt

CONSTANTS
  Maroons,       (* names a MAROON() may be given                          *)
  Fibers,        (* names a FIBER() may be given                           *)
  Fns,           (* names a FN() may be given                              *)
  UserTypes,     (* names a TYPE() or ENUM() may be given                  *)
  Bases,         (* type names mentioned by FIELD, CASE, VAR and ARG       *)
  ArgSpellings,  (* the spellings an ARG's type may have                   *)
  MaxLine        (* events of one stream                                   *)

VARIABLES
  nsLine,     (* out.maroon[m].line, 0 while m is not defined             *)
  fiberLine,  (* out.maroon[m].fibers[f].line, 0 while undefined          *)
  fnDefined,  (* the names in out.maroon[m].fibers[f].functions           *)
  types,      (* out.maroon[m].types                                       *)
  uses,       (* the types the declarations of each namespace mention      *)
  cur,        (* current_maroon_name, _fiber_, _type_, _function_name      *)
  inFn,       (* Ctx::InFunction()                                         *)
  optionals,  (* optional_types_per_maroon: first line, 0 if none          *)
  finalized,  (* Ctx::finalized                                            *)
  ctl,        (* the C++ stack of DSL lambdas                              *)
  ln,         (* __LINE__ of the next event                                *)
  status      (* "ok", "dup", "collision" or "exit"                        *)

vars == <<nsLine, fiberLine, fnDefined, types, uses, cur, inFn, optionals,
          finalized, ctl, ln, status>>

(* "OPTIONAL_" + t *)
OptName(t) == "OPTIONAL_" \o t
TypeNames == UserTypes \cup {OptName(b) : b \in Bases}
NoType == [kind |-> "none", line |-> 0, inner |-> ""]
Spellings == [opt : BOOLEAN, name : Bases]

Init ==
  /\ nsLine = [m \in Maroons |-> 0]
  /\ fiberLine = [m \in Maroons |-> [f \in Fibers |-> 0]]
  /\ fnDefined = [m \in Maroons |-> [f \in Fibers |-> {}]]
  /\ types = [m \in Maroons |-> [t \in TypeNames |-> NoType]]
  /\ uses = [m \in Maroons |-> {}]
  /\ cur = [maroon |-> "", fiber |-> "", type |-> "", fn |-> ""]
  /\ inFn = FALSE
  /\ optionals = [m \in Maroons |-> [b \in Bases |-> 0]]
  /\ finalized = FALSE
  /\ ctl = <<>>
  /\ ln = 1
  /\ status = "ok"

Top == ctl[Len(ctl)]
Event(parent) ==
  /\ status = "ok" /\ ~finalized /\ ln <= MaxLine /\ ln' = ln + 1
  /\ IF parent = "top" THEN ctl = <<>> ELSE ctl # <<>> /\ Top = parent
Return(kind) == status = "ok" /\ ctl # <<>> /\ Top = kind /\ UNCHANGED ln

Fatal(how) == /\ status' = how
              /\ UNCHANGED <<nsLine, fiberLine, fnDefined, types, uses, cur, inFn,
                             optionals, finalized, ctl>>

Enter(kind) == ctl' = Append(ctl, kind)
Leave == ctl' = SubSeq(ctl, 1, Len(ctl) - 1)

(***************************************************************************)
(* Handlers.                                                               *)
(***************************************************************************)

(* MAROON(m): RegisterMaroon's constructor. *)
OpenMaroon ==
  /\ Event("top")
  /\ \E m \in Maroons :
       IF nsLine[m] > 0 THEN Fatal("dup")
       ELSE /\ cur' = [cur EXCEPT !.maroon = m]
            /\ nsLine' = [nsLine EXCEPT ![m] = ln]
            /\ Enter("maroon")
            /\ UNCHANGED <<fiberLine, fnDefined, types, uses, inFn, optionals, finalized, status>>

(* RegisterMaroon::operator<< around the lambda: FOO2, then the reset. *)
CloseMaroon ==
  /\ Return("maroon")
  /\ IF cur.maroon = "" THEN Fatal("exit")
     ELSE /\ cur' = [cur EXCEPT !.maroon = ""]
          /\ Leave
          /\ UNCHANGED <<nsLine, fiberLine, fnDefined, types, uses, inFn, optionals, finalized, status>>

(* FIBER(f): RegisterFiber's constructor. *)
OpenFiber ==
  /\ Event("maroon")
  /\ \E f \in Fibers :
       IF cur.maroon = "" THEN Fatal("exit")
       ELSE IF fiberLine[cur.maroon][f] > 0 THEN Fatal("dup")
       ELSE /\ cur' = [cur EXCEPT !.fiber = f]
            /\ fiberLine' = [fiberLine EXCEPT ![cur.maroon][f] = ln]
            /\ Enter("fiber")
            /\ UNCHANGED <<nsLine, fnDefined, types, uses, inFn, optionals, finalized, status>>

(* RegisterFiber::operator<<: BAR2, then the reset. *)
CloseFiber ==
  /\ Return("fiber")
  /\ IF cur.fiber = "" THEN Fatal("exit")
     ELSE /\ cur' = [cur EXCEPT !.fiber = ""]
          /\ Leave
          /\ UNCHANGED <<nsLine, fiberLine, fnDefined, types, uses, inFn, optionals, finalized, status>>

(* TYPE(t) and ENUM(t): RegisterType's and RegisterEnum's constructors; *)
(* the def is an empty Struct or Enum.                                   *)
OpenType(kind) ==
  /\ Event("maroon")
  /\ \E t \in UserTypes :
       IF cur.maroon = "" THEN Fatal("exit")
       ELSE IF types[cur.maroon][t] # NoType THEN Fatal("dup")
       ELSE /\ cur' = [cur EXCEPT !.type = t]
            /\ types' = [types EXCEPT ![cur.maroon][t] = [kind |-> kind, line |-> ln, inner |-> ""]]
            /\ Enter(kind)
            /\ UNCHANGED <<nsLine, fiberLine, fnDefined, uses, inFn, optionals, finalized, status>>

(* RegisterType::operator<< / RegisterEnum::operator<<. *)
CloseType(kind) ==
  /\ Return(kind)
  /\ IF cur.type = "" THEN Fatal("exit")
     ELSE /\ cur' = [cur EXCEPT !.type = ""]
          /\ Leave
          /\ UNCHANGED <<nsLine, fiberLine, fnDefined, types, uses, inFn, optionals, finalized, status>>

(* TYPE(t), ENUM(t), and their lambdas' returns. *)
OpenStruct  == OpenType("struct")
OpenEnum    == OpenType("enum")
CloseStruct == CloseType("struct")
CloseEnum   == CloseType("enum")

(* Mutant: every use overwrites the recorded line. *)
ConsiderOptionalTypeLast(opts, m, t, l) == [opts EXCEPT ![m][t] = l]

(* Ctx::ConsiderOptionalType: the first line at which OPTIONAL<t> is used  *)
(* in namespace m.                                                         *)
ConsiderOptionalType(opts, m, t, l) ==
  IF opts[m][t] = 0 THEN [opts EXCEPT ![m][t] = l] ELSE opts

(* Mutant: the OPTIONAL<T> spelling is tallied but stored as spelled. *)
RewrittenKeep(s) == IF s.opt THEN "OPTIONAL<" \o s.name \o ">" ELSE s.name

(* SupportOptionalTypes: the type as stored, and the tally it updates. *)
Rewritten(s) == IF s.opt THEN OptName(s.name) ELSE s.name
SupportOptionalTypes(opts, m, s, l) ==
  IF s.opt THEN ConsiderOptionalType(opts, m, s.name, l) ELSE opts

Use(kind, type) == [kind |-> kind, type |-> type, line |-> ln]
AddUse(u) == uses' = [uses EXCEPT ![cur.maroon] = @ \cup {u}]

(* FIELD(name, type) and CASE(key, type): RegisterField / RegisterCase. *)
Member(kind, parent) ==
  /\ Event(parent)
  /\ \E s \in Spellings :
       IF cur.type = "" THEN Fatal("exit")
       ELSE IF types[cur.maroon][cur.type].kind # parent THEN Fatal("exit")
       ELSE /\ optionals' = SupportOptionalTypes(optionals, cur.maroon, s, ln)
            /\ AddUse(Use(kind, Rewritten(s)))
            /\ UNCHANGED <<nsLine, fiberLine, fnDefined, types, cur, inFn, finalized, ctl, status>>

Field == Member("field", "struct")
Case  == Member("case", "enum")

(* FN(f): the checks of RegisterFn's constructor and Ctx::EnterFunction. *)
OpenFn ==
  /\ Event("fiber")
  /\ \E f \in Fns :
       IF cur.fiber = "" THEN Fatal("exit")
       ELSE IF f \in fnDefined[cur.maroon][cur.fiber] THEN Fatal("dup")
       ELSE IF inFn THEN Fatal("exit")
       ELSE /\ fnDefined' = [fnDefined EXCEPT ![cur.maroon][cur.fiber] = @ \cup {f}]
            /\ cur' = [cur EXCEPT !.fn = f]
            /\ inFn' = TRUE
            /\ Enter("fn")
            /\ UNCHANGED <<nsLine, fiberLine, types, uses, optionals, finalized, status>>

(* Mutant: LeaveFunction forgets to clear the block stack. *)
LeaveFunctionKeep == /\ cur' = [cur EXCEPT !.fn = ""] /\ UNCHANGED inFn

(* Ctx::LeaveFunction: the block stack is cleared, the name reset. *)
LeaveFunction == /\ cur' = [cur EXCEPT !.fn = ""] /\ inFn' = FALSE

CloseFn ==
  /\ Return("fn")
  /\ LeaveFunction
  /\ Leave
  /\ UNCHANGED <<nsLine, fiberLine, fnDefined, types, uses, optionals, finalized, status>>

(* VAR(name, type, init): RegisterVar. *)
Var ==
  /\ Event("fn")
  /\ \E s \in Spellings :
       IF ~inFn THEN Fatal("exit")
       ELSE /\ optionals' = SupportOptionalTypes(optionals, cur.maroon, s, ln)
            /\ AddUse(Use("var", Rewritten(s)))
            /\ UNCHANGED <<nsLine, fiberLine, fnDefined, types, cur, inFn, finalized, ctl, status>>

(* ARG(name, type): RegisterArg, which stores the type as spelled. *)
Spelled(s) == IF s.opt THEN "OPTIONAL<" \o s.name \o ">" ELSE s.name
Arg ==
  /\ Event("fn")
  /\ \E s \in ArgSpellings :
       IF ~inFn THEN Fatal("exit")
       ELSE /\ AddUse(Use("arg", Spelled(s)))
            /\ UNCHANGED <<nsLine, fiberLine, fnDefined, types, cur, inFn, optionals,
                           finalized, ctl, status>>

(* Mutant: Finalize installs the optional types without the collision check. *)
FinalizeNoCheck ==
  /\ status = "ok" /\ ctl = <<>> /\ ~finalized /\ UNCHANGED ln
  /\ finalized' = TRUE
  /\ types' = [m \in Maroons |-> [t \in TypeNames |->
                 IF \E b \in Bases : t = OptName(b) /\ optionals[m][b] > 0
                 THEN LET b == CHOOSE x \in Bases : t = OptName(x)
                      IN  [kind |-> "optional", line |-> optionals[m][b], inner |-> b]
                 ELSE types[m][t]]]
  /\ UNCHANGED <<nsLine, fiberLine, fnDefined, uses, cur, inFn, optionals, ctl, status>>

(* Ctx::Finalize, called once by the generated main() after the DSL. *)
Recorded == {<<m, b>> \in Maroons \X Bases : optionals[m][b] > 0}
Finalize ==
  /\ status = "ok" /\ ctl = <<>> /\ ~finalized /\ UNCHANGED ln
  /\ IF finalized THEN Fatal("exit")
     ELSE IF \E p \in Recorded : types[p[1]][OptName(p[2])] # NoType THEN Fatal("collision")
     ELSE /\ finalized' = TRUE
          /\ types' = [m \in Maroons |-> [t \in TypeNames |->
                         IF \E b \in Bases : t = OptName(b) /\ <<m, b>> \in Recorded
                         THEN LET b == CHOOSE x \in Bases : t = OptName(x)
                              IN  [kind |-> "optional", line |-> optionals[m][b], inner |-> b]
                         ELSE types[m][t]]]
          /\ UNCHANGED <<nsLine, fiberLine, fnDefined, uses, cur, inFn, optionals, ctl, status>>

Next ==
  \/ OpenMaroon \/ CloseMaroon \/ OpenFiber \/ CloseFiber
  \/ OpenStruct \/ CloseStruct \/ OpenEnum \/ CloseEnum \/ Field \/ Case
  \/ OpenFn \/ CloseFn \/ Var \/ Arg \/ Finalize

Spec == Init /\ [][Next]_vars

(***************************************************************************)
(* Properties.                                                             *)
(***************************************************************************)

TypeOK ==
  /\ status \in {"ok", "dup", "collision", "exit"}
  /\ ln \in 1..(MaxLine + 1)
  /\ cur.maroon \in Maroons \cup {""} /\ cur.fiber \in Fibers \cup {""}
  /\ cur.type \in UserTypes \cup {""} /\ cur.fn \in Fns \cup {""}
  /\ \A m \in Maroons : \A t \in TypeNames :
       types[m][t].kind \in {"none", "struct", "enum", "optional"}
  /\ \A m \in Maroons : \A b \in Bases : optionals[m][b] \in 0..MaxLine
  /\ \A m \in Maroons : \A u \in uses[m] :
       u.kind # "arg" => u.type \in Bases \cup TypeNames

(* On a stream of the DSL's nesting, none of the FOO/BAR/scope exits of    *)
(* the Register* handlers and Ctx::EnterFunction fires: only a duplicate  *)
(* name or an OPTIONAL_T collision stops the build.                       *)
NoInternalError == status \in {"ok", "dup", "collision"}

(* spec.md 8: after Finalize(), every OPTIONAL_T a FIELD, CASE or VAR of a *)
(* namespace mentions has its synthesized Optional{T} declaration there,  *)
(* with the line of the first OPTIONAL<T> of that namespace.              *)
FirstUse(m, t) == Min({u.line : u \in {v \in uses[m] : v.type = t}})
OptionalsDeclared ==
  finalized =>
    \A m \in Maroons : \A b \in Bases :
      (\E u \in uses[m] : u.type = OptName(b)) =>
        types[m][OptName(b)] = [kind |-> "optional", line |-> FirstUse(m, OptName(b)), inner |-> b]

(* A TYPE or ENUM the user declared is never replaced, also not by the    *)
(* OPTIONAL_T declarations Finalize() installs.                           *)
UserTypesKept ==
  [][\A m \in Maroons : \A t \in TypeNames :
       types[m][t].kind \in {"struct", "enum"} => types'[m][t] = types[m][t]]_vars

(* spec.md 3: every type name a declaration mentions is a base type, an  *)
(* Optional-derived name OPTIONAL_<inner>, or a type of the namespace.   *)
Resolves(m, t) ==
  t \in Bases \cup {OptName(b) : b \in Bases} \/ (t \in UserTypes /\ types[m][t] # NoType)
TypeNamesResolve ==
  finalized => \A m \in Maroons : \A u \in uses[m] : Resolves(m, u.type)

=============================================================================
