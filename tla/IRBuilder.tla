----------------------------- MODULE IRBuilder -----------------------------
(***************************************************************************)
(* The function-body builder of src/cpp_ir/src/boilerplate/dsl.prefix.h:   *)
(* the Ctx fields current_fn_blocks_stack, blocks_stack,                   *)
(* next_placeholder_idx and current_function_name, and the handlers the    *)
(* DSL macros of dsl.spec.h expand to inside a FIBER: RegisterFn,          *)
(* RegisterStmt, RegisterVar, RegisterArg, RegisterBlock, RegisterIf,      *)
(* RegisterMatchEnumStmt, RegisterEnumArm and RegisterEnumDefaultArm.      *)
(*                                                                         *)
(* The DSL nests its constructs as C++ lambdas: an event opens a construct *)
(* (a Register* constructor runs), the lambda body emits more events, the  *)
(* lambda returns (operator<<, the IF's sub-lambdas, the arm's code(), the *)
(* temporary's destructor).  `ctl` is that C++ call stack: one entry per   *)
(* lambda being run, holding the locals the C++ frame holds (the saved     *)
(* block key and depth, the match object and its collected arms, the      *)
(* arm's key and capture).  Its `at` field records where in the enclosing *)
(* block the construct's items start; the code never reads it.            *)
(*                                                                         *)
(* Every event carries its __LINE__; lines are drawn in increasing order   *)
(* and name the IR nodes, so a misplaced node is visible.                  *)
(***************************************************************************)
EXTENDS Naturals, Sequences, SequencesExt, IRNodes

CONSTANTS
  FnNames,     (* the names a FN() may be given                            *)
  MaxLine,     (* events of one stream: bounds the model                   *)
  WellFormed,  (* TRUE: each IF branch and match arm emits one unit       *)
  MatchVar,    (* MATCH_ENUM_STMT's enum var                               *)
  CaseKey,     (* ENUM_ARM's key                                           *)
  CaptureName, (* ENUM_ARM3's capture name                                 *)
  NoFn,        (* no FN() of that name yet                                 *)
  NoKey        (* Optional key/capture left unset                          *)

ASSUME MaxLine \in Nat /\ WellFormed \in BOOLEAN

VARIABLES
  blocks,   (* Ctx::current_fn_blocks_stack                                *)
  bstack,   (* Ctx::blocks_stack: <<placeholder key, index in parent>>     *)
  nextKey,  (* Ctx::next_placeholder_idx                                   *)
  fnName,   (* Ctx::current_function_name ("" when none)                   *)
  fns,      (* out.maroon[..].fibers[..].functions                         *)
  ctl,      (* the C++ call stack of DSL lambdas                           *)
  ln,       (* __LINE__ of the next event                                  *)
  status,   (* "ok", "exit" (std::exit(1)) or "ub" (back() of empty code)  *)
  emitted   (* history: the lines of the STMT and VAR events of each FN    *)

vars == <<blocks, bstack, nextKey, fnName, fns, ctl, ln, status, emitted>>

Lines == 1..MaxLine

(* Mutant: a frame that does not record its block. *)
CtlNoDepth(kind, l, at, depth) ==
  [kind |-> kind, line |-> l, at |-> at, key |-> 0, depth |-> 0, n |-> 0,
   phase |-> "yes", arms |-> <<>>, akey |-> NoKey, capture |-> NoKey]

(* A frame of ctl; unused fields keep their defaults.  `depth` is the     *)
(* index in `blocks` of the block the frame emits into.                   *)
Ctl(kind, l, at, depth) ==
  [kind |-> kind, line |-> l, at |-> at, key |-> 0, depth |-> depth, n |-> 0,
   phase |-> "yes", arms |-> <<>>, akey |-> NoKey, capture |-> NoKey]

Init ==
  /\ blocks = <<>>
  /\ bstack = <<>>
  /\ nextKey = 0
  /\ fnName = ""
  /\ fns = [f \in FnNames |-> NoFn]
  /\ ctl = <<>>
  /\ ln = 1
  /\ status = "ok"
  /\ emitted = [f \in FnNames |-> {}]

TopBlock == blocks[Len(blocks)]
TopCtl == ctl[Len(ctl)]
InFunction == blocks # <<>>

(* Mutant: push onto the function's outermost block (front() for back()). *)
AddToBlockBottom(bs, item) == [bs EXCEPT ![1].code = Append(@, item)]

(* Ctx::AddToBlock: push onto the current block's code. *)
AddToBlock(bs, item) == [bs EXCEPT ![Len(bs)].code = Append(@, item)]

(* Ctx::AddVarToBlock *)
AddVarToBlock(bs, v) == [bs EXCEPT ![Len(bs)].vars = Append(@, v)]

(* Ctx::ExtractLastStmt without the returned item (that is Last(code)). *)
DropLast(bs) == [bs EXCEPT ![Len(bs)].code = Front(@)]

Fatal(how) == /\ status' = how
              /\ UNCHANGED <<emitted, blocks, bstack, nextKey, fnName, fns, ctl>>

(* An event with a line: it takes __LINE__ and moves on. *)
Event == status = "ok" /\ ln <= MaxLine /\ ln' = ln + 1
Return == status = "ok" /\ UNCHANGED ln

(* The lambda at the top of ctl emitted one more unit into its host block. *)
Emitted(c) == IF c = <<>> THEN c ELSE [c EXCEPT ![Len(c)].n = @ + 1]

(* What the DSL grammar lets a lambda hold next, when WellFormed: an IF   *)
(* branch or an arm holds exactly one statement-like unit and no VAR.     *)
(* A MATCH_ENUM_STMT's arguments are arm expressions only, whatever the    *)
(* stream.                                                                 *)
InLambda == ctl # <<>> /\ TopCtl.kind # "match"
MayEmitUnit == InLambda /\ (~WellFormed \/ TopCtl.kind \in {"fn", "block"} \/ TopCtl.n = 0)
MayDeclare == InLambda /\ (~WellFormed \/ TopCtl.kind \in {"fn", "block"})
UnitDone == ~WellFormed \/ TopCtl.n = 1

(* History: the event's line is one the current FN's body should hold. *)
Emits == emitted' = [emitted EXCEPT ![fnName] = @ \cup {ln}]

(* The `!ctx.InFunction()` check the statement-level handlers start with. *)
InFn(A) == IF InFunction THEN A ELSE Fatal("exit")

(***************************************************************************)
(* Handlers.                                                               *)
(***************************************************************************)

(* FN(name): RegisterFn's constructor and Ctx::EnterFunction. *)
StartFn ==
  /\ Event /\ ctl = <<>>
  /\ \E f \in FnNames :
       IF fns[f] # NoFn THEN Fatal("dup")
       ELSE IF InFunction THEN Fatal("exit")
       ELSE /\ fns' = [fns EXCEPT ![f] = FnRec(ln)]
            /\ fnName' = f
            /\ blocks' = << NewBlock(ln) >>
            /\ ctl' = << Ctl("fn", ln, 0, 1) >>
            /\ UNCHANGED <<emitted, bstack, nextKey, status>>

(* The FN lambda returns: Ctx::LeaveFunction moves the top block into the *)
(* function's body (a depth other than 1 is only logged).                 *)
EndFn ==
  /\ Return /\ ctl # <<>> /\ TopCtl.kind = "fn"
  /\ fns' = [fns EXCEPT ![fnName].body = blocks[Len(blocks)]]
  /\ blocks' = <<>>
  /\ fnName' = ""
  /\ ctl' = Front(ctl)
  /\ UNCHANGED <<emitted, bstack, nextKey, status>>

(* STMT(s): RegisterStmt. *)
Stmt ==
  /\ Event /\ MayEmitUnit
  /\ InFn(/\ blocks' = AddToBlock(blocks, StmtNode(ln))
          /\ ctl' = Emitted(ctl)
          /\ Emits
          /\ UNCHANGED <<bstack, nextKey, fnName, fns, status>>)

(* VAR(name, type, init): RegisterVar. *)
Var ==
  /\ Event /\ MayDeclare
  /\ InFn(/\ blocks' = AddVarToBlock(blocks, VarRec("reg", ln, "", NoKey, ""))
          /\ Emits
          /\ UNCHANGED <<bstack, nextKey, fnName, fns, ctl, status>>)

(* ARG(name, type): RegisterArg, Ctx::AddArgToFunction then AddVarToBlock. *)
Arg ==
  /\ Event /\ MayDeclare
  /\ InFn(/\ fns' = [fns EXCEPT ![fnName].args = Append(@, ln)]
          /\ blocks' = AddVarToBlock(blocks, VarRec("arg", ln, "", NoKey, ""))
          /\ UNCHANGED <<emitted, bstack, nextKey, fnName, ctl, status>>)

(* Mutant: Ctx::AddToBlock returns the size after the push_back. *)
OpenBlockAfter ==
  /\ Event /\ MayEmitUnit
  /\ InFn(LET key == nextKey + 1
              at  == Len(TopBlock.code) + 1
          IN  /\ nextKey' = key
              /\ bstack' = Append(bstack, <<key, at>>)
              /\ blocks' = Append(AddToBlock(blocks, Placeholder(key, ln)), NewBlock(0))
              /\ ctl' = Append(Emitted(ctl),
                               [Ctl("block", ln, at, Len(blocks) + 1) EXCEPT !.key = key])
              /\ UNCHANGED <<emitted, fnName, fns, status>>)

(* BLOCK: RegisterBlock's constructor, Ctx::EnterBlock: a placeholder with *)
(* a fresh key goes into the current block, its index is remembered, and   *)
(* an empty block is pushed.                                               *)
OpenBlock ==
  /\ Event /\ MayEmitUnit
  /\ InFn(LET key == nextKey + 1
              at  == Len(TopBlock.code)
          IN  /\ nextKey' = key
              /\ bstack' = Append(bstack, <<key, at>>)
              /\ blocks' = Append(AddToBlock(blocks, Placeholder(key, ln)), NewBlock(0))
              /\ ctl' = Append(Emitted(ctl),
                               [Ctl("block", ln, at, Len(blocks) + 1) EXCEPT !.key = key])
              /\ UNCHANGED <<emitted, fnName, fns, status>>)

(* Mutant: the finished block is pushed onto its parent, not written over *)
(* its placeholder.                                                        *)
MarkInnerBlockAsCompletedAppend(userKey) ==
  IF bstack = <<>> THEN Fatal("exit")
  ELSE LET key    == Last(bstack)[1]
           idx    == Last(bstack)[2]
           parent == blocks[Len(blocks) - 1]
       IN  IF key # userKey \/ parent.code = <<>> \/ idx >= Len(parent.code)
              \/ parent.code[idx + 1].k # "ph" \/ parent.code[idx + 1].key # key
           THEN Fatal("exit")
           ELSE /\ bstack' = Front(bstack)
                /\ blocks' = AddToBlock(Front(blocks),
                                [Last(blocks) EXCEPT !.line = parent.code[idx + 1].line])
                /\ ctl' = Front(ctl)
                /\ UNCHANGED <<emitted, nextKey, fnName, fns, status>>

(* Ctx::MarkInnerBlockAsCompleted: pop the finished block and write it, with *)
(* the placeholder's line, over the placeholder it left in its parent.      *)
MarkInnerBlockAsCompleted(userKey) ==
  IF bstack = <<>> THEN Fatal("exit")
  ELSE LET key    == Last(bstack)[1]
           idx    == Last(bstack)[2]
           blk    == Last(blocks)
           parent == blocks[Len(blocks) - 1]
       IN  IF key # userKey \/ parent.code = <<>> \/ idx >= Len(parent.code)
              \/ parent.code[idx + 1].k # "ph" \/ parent.code[idx + 1].key # key
           THEN Fatal("exit")
           ELSE /\ bstack' = Front(bstack)
                /\ blocks' = [Front(blocks) EXCEPT ![Len(blocks) - 1].code[idx + 1] =
                                [blk EXCEPT !.line = parent.code[idx + 1].line]]
                /\ ctl' = Front(ctl)
                /\ UNCHANGED <<emitted, nextKey, fnName, fns, status>>

(* The BLOCK lambda returns: RegisterBlock::operator<< checks the depth. *)
CloseBlock ==
  /\ Return /\ ctl # <<>> /\ TopCtl.kind = "block"
  /\ IF Len(blocks) # TopCtl.depth THEN Fatal("exit")
     ELSE MarkInnerBlockAsCompleted(TopCtl.key)

(* IF(cond, yes, no): RegisterIf runs yes() ... *)
OpenIf ==
  /\ Event /\ MayEmitUnit
  /\ InFn(/\ ctl' = Append(ctl, Ctl("if", ln, Len(TopBlock.code), Len(blocks)))
          /\ UNCHANGED <<emitted, blocks, bstack, nextKey, fnName, fns, status>>)

(* ... then no() ... *)
IfNext ==
  /\ Return /\ ctl # <<>> /\ TopCtl.kind = "if" /\ TopCtl.phase = "yes" /\ UnitDone
  /\ ctl' = [ctl EXCEPT ![Len(ctl)].phase = "no", ![Len(ctl)].n = 0]
  /\ UNCHANGED <<emitted, blocks, bstack, nextKey, fnName, fns, status>>

(* ... then extracts `no` and then `yes` off the current block and adds   *)
(* the If.  Ctx::ExtractLastStmt on an empty code list is a back() of an  *)
(* empty vector.                                                          *)
CloseIf ==
  /\ Return /\ ctl # <<>> /\ TopCtl.kind = "if" /\ TopCtl.phase = "no" /\ UnitDone
  /\ LET code == TopBlock.code IN
     IF Len(code) < 2 THEN Fatal("ub")
     ELSE /\ blocks' = AddToBlock(DropLast(DropLast(blocks)),
                                  IfNode(TopCtl.line, code[Len(code) - 1], code[Len(code)]))
          /\ ctl' = Emitted(Front(ctl))
          /\ UNCHANGED <<emitted, bstack, nextKey, fnName, fns, status>>

(* MATCH_ENUM_STMT(var, arms...): RegisterMatchEnumStmt's constructor      *)
(* pushes a scratch block the arms build into.                             *)
OpenMatch ==
  /\ Event /\ MayEmitUnit
  /\ blocks' = Append(blocks, NewBlock(0))
  /\ ctl' = Append(ctl, Ctl("match", ln, Len(TopBlock.code), Len(blocks) + 1))
  /\ UNCHANGED <<emitted, bstack, nextKey, fnName, fns, status>>

(* ENUM_ARM(key, stmt), ENUM_ARM(key, capture, stmt), ENUM_DEFAULT(stmt): *)
(* RegisterEnumArm / RegisterEnumDefaultArm start code().  ENUM_ARM2      *)
(* passes "" for the capture, which the Optional<std::string> holds.      *)
OpenArm ==
  /\ Event /\ ctl # <<>> /\ TopCtl.kind = "match"
  /\ \E form \in {"keyed", "capturing", "default"} :
       ctl' = Append(ctl, [Ctl("arm", ln, Len(TopBlock.code), Len(blocks)) EXCEPT
                !.akey    = IF form = "default" THEN NoKey ELSE CaseKey,
                !.capture = CASE form = "keyed"     -> ""
                              [] form = "capturing" -> CaptureName
                              [] OTHER              -> NoKey])
  /\ UNCHANGED <<emitted, blocks, bstack, nextKey, fnName, fns, status>>

(* Mutant: the wrapping block does not take the arm's line. *)
AsBlockNoLine(capture, key, l, in) ==
  LET b == IF in.k = "block" THEN in ELSE [NewBlock(0) EXCEPT !.code = <<in>>]
  IN  IF capture # NoKey
      THEN [b EXCEPT !.vars = Append(@, VarRec("capture", 0, capture, key,
                                                "THIS_WILL_BE_REPLACED_BY_SOURCE_VAR_NAME"))]
      ELSE b

(* AsBlock: the arm's one unit as a block, plus the capture alias var. *)
AsBlock(capture, key, l, in) ==
  LET b == IF in.k = "block" THEN in ELSE [NewBlock(l) EXCEPT !.code = <<in>>]
  IN  IF capture # NoKey
      THEN [b EXCEPT !.vars = Append(@, VarRec("capture", 0, capture, key,
                                                "THIS_WILL_BE_REPLACED_BY_SOURCE_VAR_NAME"))]
      ELSE b

(* code() returned: extract the last unit and collect the arm. *)
CloseArm ==
  /\ Return /\ ctl # <<>> /\ TopCtl.kind = "arm" /\ UnitDone
  /\ IF TopBlock.code = <<>> THEN Fatal("ub")
     ELSE LET a   == TopCtl
              arm == ArmRec(a.line, a.akey, a.capture,
                             AsBlock(a.capture, a.akey, a.line, Last(TopBlock.code)))
          IN  /\ blocks' = DropLast(blocks)
              /\ ctl' = [Front(ctl) EXCEPT ![Len(ctl) - 1].arms = Append(@, arm)]
              /\ UNCHANGED <<emitted, bstack, nextKey, fnName, fns, status>>

(* RegisterMatchEnumStmt::AddArms points each capture alias at the match's *)
(* var; the destructor pops the scratch block and adds the match.         *)
SetSource(arm) ==
  IF arm.capture = NoKey THEN arm
  ELSE [arm EXCEPT !.code.vars[Len(arm.code.vars)].src = MatchVar]

CloseMatch ==
  /\ Return /\ ctl # <<>> /\ TopCtl.kind = "match"
  /\ LET arms == TopCtl.arms IN
     IF \E i \in DOMAIN arms :
          arms[i].capture # NoKey
          /\ (arms[i].code.vars = <<>> \/ Last(arms[i].code.vars).kind # "capture")
     THEN Fatal("exit")
     ELSE /\ blocks' = AddToBlock(Front(blocks),
                         MatchNode(TopCtl.line, MatchVar,
                                    [i \in DOMAIN arms |-> SetSource(arms[i])]))
          /\ ctl' = Emitted(Front(ctl))
          /\ UNCHANGED <<emitted, bstack, nextKey, fnName, fns, status>>

Next ==
  \/ StartFn \/ EndFn \/ Stmt \/ Var \/ Arg
  \/ OpenBlock \/ CloseBlock
  \/ OpenIf \/ IfNext \/ CloseIf
  \/ OpenMatch \/ OpenArm \/ CloseArm \/ CloseMatch

Spec == Init /\ [][Next]_vars

(***************************************************************************)
(* Properties.                                                             *)
(***************************************************************************)

Statuses == {"ok", "dup", "exit", "ub"}

TypeOK ==
  /\ status \in Statuses
  /\ ln \in 1..(MaxLine + 1)
  /\ nextKey \in Nat
  /\ fnName \in FnNames \cup {""}
  /\ \A k \in 1..Len(ctl) : ctl[k].depth \in 1..Len(blocks)
  /\ \A k \in 1..Len(bstack) : bstack[k][1] \in 1..nextKey

(* On a stream the DSL grammar allows, none of the internal-invariant      *)
(* exits of Ctx::MarkInnerBlockAsCompleted, RegisterBlock's depth check,    *)
(* RegisterMatchEnumStmt::AddArms or the InFunction checks fires, and no   *)
(* ExtractLastStmt reads an empty block; only a duplicate FN name stops    *)
(* the build.                                                              *)
NoInternalError == status \in {"ok", "dup"}

(* The refinement mapping: each lambda on ctl is a construct under         *)
(* construction whose content is the part of its host block from where it *)
(* started up to where the next construct started (a BLOCK's placeholder   *)
(* is not content).  A fn, BLOCK or match owns a block of `blocks`; an IF  *)
(* or an arm emits into its host's.                                        *)
Owns(c) == c.kind \in {"fn", "block", "match"}
FrameCode(k) ==
  LET c    == ctl[k]
      host == blocks[c.depth].code
  IN  SubSeq(host, IF Owns(c) THEN 1 ELSE c.at + 1,
              IF k < Len(ctl) THEN ctl[k + 1].at ELSE Len(host))
AbsFrame(k) ==
  [kind    |-> ctl[k].kind,
   line    |-> ctl[k].line,
   name    |-> IF ctl[k].kind = "fn" THEN fnName ELSE "",
   vars    |-> IF ctl[k].kind \in {"fn", "block"} THEN blocks[ctl[k].depth].vars ELSE <<>>,
   code    |-> FrameCode(k),
   arms    |-> [i \in DOMAIN ctl[k].arms |-> SetSource(ctl[k].arms[i])],
   akey    |-> ctl[k].akey,
   capture |-> ctl[k].capture]

(* Built as a tuple, one frame after another. *)
RECURSIVE AbsFramesUpTo(_)
AbsFramesUpTo(n) == IF n = 0 THEN <<>> ELSE Append(AbsFramesUpTo(n - 1), AbsFrame(n))

Tree == INSTANCE IRTree WITH open <- AbsFramesUpTo(Len(ctl)), halted <- (status = "dup")

(* The placeholder-and-splice assembly of dsl.prefix.h builds, event for   *)
(* event, the same tree as building it directly: every placeholder is     *)
(* replaced by its own block at its own place, every IF gets the two units *)
(* its branches emitted in order, every arm its unit and alias.           *)
BuildsTree == Tree!Spec

(* The nodes of a finished body, and what they declare and hold. *)
RECURSIVE Nodes(_)
Nodes(it) ==
  {it} \cup CASE it.k = "block" -> UNION {Nodes(it.code[i]) : i \in DOMAIN it.code}
              [] it.k = "if"    -> Nodes(it.yes) \cup Nodes(it.no)
              [] it.k = "match" -> UNION {Nodes(it.arms[i].code) : i \in DOMAIN it.arms}
              [] OTHER          -> {}
BlockVars(b) == UNION {ToSet(n.vars) : n \in {x \in Nodes(b) : x.k = "block"}}
BodyLines(b) == {n.line : n \in {x \in Nodes(b) : x.k = "stmt"}} \cup {v.line : v \in BlockVars(b)}
Finished(f)  == fns[f] # NoFn /\ f # fnName

(* ENUM_ARM(key, stmt) does not capture, so its arm has no capture name   *)
(* and its block no CaptureAlias var (spec.md 4.2, "if the arm captures"; *)
(* "capture name may only be present when key is present").               *)
OnlyCapturingArmsAlias ==
  \A f \in FnNames : Finished(f) =>
    \A v \in BlockVars(fns[f].body) : v.kind = "capture" => v.name # ""

(* Whatever the nesting of IF branches and arms (also ones emitting no or *)
(* several units), the placeholder index that Ctx::EnterBlock saves still *)
(* points at the BLOCK's placeholder when MarkInnerBlockAsCompleted runs: *)
(* none of its WTF exits, nor RegisterBlock's depth check, fires.         *)
NoSpliceFailure == status # "exit"

(* Every block placeholder of a finished function has been replaced by     *)
(* its block: no MaroonIRBlockPlaceholder reaches the IR (spec.md 8).     *)
NoPlaceholderLeft ==
  \A f \in FnNames : Finished(f) => \A n \in Nodes(fns[f].body) : n.k # "ph"

(* spec.md 4.2: IF's two sub-builders each append exactly one unit, and   *)
(* those two are what RegisterIf extracts.  So when the If is assembled    *)
(* (no() has returned and there are two items to extract), the current     *)
(* block holds exactly two more items than when yes() began; otherwise     *)
(* ExtractLastStmt takes a statement emitted before the IF into a branch,  *)
(* or leaves one of a branch's units outside the If.                       *)
IfTakesItsBranches ==
  [][(CloseIf /\ Len(TopBlock.code) >= 2) => Len(TopBlock.code) = TopCtl.at + 2]_vars

(* spec.md 4.2: a VAR is legal wherever a function is active, and the     *)
(* builder assembles every event into the tree: every STMT and VAR of a   *)
(* finished FN is in its body, also inside an IF branch or an arm.        *)
NothingDropped ==
  \A f \in FnNames : Finished(f) => emitted[f] \subseteq BodyLines(fns[f].body)

=============================================================================
