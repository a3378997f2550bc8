--------------------------- MODULE MCMaroonEngine ---------------------------
(***************************************************************************)
(* Fibers for checking MaroonEngine.  Each is a MaroonIRFiber as the       *)
(* builder of dsl.prefix.h emits it (functions in std::map order, a        *)
(* function's args first among its body's vars, a match arm's capture     *)
(* alias last among its block's vars), written with the helpers below.    *)
(***************************************************************************)
EXTENDS MaroonEngine, MaroonTests

Reg(n, t, v) == [kind |-> "reg", name |-> n, type |-> t, init |-> v]
Arg(n, t)    == [kind |-> "arg", name |-> n, type |-> t]
Capture(n)   == [kind |-> "capture", name |-> n, type |-> "none"]

(* Operands, expressions and conditions. *)
R(slot, n, t) == [slot |-> slot, name |-> n, type |-> t]
Unwrap(r)     == [unwrap |-> r]
L(v)          == [lit |-> v]
Bin(op, l, r) == [op |-> op, l |-> l, r |-> r]
Cmp(op, l, r) == [cmp |-> op, l |-> l, r |-> r]
Is(l)         == [cmp |-> "is", l |-> l, r |-> l]

S(op) == [k |-> "stmt", op |-> op]
Blk(vs, code) == [k |-> "block", vars |-> vs, code |-> code]
Arm(key, vs, code) == [k |-> "block", key |-> key, vars |-> vs, code |-> code]
If(c, yes, no) == [k |-> "if", cond |-> c, yes |-> yes, no |-> no]
Match(x, arms) == [k |-> "match", var |-> x, arms |-> arms]

Debug(m) == S([o |-> "debug", msg |-> m])
Expr(text, e) == S([o |-> "expr", text |-> text, e |-> e])
Set(dst, how, e) == S([o |-> "set", dst |-> dst, how |-> how, e |-> e])
DumpVars == S([o |-> "dumpvars"])
DumpStack == S([o |-> "dumpstack"])
Call(f, slot, args) == S([o |-> "call", fn |-> f, ret |-> slot, args |-> args])
Ret == S([o |-> "ret", val |-> FALSE, e |-> L(Null)])
RetV(e) == S([o |-> "ret", val |-> TRUE, e |-> e])

Fn(n, args, ret, body) == [name |-> n, args |-> args, ret |-> ret, body |-> body]
Main1(vs, code) == << Fn("main", <<>>, "unit", Blk(vs, code)) >>

(***************************************************************************)
(* The end-to-end scenarios of spec.md section 8, each with the test case  *)
(* a TEST_FIBER or TEST_FIBER_SHOULD_THROW would register for it.  A line  *)
(* is written out as its characters and whole words.                      *)
(***************************************************************************)
A2 == R(0, "a", "U64")
B3 == R(1, "b", "U64")
X  == R(0, "x", "OPTIONAL_U64")
Run(golden) == TestRunFiber(golden)
Scenarios ==
  { (* 1. Hello, twice. *)
    [fns |-> Main1(<<>>, <<Debug("hi"), Debug("hi"), Ret>>),
     test |-> Run(<< <<"hi">>, <<"hi">> >>)],
    (* 2. Arithmetic. *)
    [fns |-> Main1(<<Reg("a", "U64", U64(2)), Reg("b", "U64", U64(3))>>,
                   <<Expr("a + b", Bin("+", A2, B3)), Ret>>),
     test |-> Run(<< <<"a + b", "=", "5">> >>)],
    (* 3. Conditional. *)
    [fns |-> Main1(<<Reg("a", "U64", U64(2)), Reg("b", "U64", U64(3))>>,
                   <<If(Cmp("<", A2, B3), Debug("lt"), Debug("ge")), Ret>>),
     test |-> Run(<< <<"lt">> >>)],
    (* 4. Optional match, with Some(7) and with None. *)
    [fns |-> Main1(<<Reg("x", "OPTIONAL_U64", Some(U64(7)))>>,
                   <<Match(X, <<Arm("U64", <<Capture("v")>>, <<Expr("v", Unwrap(X))>>),
                                Arm("default", <<>>, <<Debug("none")>>)>>), Ret>>),
     test |-> Run(<< <<"v", "=", "7">> >>)],
    [fns |-> Main1(<<Reg("x", "OPTIONAL_U64", NoneOf("U64"))>>,
                   <<Match(X, <<Arm("U64", <<Capture("v")>>, <<Expr("v", Unwrap(X))>>),
                                Arm("default", <<>>, <<Debug("none")>>)>>), Ret>>),
     test |-> Run(<< <<"none">> >>)],
    (* 5. Call with return. *)
    [fns |-> << Fn("add", <<"U64", "U64">>, "U64",
                   Blk(<<Arg("a", "U64"), Arg("b", "U64")>>, <<RetV(Bin("+", A2, B3))>>)),
                Fn("main", <<>>, "unit",
                   Blk(<<Reg("r", "U64", U64(0))>>,
                       <<Call("add", 0, <<L(U64(2)), L(U64(3))>>), Expr("r", R(0, "r", "U64")), Ret>>)) >>,
     test |-> Run(<< <<"r", "=", "5">> >>)],
    (* 6. Type mismatch: a BOOL used as a U64. *)
    [fns |-> Main1(<<Reg("f", "BOOL", BOOL(TRUE)), Reg("n", "U64", U64(1))>>,
                   <<Expr("n + f", Bin("+", R(1, "n", "U64"), R(0, "f", "U64"))), Ret>>),
     test |-> TestShouldThrow(<<"Attempted to use", "f", "of type", "BOOL", "as", "U64", ".">>)] }

(***************************************************************************)
(* Programs with the engine's harder paths.                                *)
(***************************************************************************)

(* add(x, y) for x, y in Inputs, where the sum may wrap: the callee dumps  *)
(* the stack; main keeps the wrapped sum in an optional, matches on it     *)
(* and undoes the sum in a scoped block.                                   *)
Inputs == {0, 3, 5, 7}
Sums(x, y) ==
  << Fn("add", <<"U64", "U64">>, "U64",
        Blk(<<Arg("a", "U64"), Arg("b", "U64"), Reg("s", "U64", U64(0))>>,
            <<Set(R(2, "s", "U64"), "=", Bin("+", A2, B3)), DumpStack, RetV(R(2, "s", "U64"))>>)),
     Fn("main", <<>>, "unit",
        Blk(<<Reg("r", "U64", U64(0)), Reg("o", "OPTIONAL_U64", NoneOf("U64"))>>,
            <<Call("add", 0, <<L(U64(x)), L(U64(y))>>),
              If(Cmp("<", R(0, "r", "U64"), L(U64(x))),
                 Blk(<<Reg("d", "U64", U64(x))>>,
                     <<Set(R(2, "d", "U64"), "-", R(0, "r", "U64")), Expr("d", R(2, "d", "U64")),
                       Set(R(1, "o", "OPTIONAL_U64"), "=", R(0, "r", "U64"))>>),
                 Debug("fits")),
              Match(R(1, "o", "OPTIONAL_U64"),
                    <<Arm("U64", <<Capture("v")>>, <<Expr("v", Unwrap(R(1, "o", "OPTIONAL_U64")))>>),
                      Arm("default", <<>>, <<DumpVars>>)>>),
              Set(R(0, "r", "U64"), "*", L(U64(y))), Expr("r", R(0, "r", "U64")), Ret>>)) >>

(* A BOOL function that may RETURN() while its caller captures the result; *)
(* main has no RETURN() at its end.                                        *)
MissingReturns(flag) ==
  << Fn("get", <<>>, "U64",
        Blk(<<Reg("c", "BOOL", BOOL(flag))>>,
            <<DumpStack, If(Is(R(0, "c", "BOOL")), RetV(L(U64(1))), Ret)>>)),
     Fn("main", <<>>, "unit",
        Blk(<<Reg("r", "U64", U64(0))>>,
            <<Call("get", 0, <<>>), Debug("after"), DumpVars>>)) >>

(* Nested calls with the result captured into slots of an inner scope, an *)
(* optional argument (some below 4, none from 4 on), and a return from     *)
(* inside a capturing arm.                                                 *)
NestedCalls(seed) ==
  << Fn("f", <<"U64">>, "BOOL",
        Blk(<<Arg("x", "U64"), Reg("c", "BOOL", BOOL(FALSE))>>,
            <<If(Cmp("<", R(0, "x", "U64"), L(U64(4))),
                 Call("g", 1, <<R(0, "x", "U64")>>), Call("g", 1, <<L(Null)>>)),
              Expr("c", R(1, "c", "BOOL")),
              If(Is(R(1, "c", "BOOL")), RetV(R(1, "c", "BOOL")),
                 Blk(<<Reg("y", "U64", U64(1))>>,
                     <<Call("g", NoSlot, <<L(Null)>>), Set(R(2, "y", "U64"), "+", R(0, "x", "U64")),
                       RetV(L(BOOL(FALSE)))>>))>>)),
     Fn("g", <<"OPTIONAL_U64">>, "BOOL",
        Blk(<<Arg("o", "OPTIONAL_U64")>>,
            <<Match(R(0, "o", "OPTIONAL_U64"),
                    <<Arm("U64", <<Capture("p")>>,
                          <<RetV(L(BOOL(TRUE)))>>),
                      Arm("default", <<>>, <<Debug("g none")>>)>>),
              RetV(L(BOOL(FALSE)))>>)),
     Fn("main", <<>>, "unit",
        Blk(<<Reg("b", "BOOL", BOOL(TRUE)), Reg("n", "U64", U64(seed))>>,
            <<Call("f", 0, <<R(1, "n", "U64")>>), Expr("b", R(0, "b", "BOOL")),
              Blk(<<Reg("m", "BOOL", BOOL(TRUE))>>,
                  <<Call("f", 2, <<L(U64(seed + 1))>>), Expr("m", R(2, "m", "BOOL"))>>),
              DumpVars, Ret>>)) >>

(* fact(n), recursive: RETURN(1) at 0, else RETURN(r * n) with r the     *)
(* result of fact(n - 1) captured into fact's own slot.                    *)
N1 == R(0, "n", "U64")
Fact(k) ==
  << Fn("fact", <<"U64">>, "U64",
        Blk(<<Arg("n", "U64"), Reg("r", "U64", U64(1))>>,
            <<If(Cmp("==", N1, L(U64(0))), RetV(L(U64(1))),
                 Blk(<<>>, <<Call("fact", 1, <<Bin("-", N1, L(U64(1)))>>),
                             RetV(Bin("*", R(1, "r", "U64"), N1))>>))>>)),
     Fn("main", <<>>, "unit",
        Blk(<<Reg("x", "U64", U64(0))>>,
            <<Call("fact", 0, <<L(U64(k))>>), Expr("x", R(0, "x", "U64")), Ret>>)) >>

(* The factorial on the naturals, reduced once at the end. *)
RECURSIVE Factorial(_)
Factorial(k) == IF k = 0 THEN 1 ELSE k * Factorial(k - 1)
FactDepths == 0 .. 4
FactScenarios ==
  {[fns |-> Fact(k), test |-> Run(<< <<"x", "=">> \o Decimal(Factorial(k) % Modulus) >>)] : k \in FactDepths}

(* An OPTIONAL<U64> var set and matched, then used as a U64. *)
MatchMismatch ==
  Main1(<<Reg("x", "OPTIONAL_U64", NoneOf("U64"))>>,
        <<Match(X, <<Arm("U64", <<Capture("v")>>, <<Debug("some")>>),
                     Arm("default", <<>>, <<Debug("none"), DumpVars>>)>>),
          Set(X, "=", L(U64(6))), DumpStack,
          Match(X, <<Arm("U64", <<Capture("v")>>, <<Expr("v", Unwrap(X))>>)>>),
          Expr("x", R(0, "x", "U64")), Ret>>)

(* Two BOOL vars added as U64s in one DEBUG_EXPR. *)
TwoMismatches ==
  Main1(<<Reg("f", "BOOL", BOOL(TRUE)), Reg("g", "BOOL", BOOL(FALSE))>>,
        <<Expr("f + g", Bin("+", R(0, "f", "U64"), R(1, "g", "U64"))), Ret>>)

(* DEBUG_DUMP_VARS() inside an arm that captures the payload. *)
DumpInCaptureArm ==
  Main1(<<Reg("x", "OPTIONAL_U64", Some(U64(1)))>>,
        <<Match(X, <<Arm("U64", <<Capture("v")>>, <<DumpVars>>),
                     Arm("default", <<>>, <<Debug("none")>>)>>), Ret>>)

(* A unit function `a` without RETURN(), laid out before `b`. *)
FallIntoNext ==
  << Fn("a", <<>>, "unit", Blk(<<>>, <<Debug("a")>>)),
     Fn("b", <<>>, "unit", Blk(<<>>, <<Debug("b"), Ret>>)),
     Fn("main", <<>>, "unit", Blk(<<>>, <<Call("a", NoSlot, <<>>), Ret>>)) >>

(* What Sums(x, y) must print, stated without U64(): the sum wraps when   *)
(* it reaches 2^Width, which is exactly when it comes out below x (the     *)
(* usual overflow test the program makes); the product wraps to its       *)
(* remainder.                                                              *)
SumsOut(x, y) ==
  LET w   == IF x + y >= Modulus THEN x + y - Modulus ELSE x + y
      Var(n, ds) == <<n, ":">> \o ds
      stk == <<"<", "[">> \o Var("r", <<"0">>) \o <<",">> \o Var("o", <<"N", "o", "n", "e">>)
             \o <<"]", ",", "add", "@", "[">> \o Var("a", Decimal(x)) \o <<",">>
             \o Var("b", Decimal(y)) \o <<",">> \o Var("s", Decimal(w)) \o <<"]", ">">>
      wrapped == << <<"d", "=">> \o Decimal(x - w), <<"v", "=">> \o Decimal(w) >>
      fits == << <<"fits">>, <<"[">> \o Var("r", Decimal(w)) \o <<",">>
                             \o Var("o", <<"N", "o", "n", "e">>) \o <<"]">> >>
  IN  <<stk>> \o (IF w < x THEN wrapped ELSE fits) \o << <<"r", "=">> \o Decimal((w * y) % Modulus) >>

SumsScenarios == {[fns |-> Sums(x, y), test |-> Run(SumsOut(x, y))] : x, y \in Inputs}

(* get() returns TRUE's value, or a bare RETURN() into main's slot; main,  *)
(* last in the table, has no RETURN().                                     *)
ReturnScenarios ==
  { [fns |-> MissingReturns(TRUE),
     test |-> TestShouldThrow(<<"Need RETURN() at least at the last STMT() of the FN().">>)],
    [fns |-> MissingReturns(FALSE),
     test |-> TestShouldThrow(<<"A return value must have been provided.">>)] }

(* Every registered test passes: once run() has returned for a           *)
(* scenario's program, the runner of spec.md 4.4 accepts its result, the  *)
(* transcript or the ImplException's text; a run that ends the process    *)
(* (std::exit, a crash, an escaping exception) fails its test.  For        *)
(* Sums(x, y) this checks U64's wrap-around, and that the overflow test of *)
(* the program sees it, against SumsOut; for MissingReturns, the text of   *)
(* each missing-return error; for the recursive Fact(k), the product      *)
(* wrapped at every step against the factorial reduced once.             *)
TestsPass ==
  \A sc \in Scenarios \cup SumsScenarios \cup ReturnScenarios \cup FactScenarios :
    (prog.ir = sc.fns /\ status # "running") =>
      /\ status \in {"done", "error"}
      /\ Passes(sc.test, Result)

MCProgramsPass ==
  {sc.fns : sc \in Scenarios} \cup {Sums(x, y) : x, y \in Inputs}
    \cup {MissingReturns(b) : b \in BOOLEAN} \cup {NestedCalls(k) : k \in {0, 6}}
    \cup {Fact(k) : k \in FactDepths}
MCProgramsMismatch == {MatchMismatch}
MCProgramsOrder == {TwoMismatches}
MCProgramsNull == {DumpInCaptureArm}
MCProgramsFall == {FallIntoNext}

=============================================================================
