----------------------------- MODULE MaroonTests -----------------------------
(***************************************************************************)
(* The test-case registry: the records TEST_FIBER and                       *)
(* TEST_FIBER_SHOULD_THROW (boilerplate/dsl.spec.h) push into              *)
(* ctx.out.tests (ir.h's MaroonTestCase variant), and what the test runner *)
(* of spec.md 4.4 does with MaroonEngine::run()'s result, a record         *)
(* [output, error] of transcript lines and error text.  The runner is not *)
(* in the repository.                                                      *)
(*                                                                         *)
(* The maroon and fiber names a test carries select the program to run;   *)
(* the models pair each test with its program directly, so they are left   *)
(* out.                                                                    *)
(***************************************************************************)

(* TEST_FIBER(m, f, {"line", ...}): the golden transcript lines. *)
TestRunFiber(golden) == [kind |-> "run", golden_output |-> golden]

(* TEST_FIBER_SHOULD_THROW(m, f, err): the expected error text. *)
TestShouldThrow(e) == [kind |-> "throw", error |-> e]

(* spec.md 4.4: a run test compares the transcript's lines verbatim, a     *)
(* throw test the error message.                                           *)
Passes(tc, res) ==
  IF tc.kind = "run" THEN res.output = tc.golden_output ELSE res.error = tc.error

=============================================================================
