----------------------------- MODULE MaroonValues -----------------------------
(***************************************************************************)
(* The value layer of src/cpp_ir/src/engine.h (lines 15-136): the boxed    *)
(* values MAROON_TYPE_U64 and MAROON_TYPE_BOOL, the OPTIONAL_T wrappers    *)
(* that DEFINE_MAROON_OPTIONAL_TYPE declares, the operators that           *)
(* DEFINE_BINARY_OP and DEFINE_BOOLEAN_OP define on U64, the runtime type  *)
(* name every value reports and the display form the transcript shows.    *)
(*                                                                         *)
(* A value is a record:                                                    *)
(*   [t |-> "U64", n]            n in 0 .. 2^Width - 1 (uint64_t value)    *)
(*   [t |-> "BOOL", b]                                                     *)
(*   [t |-> "OPTIONAL", of, has, inner]   of the inner type's name; inner  *)
(*                                 a value of that type, or Null if empty  *)
(* A declared type is the name the IR spells: "U64", "BOOL" or            *)
(* "OPTIONAL_U64", "OPTIONAL_BOOL".  Width is 64 in the code.              *)
(***************************************************************************)
EXTENDS Naturals, Sequences

CONSTANTS
  Width,  (* bits of uint64_t                                              *)
  Null    (* no value: an empty Optional, or a slot nothing was moved into *)

Bases == {"U64", "BOOL"}
Modulus == 2^Width

(* inline U64(uint64_t v) and BOOL(bool v); a uint64_t is taken mod 2^64. *)
(* A U64 that keeps the exact result instead of its low Width bits. *)
U64NoWrap(k) == [t |-> "U64", n |-> k]
U64(k)  == [t |-> "U64", n |-> k % Modulus]
BOOL(x) == [t |-> "BOOL", b |-> x]

(* MAROON_TYPE_OPTIONAL_T(NONE) and MAROON_TYPE_OPTIONAL_T(inner). *)
NoneOf(base) == [t |-> "OPTIONAL", of |-> base, has |-> FALSE, inner |-> Null]
Some(v)      == [t |-> "OPTIONAL", of |-> v.t, has |-> TRUE, inner |-> v]

BaseValues(base) ==
  IF base = "U64" THEN {U64(k) : k \in 0 .. Modulus - 1} ELSE {BOOL(x) : x \in BOOLEAN}
OptionalValues(base) == {NoneOf(base)} \cup {Some(v) : v \in BaseValues(base)}
AllValues == UNION {BaseValues(b) \cup OptionalValues(b) : b \in Bases}

(* The class a value is an instance of, as the IR spells its type: what   *)
(* dynamic_cast<T*> tests.                                                 *)
ClassOf(v) == IF v.t = "OPTIONAL" THEN "OPTIONAL_" \o v.of ELSE v.t

(* MAROON_type_name(): "U64", "BOOL", and for OPTIONAL_T the text of T     *)
(* (engine.h:110-111 return #inner).                                       *)
TypeName(v) == IF v.t = "OPTIONAL" THEN v.of ELSE v.t

(* T::MAROON_type_name_static() of a declared type. *)
StaticTypeName(T) ==
  CASE T \in Bases         -> T
    [] T = "OPTIONAL_U64"  -> "U64"
    [] T = "OPTIONAL_BOOL" -> "BOOL"

(* Constructing a T from a value, as make_unique<T>(x) does in pack_args   *)
(* and RETURN(x): a T from a T, an OPTIONAL_T from a T (some) or from NONE *)
(* (Null here), or from an OPTIONAL_T.                                     *)
Construct(T, v) ==
  CASE v = Null             -> NoneOf(StaticTypeName(T))
    [] ClassOf(v) = T       -> v
    [] OTHER                -> Some(v)

(* The binary operators: uint64_t +, - and * wrap modulo 2^64.            *)
Arith(op, a, b) ==
  CASE op = "+" -> U64(a.n + b.n)
    [] op = "-" -> U64(a.n - b.n)
    [] op = "*" -> U64(a.n * b.n)

(* The comparisons, on the uint64_t values. *)
Compare(op, a, b) ==
  CASE op = "==" -> a.n = b.n
    [] op = "!=" -> a.n # b.n
    [] op = "<"  -> a.n < b.n
    [] op = "<=" -> a.n <= b.n
    [] op = ">"  -> a.n > b.n
    [] op = ">=" -> a.n >= b.n

(* operator= of a slot holding `old`: a U64 or BOOL takes the value; an    *)
(* OPTIONAL_T takes a T (some), NONE (Null) or another OPTIONAL_T.         *)
Assign(old, v) == Construct(ClassOf(old), v)

(* EXISTS(x), VALUE(x). *)
Exists(x)   == x.has
ValueOf(x)  == x.inner

(***************************************************************************)
(* MAROON_display(os): what `os << value` writes, as characters.           *)
(***************************************************************************)
DigitChar(d) == <<"0", "1", "2", "3", "4", "5", "6", "7", "8", "9">>[d + 1]

(* `os << uint64_t`: the decimal digits, most significant first. *)
RECURSIVE Decimal(_)
Decimal(k) == IF k < 10 THEN <<DigitChar(k)>> ELSE Append(Decimal(k \div 10), DigitChar(k % 10))

(* os << std::boolalpha << value *)
BoolChars(x) == IF x THEN <<"t", "r", "u", "e">> ELSE <<"f", "a", "l", "s", "e">>

RECURSIVE Display(_)
Display(v) ==
  CASE v.t = "U64"  -> Decimal(v.n)
    [] v.t = "BOOL" -> BoolChars(v.b)
    [] v.has        -> <<"S", "o", "m", "e", "(">> \o Display(v.inner) \o <<")">>
    [] OTHER        -> <<"N", "o", "n", "e">>


(***************************************************************************)
(* The transcript lines ImplEnv writes (engine.h:323-387), each a sequence *)
(* of characters and of whole words (a DEBUG message, an expression's     *)
(* spelling, a variable or function name).  A var is [name, val].          *)
(***************************************************************************)
RECURSIVE JoinComma(_)
JoinComma(parts) ==
  CASE parts = <<>>    -> <<>>
    [] Len(parts) = 1  -> Head(parts)
    [] OTHER           -> Head(parts) \o <<",">> \o JoinComma(Tail(parts))

(* debug(s): oss << s. *)
DebugLine(msg) == <<msg>>

(* debug_expr(expr, v): expr '=' display. *)
ExprLine(text, v) == <<text, "=">> \o Display(v)

(* do_debug_dump_vars: '[' name ':' display, ... ']'. *)
VarsChars(vs) ==
  <<"[">> \o JoinComma([j \in 1..Len(vs) |-> <<vs[j].name, ":">> \o Display(vs[j].val)]) \o <<"]">>

(* debug_dump_stack: '<' frames bottom to top, each prefixed by its        *)
(* function's name and '@' unless the name is empty, ... '>'.              *)
FrameChars(fr) == (IF fr.f = "" THEN <<>> ELSE <<fr.f, "@">>) \o VarsChars(fr.vars)
StackLine(st) == <<"<">> \o JoinComma([k \in 1..Len(st) |-> FrameChars(st[k])]) \o <<">">>

=============================================================================
