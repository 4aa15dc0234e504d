----------------------------- MODULE JsonlCodec -----------------------------
(***************************************************************************)
(* The getters of lib/jsonl_codec.c, on one field of a line.  cJSON keeps  *)
(* a number as a double, which is exact for integers up to Precision.  A   *)
(* literal is counted in halves, so that there are fractions and numbers   *)
(* too large to be exact.  A getter returns the set of its result, empty   *)
(* for -1.                                                                 *)
(***************************************************************************)
EXTENDS Integers, Sequences, TLC

CONSTANTS Precision (* 2^53 in the code *)

ASSUME CodecAssumption == Precision \in Nat \ {0} /\ Precision % 2 = 0

(* Fields of an object: missing, an array or object, a number, or text     *)
(* (a string that fits the caller's buffer or one that does not; true,     *)
(* false and null read as text).                                           *)
Missing == [type |-> "missing"]
Nested == [type |-> "nested"]
TooLong == [type |-> "tooLong"]
String(text) == [type |-> "string", text |-> text]
Number(halves) == [type |-> "number", halves |-> halves]
Literal(text) == [type |-> "literal", text |-> text]

(* strtod: the nearest double, an even significand when two are as near.   *)
Ulp(x) ==
  LET ulp[y \in 0..x] == IF y < Precision THEN 1 ELSE 2 * ulp[y \div 2]
  IN ulp[x]
RoundAbs(x) ==
  LET u == Ulp(x)
      q == x \div u
      r == x % u
  IN IF 2 * r < u \/ (2 * r = u /\ q % 2 = 0) THEN q * u ELSE (q + 1) * u
Round(x) == IF x >= 0 THEN RoundAbs(x) ELSE -RoundAbs(-x)

(* A number as it is written out, one word. *)
Decimal(h) ==
  IF h % 2 = 0 THEN ToString(h \div 2)
  ELSE (IF h < 0 THEN "-" ELSE "") \o ToString((IF h < 0 THEN -h ELSE h) \div 2) \o ".5"

(* Mutant of MAX_SAFE_INTEGER: the first integer with an inexact neighbour. *)
MaxWithNeighbour == Precision

MAX_SAFE_INTEGER == Precision - 1

GetInt64(item) ==
  IF item.type # "number" THEN {}
  ELSE LET v == Round(item.halves)
       IN IF v < -2 * MAX_SAFE_INTEGER \/ v > 2 * MAX_SAFE_INTEGER \/ v % 2 # 0
          THEN {} ELSE {v \div 2}

GetScalarText(item) ==
  CASE item.type \in {"string", "literal"} -> {item.text}
    [] item.type = "number" -> {<<Decimal(Round(item.halves))>>}
    [] OTHER -> {}
=============================================================================
