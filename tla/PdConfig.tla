------------------------------ MODULE PdConfig ------------------------------
(***************************************************************************)
(* What pipeline_dispatcher makes of its command line (pd_config.c).       *)
(* Option values are classes of strings; a command line is what is left    *)
(* of it after getopt_long, and what stat and access say of the paths.     *)
(***************************************************************************)
EXTENDS Integers

(* "", "abc", "0", "5", "-5", and a number beyond ULONG_MAX. *)
Values == {"empty", "junk", "zero", "positive", "negative", "huge"}

CommandLines ==
  [flags : {"none"}, operands : {"three"}, ttl : Values, clipSecs : Values,
   idleSecs : Values, names : {"given", "empty"}, dir : BOOLEAN, applets : BOOLEAN]
  \cup
  [flags : {"none", "help", "unknown"}, operands : {"three", "other", "tooLong"},
   ttl : {"positive"}, clipSecs : {"positive"}, idleSecs : {"positive"},
   names : {"given"}, dir : {TRUE}, applets : {TRUE}]

(* strtoul takes a sign: "-5" is a large number, and no error. *)
ValidUintString(value, allowZero) ==
  \/ value \in {"positive", "negative"}
  \/ allowZero /\ value = "zero"

(* 0, 1 after --help, -1.  Operands are "tooLong" when an applet's path    *)
(* does not fit its buffer.                                                *)
ParseResult(line) ==
  CASE line.flags = "help" -> 1
    [] line.flags = "unknown" -> -1
    [] line.flags = "none" -> IF line.operands = "three" THEN 0 ELSE -1

Validates(line) ==
  /\ line.names = "given"
  /\ line.dir
  /\ ValidUintString(line.ttl, TRUE)
  /\ ValidUintString(line.clipSecs, FALSE)
  /\ ValidUintString(line.idleSecs, FALSE)
  /\ line.applets
=============================================================================
