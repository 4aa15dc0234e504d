--------------------------- MODULE DynamicBuffer ----------------------------
(***************************************************************************)
(* The growable buffer of lib/dynamic_buffer.c.  It has no storage while   *)
(* cap is 0.  What it holds is kept as a text, a sequence of tokens of     *)
(* given sizes; sizes are bounded by SizeMax as by SIZE_MAX in the code.   *)
(***************************************************************************)
EXTENDS Integers, Sequences, FiniteSets, SequencesExt

CONSTANTS
  SizeMax,
  FirstCap,   (* 128 in the code                            *)
  LongSize    (* size of the token "long"; others take 1    *)

ASSUME BufferAssumption ==
  /\ FirstCap \in Nat \ {0} /\ SizeMax \in Nat /\ FirstCap <= SizeMax
  /\ LongSize \in Nat

EmptyBuffer == [cap |-> 0, len |-> 0, failed |-> FALSE, text |-> <<>>]

Size(text) == Len(text) + (LongSize - 1) * Cardinality({i \in DOMAIN text : text[i] = "long"})

Overflows(buf, extra) == extra > SizeMax - 1 - buf.len

(* Mutant of Need: the NUL at the end is forgotten. *)
NeedWithoutNul(buf, extra) == buf.len + extra

Need(buf, extra) == buf.len + extra + 1

(* Doubling, and exactly what is needed where doubling would not fit. *)
GrownCap(cap, need) ==
  LET grown[next \in 1..SizeMax] ==
        IF next >= need THEN next
        ELSE IF next > SizeMax \div 2 THEN need ELSE grown[2 * next]
  IN grown[IF cap = 0 THEN FirstCap ELSE cap]

Grows(buf, extra) == Need(buf, extra) > buf.cap

(* dynamic_buffer_reserve: what may come of it; growing may fail. *)
Reserve(buf, extra) ==
  LET failed == [buf EXCEPT !.failed = TRUE]
  IN IF buf.failed \/ (buf.cap > 0 /\ buf.len >= buf.cap) \/ Overflows(buf, extra)
     THEN {failed}
     ELSE IF ~Grows(buf, extra) THEN {buf}
     ELSE {failed, [buf EXCEPT !.cap = GrownCap(buf.cap, Need(buf, extra))]}

(* dynamic_buffer_append_char, _mem and _str *)
AppendText(buf, text) ==
  {IF b.failed THEN b ELSE [b EXCEPT !.len = @ + Size(text), !.text = @ \o text] :
     b \in Reserve(buf, Size(text))}
=============================================================================
