------------------------------ MODULE LogParse ------------------------------
(***************************************************************************)
(* The log_parse applet (applets/log_parse/): a line of stdin at a time is *)
(* split by a regular expression or read as a JSON object, filtered, and   *)
(* printed, counted or aggregated.  The regular expression is a relation:  *)
(* a line comes with what it captures.  Output lines are built in a        *)
(* DynamicBuffer, an append at a time, each of which may fail.             *)
(***************************************************************************)
EXTENDS LogFilter, DynamicBuffer

CONSTANTS
  OptionSets,  (* command lines                                            *)
  Captures,    (* regex lines: NoMatch, or a value or {} for each group    *)
  Objects,     (* JSON lines: objects as functions from keys to items      *)
  NoMatch,     (* a line the expression does not match                     *)
  Malformed,   (* a line that is not a JSON object                         *)
  MaxLines     (* bound: lines read                                        *)

(* What a line captures has a place for each field asked for.              *)
ASSUME LogParseAssumption ==
  /\ MaxLines \in Nat
  /\ \A o \in OptionSets :
       /\ o.fields \in Seq(Seq(STRING)) /\ o.expr \in Seq(STRING)
       /\ o.regex /\ o.fields # <<>> => \A l \in Captures \ {NoMatch} :
            /\ l = [i \in DOMAIN o.fields |-> l[i]]
            /\ \A i \in DOMAIN o.fields :
                 /\ l[i] \subseteq Seq(STRING)
                 /\ \A s, t \in l[i] : s = t
  /\ Malformed \notin Objects
  /\ \A object \in Objects : \A key \in DOMAIN object :
       object[key].type = "number" => object[key].halves \in Int

NoExpr == <<>>
AggOps == {"sum", "avg", "min", "max"}

VARIABLES
  opt,     (* what getopt_long delivered                          *)
  filter,  (* the parsed expression, as a set                     *)
  pc, rc,
  line,    (* the line being worked on                            *)
  values,  (* log_t: the values of its fields, {} while freed     *)
  buf, at, (* the output line, and its next piece                 *)
  out,     (* lines printed                                       *)
  agg,     (* agg_count, agg_sum, agg_min, agg_max                *)
  matched, (* matched_count                                       *)
  summary, (* what is printed at the end, as a set                *)
  seen     (* history: the lines read                             *)

work == <<line, values, buf, at>>
results == <<out, agg, matched>>
vars == <<opt, filter, pc, rc, work, results, summary, seen>>

Freed == [i \in DOMAIN opt.fields |-> {}]

Init ==
  /\ opt \in OptionSets
  /\ filter = {} /\ pc = "options" /\ rc = 0
  /\ line = Malformed /\ values = Freed /\ buf = EmptyBuffer /\ at = 1
  /\ out = <<>> /\ agg = [count |-> 0, sum |-> 0, min |-> 0, max |-> 0]
  /\ matched = 0 /\ summary = {} /\ seen = <<>>

-----------------------------------------------------------------------------
HasAgg == opt.agg # "none"

(* The tests after getopt_long; format is "" when it was not given. *)
Accepted ==
  /\ opt.expr # NoExpr => FilterParse(opt.expr) # {}
  /\ opt.format \in {"", "json", "csv", "count"}
  /\ IF opt.regex
     THEN /\ opt.fields # <<>> /\ opt.compiles
          /\ HasAgg => \E i \in DOMAIN opt.fields : opt.fields[i] = opt.aggField
     ELSE opt.fields = <<>> /\ (opt.format \in {"", "count"} \/ HasAgg)

Options ==
  /\ pc = "options"
  /\ IF Accepted
     THEN /\ filter' = IF opt.expr = NoExpr THEN {} ELSE FilterParse(opt.expr)
          /\ pc' = "read" /\ UNCHANGED rc
     ELSE rc' = 1 /\ pc' = "done" /\ UNCHANGED filter
  /\ UNCHANGED <<opt, work, results, summary, seen>>

(* What the input may hold. *)
InputLines == IF opt.regex THEN Captures ELSE Objects \cup {Malformed}

(* getline and trim_line *)
ReadLine ==
  /\ pc = "read" /\ Len(seen) < MaxLines
  /\ line' \in InputLines
  /\ seen' = Append(seen, line')
  /\ pc' = IF opt.regex THEN "capture" ELSE "object"
  /\ UNCHANGED <<opt, filter, rc, values, buf, at, results, summary>>

(* Mutant of Updated: the extremes start from zero. *)
UpdatedFromZero(val) ==
  [count |-> agg.count + 1, sum |-> Round(agg.sum + val),
   min |-> IF val < agg.min THEN val ELSE agg.min,
   max |-> IF val > agg.max THEN val ELSE agg.max]

(* The aggregate is made of doubles, in halves like val. *)
Updated(val) ==
  [count |-> agg.count + 1, sum |-> Round(agg.sum + val),
   min |-> IF agg.count = 0 \/ val < agg.min THEN val ELSE agg.min,
   max |-> IF agg.count = 0 \/ val > agg.max THEN val ELSE agg.max]

-----------------------------------------------------------------------------
(* JSONL mode: a selected line is passed through as it is. *)

Field(object, key) == IF key \in DOMAIN object THEN object[key] ELSE Missing

HandleObject ==
  /\ pc = "object" /\ pc' = "read"
  /\ LET selected == line # Malformed /\ \A f \in filter : MatchObject(line, f)
         numbers == IF selected /\ HasAgg
                    THEN {2 * n : n \in GetInt64(Field(line, opt.aggField))} ELSE {}
     IN /\ agg' = IF numbers = {} THEN agg ELSE Updated(CHOOSE n \in numbers : TRUE)
        /\ matched' = IF selected /\ ~HasAgg /\ opt.format = "count" THEN matched + 1 ELSE matched
        /\ out' = IF selected /\ ~HasAgg /\ opt.format = "" THEN Append(out, line) ELSE out
  /\ UNCHANGED <<opt, filter, rc, work, summary, seen>>

-----------------------------------------------------------------------------
(* Regex mode. *)

FieldTexts == [i \in DOMAIN values |-> CHOOSE text \in values[i] : TRUE]

(* The number a text begins with, in halves; 0 when there is none. *)
NumberIn(text) ==
  LET numbers == {h \in -(2 * MaxInt)..(2 * MaxInt) : text # <<>> /\ Head(text) = Decimal(h)}
  IN IF numbers = {} THEN 0 ELSE CHOOSE h \in numbers : TRUE

(* Mutant of Atof: atoi, which stops at the point. *)
AtofAsAtoi(text) == LET h == NumberIn(text) IN IF h < 0 THEN -2 * (-h \div 2) ELSE 2 * (h \div 2)

(* atof: the double nearest to it. *)
Atof(text) == Round(NumberIn(text))

(* Mutant of Skipped: the groups already copied stay. *)
SkippedKeeping == values' = [i \in DOMAIN values |-> IF line = NoMatch THEN {} ELSE line[i]]

Skipped == values' = Freed

(* log_regex_parse_line: a line that does not match, or leaves a group of  *)
(* a field unset, is skipped.                                              *)
Capture ==
  /\ pc = "capture"
  /\ IF line = NoMatch \/ \E i \in DOMAIN opt.fields : line[i] = {}
     THEN Skipped /\ pc' = "read"
     ELSE values' = line /\ pc' = "fields"
  /\ UNCHANGED <<opt, filter, rc, line, buf, at, results, summary, seen>>

(* Out of memory, in calloc or lp_strndup. *)
CaptureFails ==
  /\ pc = "capture"
  /\ values' = Freed /\ rc' = 2 /\ pc' = "end"
  /\ UNCHANGED <<opt, filter, line, buf, at, results, summary, seen>>

AggIndex == CHOOSE i \in DOMAIN opt.fields :
              opt.fields[i] = opt.aggField /\ \A j \in 1..(i - 1) : opt.fields[j] # opt.aggField

HandleFields ==
  /\ pc = "fields"
  /\ LET selected == \A f \in filter : MatchFields(opt.fields, FieldTexts, f)
         emits == selected /\ ~HasAgg /\ opt.format # "count"
     IN /\ agg' = IF selected /\ HasAgg THEN Updated(Atof(FieldTexts[AggIndex])) ELSE agg
        /\ matched' = IF selected /\ ~HasAgg /\ opt.format = "count" THEN matched + 1 ELSE matched
        /\ pc' = IF emits THEN "emit" ELSE "read"
        /\ values' = IF emits THEN values ELSE Freed
  /\ buf' = EmptyBuffer /\ at' = 1
  /\ UNCHANGED <<opt, filter, rc, line, out, summary, seen>>

(* log_output_emit_json: names and values as JSON strings. *)
Escaped(text, special, escape) ==
  FlattenSeq([i \in DOMAIN text |-> IF text[i] \in special THEN <<escape, text[i]>> ELSE <<text[i]>>])
JsonString(text) ==
  <<"quote">> \o Escaped(text, {"quote", "backslash"}, "backslash") \o <<"quote">>
JsonPieces(texts) ==
  <<<<"{">>>>
    \o FlattenSeq([i \in DOMAIN texts |->
         (IF i > 1 THEN <<<<"comma">>>> ELSE <<>>)
           \o <<JsonString(opt.fields[i]), <<":">>, JsonString(texts[i])>>])
    \o <<<<"}", "newline">>>>

(* Mutant of NeedsQuotes: a comma is not looked for. *)
NeedsQuotesForQuotes(text) == \E i \in DOMAIN text : text[i] = "quote"

NeedsQuotes(text) ==
  \E i \in DOMAIN text : text[i] \in {"comma", "quote", "newline", "return"}

(* log_output_emit_csv, append_csv_field: a quoted field goes character by *)
(* character.                                                              *)
CsvField(text) ==
  IF NeedsQuotes(text)
  THEN LET inner == Escaped(text, {"quote"}, "quote")
       IN <<<<"quote">>>> \o [i \in DOMAIN inner |-> <<inner[i]>>] \o <<<<"quote">>>>
  ELSE <<text>>
CsvPieces(texts) ==
  FlattenSeq([i \in DOMAIN texts |->
    (IF i > 1 THEN <<<<"comma">>>> ELSE <<>>) \o CsvField(texts[i])])
    \o <<<<"newline">>>>

Pieces(texts) == IF opt.format = "csv" THEN CsvPieces(texts) ELSE JsonPieces(texts)

AppendPiece ==
  /\ pc = "emit" /\ at <= Len(Pieces(FieldTexts))
  /\ \E b \in AppendText(buf, Pieces(FieldTexts)[at]) :
       /\ ~b.failed
       /\ buf' = b /\ at' = at + 1
  /\ UNCHANGED <<opt, filter, pc, rc, line, values, results, summary, seen>>

(* The buffer cannot grow, or jsonl_write_string has no memory. *)
AppendFails ==
  /\ pc = "emit" /\ at <= Len(Pieces(FieldTexts))
  /\ \/ \E b \in AppendText(buf, Pieces(FieldTexts)[at]) : b.failed
     \/ opt.format # "csv"
  /\ buf' = EmptyBuffer /\ values' = Freed
  /\ rc' = 2 /\ pc' = "end"
  /\ UNCHANGED <<opt, filter, line, at, results, summary, seen>>

PrintLine ==
  /\ pc = "emit" /\ at > Len(Pieces(FieldTexts))
  /\ out' = Append(out, buf.text)
  /\ buf' = EmptyBuffer /\ values' = Freed /\ pc' = "read"
  /\ UNCHANGED <<opt, filter, rc, line, at, agg, matched, summary, seen>>

-----------------------------------------------------------------------------
(* End of input, or an error of it. *)
InputEnds ==
  /\ pc = "read" /\ pc' = "end"
  /\ rc' \in {rc, 2}
  /\ UNCHANGED <<opt, filter, work, results, summary, seen>>

(* The aggregate or the count; after an error, nothing. *)
Summary ==
  IF rc # 0 THEN {}
  ELSE IF HasAgg THEN {[op |-> opt.agg, agg |-> agg]}
  ELSE IF opt.format = "count" THEN {[op |-> "count", count |-> matched]} ELSE {}

End ==
  /\ pc = "end" /\ pc' = "done"
  /\ summary' = Summary
  /\ UNCHANGED <<opt, filter, rc, work, results, seen>>

Next ==
  \/ Options \/ ReadLine \/ HandleObject
  \/ Capture \/ CaptureFails \/ HandleFields
  \/ AppendPiece \/ AppendFails \/ PrintLine
  \/ InputEnds \/ End

Spec == Init /\ [][Next]_vars

-----------------------------------------------------------------------------
(* What the options ask for, from the documented meaning of an expression  *)
(* whose key and value are free of operator characters.                    *)

Plain(text) == text # <<>> /\ \A i \in DOMAIN text : text[i] \notin {"!", "=", ">", "~"}
Spelled(op) == IF op = "!=" THEN <<"!", "=">> ELSE <<op>>
Asked ==
  {f \in [op : Operators,
          key : {SubSeq(opt.expr, 1, i) : i \in DOMAIN opt.expr},
          value : {SubSeq(opt.expr, j, Len(opt.expr)) : j \in DOMAIN opt.expr}] :
     Plain(f.key) /\ Plain(f.value) /\ f.key \o Spelled(f.op) \o f.value = opt.expr}
Plainly == opt.expr = NoExpr \/ Asked # {}

TextsOf(l) == [i \in DOMAIN l |-> CHOOSE text \in l[i] : TRUE]
Readable(l) ==
  IF opt.regex THEN l # NoMatch /\ \A i \in DOMAIN opt.fields : l[i] # {} ELSE l # Malformed
(* The text of a field; two fields of one name have that of the first. *)
Text(l, key) ==
  IF opt.regex
  THEN {TextsOf(l)[i] : i \in {j \in DOMAIN opt.fields :
          opt.fields[j] = key /\ \A h \in 1..(j - 1) : opt.fields[h] # key}}
  ELSE GetScalarText(Field(l, key))

(* The integer a JSON number was written as, if it is one and no double    *)
(* stands for two integers there.                                          *)
Written(item) ==
  IF item.type # "number" THEN {}
  ELSE {n \in {item.halves \div 2} :
          2 * n = item.halves /\ -Precision < n /\ n < Precision}
Integer(l, key) ==
  IF opt.regex THEN UNION {ParseInt(text) : text \in Text(l, key)} ELSE Written(Field(l, key))

(* A double holds fractions up to half as far as it holds all integers.    *)
Held(h) ==
  h \in -Precision..Precision \/ (h % 2 = 0 /\ h \in -(2 * Precision)..(2 * Precision))
(* A double holds every number of the line that is added up; of a JSON     *)
(* line every fraction, while its integers may be as large as they like.   *)
Exact(l) ==
  Readable(l) =>
    IF opt.regex THEN HasAgg => \A text \in Text(l, opt.aggField) : Held(NumberIn(text))
    ELSE \A key \in DOMAIN l :
           l[key].type = "number" => l[key].halves % 2 = 0 \/ Held(l[key].halves)
Exactly == \A i \in DOMAIN seen : Exact(seen[i])

Passes(l) ==
  Readable(l) /\ \A f \in Asked :
    CASE f.op = "=" -> Text(l, f.key) = {f.value}
      [] f.op = "!=" -> Text(l, f.key) # {} /\ Text(l, f.key) # {f.value}
      [] f.op = "~" -> \E text \in Text(l, f.key) : HasPart(text, f.value)
      [] f.op = ">" -> Greater(Integer(l, f.key), ParseInt(f.value))
Handled == IF pc \in {"object", "capture", "fields", "emit"} THEN Front(seen) ELSE seen
Chosen(lines, set) ==
  LET kept[n \in 0..Len(lines)] ==
        IF n = 0 THEN <<>>
        ELSE IF lines[n] \in set THEN Append(kept[n - 1], lines[n]) ELSE kept[n - 1]
  IN kept[Len(lines)]
Selects == {l \in InputLines : Passes(l)}
Due == Chosen(Handled, Selects)
Prints == ~HasAgg /\ opt.format # "count"
Rendered(l) == IF opt.regex THEN FlattenSeq(Pieces(TextsOf(l))) ELSE l

LogTypeOK ==
  /\ opt \in OptionSets /\ Cardinality(filter) <= 1
  /\ pc \in {"options", "read", "object", "capture", "fields", "emit", "end", "done"}
  /\ rc \in {0, 1, 2}
  /\ pc \notin {"fields", "emit"} => values = Freed
  /\ pc \in {"fields", "emit"} => values = line /\ Readable(line)
  /\ pc # "emit" => buf = EmptyBuffer
  /\ Len(seen) <= MaxLines /\ Cardinality(summary) <= 1

(* Standard output holds exactly the lines the expression selects, each    *)
(* whole, once and in order, in both modes; a run that fails for want of   *)
(* memory has left out at most the line it failed at.                      *)
OutputIsOfSelectedLines ==
  Plainly /\ Exactly /\ rc # 1 =>
    LET due == IF Prints THEN Due ELSE <<>>
    IN /\ out = [i \in DOMAIN out |-> Rendered(due[i])]
       /\ Len(due) - Len(out) \in 0..(IF rc = 2 THEN 1 ELSE 0)

(* The count or the aggregate printed at the end of a run with status 0 is *)
(* that of the selected lines, and of the numbers as they were written:    *)
(* of a regex line, fractions too, and 0 for a text that is no number; of  *)
(* a JSON line, no fraction, and no integer too large to be told from its  *)
(* neighbours.  The sum is exact as long as a double holds it.  A run that *)
(* fails prints none.                                                      *)
Addends(l) ==
  IF opt.regex THEN {NumberIn(text) : text \in Text(l, opt.aggField)}
  ELSE {2 * n : n \in Integer(l, opt.aggField)}
NumberOf(l) == CHOOSE n \in Addends(l) : TRUE
Adds == {l \in Selects : Addends(l) # {}}
Numbers ==
  LET with == Chosen(Handled, Adds)
  IN [i \in DOMAIN with |-> NumberOf(with[i])]
Sums(numbers) ==
  LET sums[n \in 0..Len(numbers)] == IF n = 0 THEN 0 ELSE sums[n - 1] + numbers[n]
  IN sums
SummaryIsOfSelectedLines ==
  Plainly /\ Exactly /\ pc = "done" =>
    IF rc # 0 \/ Prints THEN summary = {}
    ELSE \A s \in summary :
      IF ~HasAgg THEN s.count = Len(Due)
      ELSE /\ s.agg.count = Len(Numbers)
           /\ s.agg.count > 0 =>
                /\ \A n \in ToSet(Numbers) : s.agg.min <= n /\ n <= s.agg.max
                /\ {s.agg.min, s.agg.max} \subseteq ToSet(Numbers)
           /\ (\A i \in DOMAIN Numbers : Held(Sums(Numbers)[i]))
                => s.agg.sum = Sums(Numbers)[Len(Numbers)]

(* Two records with different fields never give the same output line.      *)
OutputUnambiguous ==
  pc = "emit" =>
    \A l \in Captures : Readable(l) /\ l # line => Rendered(l) # Rendered(line)

(* The output line under construction is what was appended, ends in a NUL  *)
(* within its storage, and the storage never outgrows SizeMax.             *)
BufferHoldsPieces ==
  /\ buf.len = Size(buf.text) /\ buf.cap <= SizeMax
  /\ IF buf.cap = 0 THEN buf.len = 0 ELSE buf.len < buf.cap
  /\ pc = "emit" => buf.text = FlattenSeq(SubSeq(Pieces(FieldTexts), 1, at - 1))
=============================================================================
