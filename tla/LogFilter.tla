----------------------------- MODULE LogFilter ------------------------------
(***************************************************************************)
(* Filter expressions of log_parse (log_filter_expr.c).  A text is a       *)
(* sequence of tokens: the characters that make an operator, and words.    *)
(***************************************************************************)
EXTENDS JsonlCodec

CONSTANTS MaxInt (* bound: integers that are read from text *)

Operators == {"!=", ">", "~", "="}

Positions(expr, op) ==
  IF op = "!="
  THEN {i \in 1..(Len(expr) - 1) : expr[i] = "!" /\ expr[i + 1] = "="}
  ELSE {i \in 1..Len(expr) : expr[i] = op}

Split(expr, op) ==
  LET i == CHOOSE j \in Positions(expr, op) : \A k \in Positions(expr, op) : j <= k
  IN [op |-> op, key |-> SubSeq(expr, 1, i - 1),
      value |-> SubSeq(expr, i + (IF op = "!=" THEN 2 ELSE 1), Len(expr))]

(* Mutant of Order: the equals sign is looked for first. *)
OrderEqualsFirst == <<"=", "!=", ">", "~">>

(* The operators in the order they are looked for. *)
Order == <<"!=", ">", "~", "=">>

(* log_filter_parse *)
FilterParse(expr) ==
  LET present == {i \in 1..Len(Order) : Positions(expr, Order[i]) # {}}
      filter == Split(expr, Order[CHOOSE i \in present : \A j \in present : i <= j])
  IN IF present = {} THEN {}
     ELSE {f \in {filter} : f.key # <<>> /\ f.value # <<>>}

(* strtoll of a whole text *)
ParseInt(text) == {n \in -MaxInt..MaxInt : text = <<ToString(n)>>}

HasPart(text, part) ==
  \E i \in 0..(Len(text) - Len(part)) : SubSeq(text, i + 1, i + Len(part)) = part

(* Both operands, each a set with at most one number. *)
Greater(lhs, rhs) == \E m \in lhs, n \in rhs : m > n

MatchText(text, filter) ==
  CASE filter.op = "=" -> text = filter.value
    [] filter.op = "!=" -> text # filter.value
    [] filter.op = "~" -> HasPart(text, filter.value)

(* log_filter_match_fields: names and values are parallel arrays. *)
MatchFields(names, values, filter) ==
  LET at == {i \in DOMAIN names : names[i] = filter.key}
      text == values[CHOOSE i \in at : \A j \in at : i <= j]
  IN /\ at # {}
     /\ IF filter.op = ">" THEN Greater(ParseInt(text), ParseInt(filter.value))
        ELSE MatchText(text, filter)

(* log_filter_match_jsonl, for a line that is an object: a line without    *)
(* the field, or with an array or object there, is not matched either.     *)
MatchObject(object, filter) ==
  LET item == IF filter.key \in DOMAIN object THEN object[filter.key] ELSE Missing
  IN IF filter.op = ">" THEN Greater(GetInt64(item), ParseInt(filter.value))
     ELSE \E text \in GetScalarText(item) : MatchText(text, filter)
=============================================================================
