----------------------------- MODULE MCLogParse -----------------------------
(* LogParse for TLC: two fields, every option next to every filter.        *)
EXTENDS LogParse

K == <<"k">>
N == <<"n">>

(* A filter on k, or on n for >, and expressions that are refused or that  *)
(* have an operator character in their value.                              *)
MCExprs ==
  {NoExpr, <<"k", "=", "a">>, <<"k", "!", "=", "a">>, <<"k", "~", "quote">>, <<"n", ">", "6">>,
   <<"k", "=", "=", "a">>, <<"k">>, <<"=", "a">>}

MCOptions ==
  [regex : {TRUE}, compiles : BOOLEAN, fields : {<<K, N>>, <<K, K>>, <<>>}, format : {"", "csv", "count"},
   agg : {"none"}, aggField : {N}, expr : MCExprs]
  \cup
  [regex : BOOLEAN, compiles : {TRUE}, fields : {<<K, N>>, <<>>}, format : {""},
   agg : AggOps, aggField : {N, <<"x">>}, expr : MCExprs]
  \cup
  [regex : {FALSE}, compiles : {TRUE}, fields : {<<>>}, format : {"", "json", "count", "xml"},
   agg : {"none"}, aggField : {N}, expr : MCExprs]

MCCaptures ==
  {NoMatch, <<{<<"a">>}, {}>>, <<{<<"a">>}, {<<"7">>}>>, <<{<<"b">>}, {<<"-2">>}>>,
   <<{<<"a", "comma", "7">>}, {<<"7">>}>>, <<{<<"a">>}, {<<"7", "comma", "7">>}>>,
   <<{<<"quote", "a">>}, {<<"6">>}>>, <<{<<"a", "backslash">>}, {<<"long">>}>>,
   <<{<<"a">>}, {<<"2.5">>}>>, <<{<<"b">>}, {<<"-0.5", "comma">>}>>, <<{<<"a">>}, {<<"17">>}>>}

(* The largest safe integer, its neighbours, a fraction. *)
MCNumbers == {Number(14), Number(-6), Number(5), Number(-17), Number(2 * MAX_SAFE_INTEGER),
              Number(2 * (MAX_SAFE_INTEGER + 2))}
Obj(k, n) == [key \in {K, N} |-> IF key = K THEN k ELSE n]
MCObjects ==
  {Obj(String(<<"a">>), n) : n \in MCNumbers}
    \cup {Obj(k, Number(14)) : k \in {Missing, Nested, TooLong, Literal(<<"true">>), String(<<"quote", "b">>)}}
    \cup {Obj(String(<<"b">>), String(<<"7">>))}
=============================================================================
