----------------------------- MODULE MCRowIndex -----------------------------
(* RowIndex for TLC: values that pack into one, two and three bytes. *)
EXTENDS RowIndex, TLC
Symmetry == Permutations(Keys)
MCDeflate == [v \in {"a", "b", "c"} |->
                CASE v = "a" -> <<120>> [] v = "b" -> <<0, 255>> [] v = "c" -> <<120, 0, 7>>]
=============================================================================
