----------------------------- MODULE MCDiffEmit -----------------------------
(* DiffEmit for TLC: states of four fields that change one at a time.      *)
EXTENDS DiffEmit, Sequences

Value(n) == [kind |-> "array", of |-> <<n>>]

FieldsChanged(n) == [f \in 1..4 |-> Value(IF f <= n THEN 1 ELSE 0)]

FieldByField == {FieldsChanged(n) : n \in 0..4}
=============================================================================
