------------------------------ MODULE MCWriter ------------------------------
(* Writer for TLC: two events of known type. *)
EXTENDS Writer

MCEvents == {[id |-> "a", type |-> "log"], [id |-> "b", type |-> "log"]}
============================================================================
