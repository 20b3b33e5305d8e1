------------------------------- MODULE Shapes -------------------------------
(***************************************************************************)
(* The shape of a record, or of any function, as the invariants the proofs *)
(* rest on state it: which fields it has, and nothing about their values.  *)
(* A record of many fields keeps its shape under any EXCEPT, which a prover *)
(* sees at once.                                                           *)
(***************************************************************************)
Shaped(r, fields) == r = [f \in fields |-> r[f]]
=============================================================================
