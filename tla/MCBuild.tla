------------------------------ MODULE MCBuild -------------------------------
(* Instances of Build for TLC: one guard and one remark stand for any. *)
EXTENDS Build

CONSTANTS g1, f1
=============================================================================
