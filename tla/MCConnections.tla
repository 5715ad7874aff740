---------------------------- MODULE MCConnections ----------------------------
(***************************************************************************)
(* Instances of Connections for TLC: two targets in two fan-outs, which    *)
(* may be the same host with and without host-key verification.            *)
(***************************************************************************)
EXTENDS Connections

CONSTANTS checked, unchecked

OneHost == [k \in Keys |-> IF k = checked THEN "strict" ELSE "loose"]

=============================================================================
