------------------------------ MODULE MCDeploy ------------------------------
(***************************************************************************)
(* Instances of Deploy for TLC: two hosts, two deploys, one rollback and   *)
(* one unlock at the most.                                                 *)
(***************************************************************************)
EXTENDS Deploy

CONSTANTS h1, h2, h3, d1, d2

OneHost == <<h1>>

TwoHosts == <<h1, h2>>

ThreeHosts == <<h1, h2, h3>>

\* d2 was started with --host h2.
Filtered == [o \in Operators |-> IF o = d2 THEN {h2} ELSE Hosts]

AllHosts == [o \in Operators |-> Hosts]

=============================================================================
