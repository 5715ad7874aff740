------------------------------ MODULE MCFanout ------------------------------
(***************************************************************************)
(* Instances of Fanout for TLC: three hosts, one of them required, and     *)
(* fewer slots than hosts.                                                 *)
(***************************************************************************)
EXTENDS Fanout

CONSTANTS h1, h2, h3

ThreeHosts == <<h1, h2, h3>>

TwoHosts == <<h1, h2>>

=============================================================================
