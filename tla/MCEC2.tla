-------------------------------- MODULE MCEC2 --------------------------------
(***************************************************************************)
(* The instance of EC2 for TLC: a bake that patches the template although  *)
(* its `wait` is off, a cleanup, a refresh and a rollback, all at once.    *)
(***************************************************************************)
EXTENDS EC2

=============================================================================
