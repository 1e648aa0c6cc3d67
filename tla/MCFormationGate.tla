-------------------------- MODULE MCFormationGate --------------------------
(* FormationGate on small instances, whose constants the configurations give *)
(* as numbers and model values.                                              *)
EXTENDS FormationGate
=============================================================================
