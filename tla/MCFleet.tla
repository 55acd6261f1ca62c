------------------------------ MODULE MCFleet ------------------------------
(* One node, with each of the three runners.                                *)
EXTENDS Fleet
=============================================================================
