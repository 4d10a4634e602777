----------------------------- MODULE MCAbcPlan -----------------------------
(* TLC instance of AbcPlan: two predicted costs are enough for ties and    *)
(* for fourteen different rankings of the four actions.                    *)
EXTENDS AbcPlan

MCCost == {0, 1}
=============================================================================
