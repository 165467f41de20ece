----------------------------- MODULE MCDashboard -----------------------------
(* Models of Dashboard for TLC. *)
EXTENDS Dashboard

CONSTANT a

MCOne == {a}
=============================================================================
