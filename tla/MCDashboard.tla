----------------------------- MODULE MCDashboard -----------------------------
(***************************************************************************)
(* The dashboard's publish beside another one, on the corpora of           *)
(* MCGenerations.                                                          *)
(***************************************************************************)
EXTENDS MCGenerations, DashboardIndex
=============================================================================
