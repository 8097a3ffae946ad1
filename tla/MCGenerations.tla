---------------------------- MODULE MCGenerations ----------------------------
(***************************************************************************)
(* A small instance of HybridGenerations: two source fingerprints and two  *)
(* contents of different sizes.                                            *)
(***************************************************************************)
EXTENDS HybridGenerations

CONSTANTS h1, h2, d1, d2

Faithful == {[hash |-> h1, docs |-> d1], [hash |-> h2, docs |-> d2]}

Grows == [d \in Docs |-> IF d = d1 THEN 1 ELSE 2]
=============================================================================
