------------------------------ MODULE MCOverlay ------------------------------
(***************************************************************************)
(* A small instance of OverlayFeed: two transcripts of one repository, a   *)
(* second repository whose build has no rows, two processes.               *)
(***************************************************************************)
EXTENDS OverlayFeed, TLC

CONSTANTS ours, theirs, p1, p2, s1, s2, l1, l2

Ours == [s \in Source |-> ours]

Symmetry == Permutations(Proc) \union Permutations(Source)
            \union Permutations(Layout)
=============================================================================
