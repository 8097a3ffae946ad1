----------------------------- MODULE MCCatalog -----------------------------
(***************************************************************************)
(* Small instances of SessionCatalog: every session in one checkout.       *)
(***************************************************************************)
EXTENDS SessionCatalog

CONSTANTS c1, o1

Cloned == [c \in Checkout |-> o1]
OneRepo == [s \in Session |-> c1]
=============================================================================
