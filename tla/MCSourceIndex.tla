---------------------------- MODULE MCSourceIndex ----------------------------
(***************************************************************************)
(* Small instances of SourceIndex.  Rule "open" hides nothing, "private"   *)
(* hides some frames of every session and all of those in Secret.          *)
(***************************************************************************)
EXTENDS SourceIndex, TLC

CONSTANT Secret

RuleEffect ==
    [r \in Rule |-> [s \in Session |->
        IF r = "open" THEN "none"
        ELSE IF s \in Secret THEN "all" ELSE "some"]]
=============================================================================
