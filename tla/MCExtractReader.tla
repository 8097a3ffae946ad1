--------------------------- MODULE MCExtractReader ---------------------------
(***************************************************************************)
(* Small instance of ExtractReader.  Rule "open" hides nothing, "private"  *)
(* hides some frames of every session and all of those in Secret.          *)
(***************************************************************************)
EXTENDS ExtractReader

CONSTANT Secret

RuleEffect ==
    [r \in Rule |-> [s \in Session |->
        IF r = "open" THEN "none"
        ELSE IF s \in Secret THEN "all" ELSE "some"]]
=============================================================================
