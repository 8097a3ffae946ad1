---------------------------- MODULE PublishedView ----------------------------
(***************************************************************************)
(* What `aicx index` promises of the search view: "CURRENT generation is a *)
(* derived, atomically published search view" (docs/ARCHITECTURE.md).      *)
(* A publish replaces the whole view in one step by a complete one whose   *)
(* lexical schema is not older; nothing else ever touches it.              *)
(***************************************************************************)
EXTENDS Naturals

CONSTANTS Complete,     \* the contents a complete generation may have
          SchemaOf(_),  \* the lexical schema of a complete content
          Nothing       \* nothing was published yet

VARIABLE view

Init == view = Nothing

Publish ==
    /\ view' \in Complete
    /\ view # Nothing => SchemaOf(view) <= SchemaOf(view')

Spec == Init /\ [][Publish]_view
=============================================================================
