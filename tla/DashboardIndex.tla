--------------------------- MODULE DashboardIndex ---------------------------
(***************************************************************************)
(* The generation store with a second publisher: POST /api/index of the    *)
(* dashboard (src/src/dashboard_server/operator.rs) runs the same semantic *)
(* build as `aicx index --semantic`, one at a time per server, but without *)
(* lance.lock, beside a CLI or MCP publish that holds it.                  *)
(*                                                                         *)
(* The listing of a prune is one step with the flip before it, and each    *)
(* rename of CURRENT is one step: the two publishers interfere less here   *)
(* than they do in the code, where they also share CURRENT.tmp.            *)
(***************************************************************************)
EXTENDS HybridGenerations

VARIABLE dashboard      \* the publish of the dashboard's index operation

Dashboard == INSTANCE HybridGenerations WITH writer <- dashboard

DashboardInit == Init /\ dashboard = None

\* spawn_index_operation: the rebuilding flag admits one operation, and the
\* guard in the blocking task frees it however the build ends.
PostIndex ==
    \E g \in Gen, c \in Corpus, v \in Schema :
        Dashboard!BeginPublish(g, c, TRUE, v)

\* The rest of its publish, step by step as any other.
IndexOperation ==
    \/ Dashboard!BuildLexical \/ Dashboard!BuildDense \/ Dashboard!WriteManifest
    \/ Dashboard!RefuseDowngrade \/ Dashboard!Flip
    \/ \E g \in Gen : Dashboard!RemoveDir(g)
    \/ \E g \in Gen, f \in {"lex", "dense", "manifest"} : Dashboard!RemoveFile(g, f)
    \/ Dashboard!EndPublish \/ Dashboard!Abort

DashboardNext == \/ Next /\ UNCHANGED dashboard
                 \/ (PostIndex \/ IndexOperation) /\ UNCHANGED writer

DashboardSpec == DashboardInit /\ [][DashboardNext]_<<vars, dashboard>>
=============================================================================
