----------------------------- MODULE MCExtraction -----------------------------
(***************************************************************************)
(* Extraction for the time an agent joins `aicx all`: the composition      *)
(* {1, 2} of the older release and {1, 2, 3} of this one, with one         *)
(* transcript per agent.  Agent 2 is scanned without a watermark.          *)
(***************************************************************************)
EXTENDS Extraction, TLC

CONSTANTS s1, s2, s3, p1, p2, hello, echo

Agents == {1, 2, 3}
Old == {1, 2}
Keys == {Old, Agents}
Aliases == [k \in Keys |-> IF k = Agents THEN {Old} ELSE {}]
Invocation(key, mode, cutoff) == [key |-> key, mode |-> mode, cutoff |-> cutoff,
                                  emits |-> TRUE, userOnly |-> FALSE]
Commands == {Invocation(Agents, "incremental", 0),
             [Invocation(Agents, "full_rescan", 2) EXCEPT !.userOnly = TRUE],
             [Invocation(Old, "force", 0) EXCEPT !.emits = FALSE]}
Symmetry == Permutations(Proc)
Speeches == {<<s1, "user", hello>>, <<s2, "user", echo>>, <<s3, "assistant", hello>>}
Writer == [s \in {s1, s2, s3} |-> IF s = s1 THEN 1 ELSE IF s = s2 THEN 2 ELSE 3]
=============================================================================
