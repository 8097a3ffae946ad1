---------------------------- MODULE ExtractReader ----------------------------
(***************************************************************************)
(* An intent query reading one session's extract beside a running build:   *)
(* validated_cached_extracts_at hands out a receipt, read_verified_body    *)
(* checks the source, the privacy rules and the layout against it before   *)
(* and after it reads the body (src/src/source_index.rs).  The reader takes *)
(* no lock; the build, the agents and the operator go on meanwhile.        *)
(***************************************************************************)
EXTENDS SourceIndex

VARIABLE reader     \* the receipt, with the body once it was read

\* Everything a validated extract is checked against while it is read.
Unmoved(v) == /\ v.session \in readable
              /\ source[v.session] = v.version
              /\ rule = v.rule
              /\ layout = v.layout

Reading(step) == reader # None /\ reader.step = step

\* Remember the rules in force; the ledger is loaded for those.
OpenReader ==
    /\ reader = None
    /\ reader' = [step |-> "open", session |-> None, version |-> None,
                  rule |-> rule, layout |-> None, text |-> None, body |-> None]

\* The ledger row of s passes every live gate: the receipt is handed out.
Validate(s) ==
    LET p == LoadParseState(FALSE, reader.rule) IN
    /\ Reading("open")
    /\ catalog[s] # None /\ s \in readable
    /\ p[s] # None
    /\ ~p[s].withheld /\ p[s].coverage # "uncacheable"
    /\ p[s].fp.version = source[s]
    /\ p[s].cwd = catalog[s].cwd
    /\ p[s].layout = layout
    /\ extract[s] = p[s].text
    /\ reader' = [reader EXCEPT !.step = "before", !.session = s,
                                !.version = source[s], !.layout = layout,
                                !.text = p[s].text]

CheckBefore ==
    /\ Reading("before")
    /\ reader' = IF Unmoved(reader) THEN [reader EXCEPT !.step = "read"]
                                    ELSE None

\* Mutant: the checksum is not compared.
ReadBodyUnchecked ==
    /\ Reading("read")
    /\ reader' = [reader EXCEPT !.step = "after",
                                !.body = extract[reader.session]]

\* The body must have the recorded checksum.
ReadBody ==
    /\ Reading("read")
    /\ reader' = IF extract[reader.session] = reader.text
                 THEN [reader EXCEPT !.step = "after",
                                     !.body = extract[reader.session]]
                 ELSE None

CheckAfter ==
    /\ Reading("after")
    /\ reader' = IF Unmoved(reader) THEN [reader EXCEPT !.step = "served"]
                                    ELSE None

\* No row validated, or the caller is done with the body.
Done == /\ Reading("open") \/ Reading("served")
        /\ reader' = None

Reader == \/ OpenReader
          \/ \E s \in Session : Validate(s)
          \/ CheckBefore \/ ReadBody \/ CheckAfter \/ Done

ReaderInit == Init /\ reader = None
ReaderNext == \/ Next /\ UNCHANGED reader
              \/ Reader /\ UNCHANGED vars
ReaderSpec == ReaderInit /\ [][ReaderNext]_<<vars, reader>>

-----------------------------------------------------------------------------
ReaderSet == [step : {"open", "before", "read", "after", "served"},
              session : Session \union {None}, version : Version \union {None},
              rule : Rule, layout : Layout \union {None},
              text : TextSet \union {None}, body : TextSet \union {None}]

ReaderTypeOK == reader \in ReaderSet \union {None}

\* A body handed to an intent reader was cut by the rules in force when its
\* receipt was issued and still in force after the read ("validated intent
\* privacy policy changed ... extract read").
ServedRespectsRules ==
    Reading("served") =>
        AllowedText(reader.body, reader.session, reader.rule)
=============================================================================
