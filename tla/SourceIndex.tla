----------------------------- MODULE SourceIndex -----------------------------
(***************************************************************************)
(* `aicx index` over the session catalog (src/src/source_index.rs): the    *)
(* digest short-circuit, the per-session reuse gate, parsing, the publish  *)
(* of CURRENT and the parse ledger written after it, while agents append   *)
(* to their transcripts, the operator edits .aicxignore, checkouts move,   *)
(* and the build may be killed between any two writes.                     *)
(*                                                                         *)
(* `aicx index` and the MCP auto-refresh hold lance.lock (see AicxLocks),  *)
(* so there is one build at a time; the dashboard's build, which does not, *)
(* is DashboardIndex's subject.  A dry run changes nothing and is left     *)
(* out.  A source's bytes are a version number, which its live fingerprint *)
(* (size, mtime, physical identity) tells apart.                           *)
(***************************************************************************)
EXTENDS Naturals, FiniteSets

CONSTANTS
    Session,        \* agent sessions
    Rule,           \* contents .aicxignore may have
    Effect,         \* what a rule hides of a session's frames
    Layout,         \* repository layouts of this host (nested checkouts...)
    Cwd,            \* working directories a catalog row may carry
    Growing,        \* sessions whose agent is still writing
    Fragile,        \* sessions whose file may be moved away and back
    MaxVersion,     \* bound on the versions of a source
    None            \* no row, no file, no document, nothing

Version == 1..MaxVersion

ASSUME MaxVersionType == MaxVersion \in Nat \ {0}
ASSUME EffectType == Effect \in [Rule -> [Session -> {"none", "some", "all"}]]

VARIABLES
    \* the world the build reads
    source,     \* version of each session's file
    readable,   \* sessions whose file resolves under the approved roots
    catalog,    \* sessions.json: each row's admitted version and cwd
    rule,       \* .aicxignore
    layout,     \* the repositories on disk
    \* what it has written
    extract,    \* extracts/<agent>/<session>_conversation.md
    ledger,     \* the parse state
    current,    \* the published generation: digest and documents
    \* the build that holds lance.lock
    pc, full, entries, brule, digest, prior, probe, todo, rows, docs, parsed

world == <<source, readable, catalog, rule, layout>>
build == <<full, entries, brule, digest, prior, probe, todo, rows, docs, parsed>>
vars  == <<world, extract, ledger, current, pc, build>>

-----------------------------------------------------------------------------
\* An extract's bytes: the frames of one version that survive .aicxignore.
Text(s, v, r) == [version |-> v, hidden |-> Effect[r][s]]
TextSet == [version : Version, hidden : {"none", "some"}]

\* A fingerprint stamped from the live file carries its physical identity,
\* one copied from the catalog does not.
Fingerprint == [version : Version, proved : BOOLEAN]
LiveFingerprint(s)    == [version |-> source[s], proved |-> TRUE]
CatalogFingerprint(s) == [version |-> entries[s].version, proved |-> FALSE]
LiveOrCatalog(s) ==
    IF s \in readable THEN LiveFingerprint(s) ELSE CatalogFingerprint(s)

\* SessionParseRecord: `layout` is the stamped scope_environment, `verdict`
\* the layout the scope flags were computed under.
RowSet == [fp : Fingerprint, text : TextSet \union {None}, cwd : Cwd,
           layout : Layout, verdict : Layout, withheld : BOOLEAN,
           coverage : {"complete", "unknown", "uncacheable"}]
DocSet == [text : TextSet, cwd : Cwd, verdict : Layout]
CatalogRow == [version : Version, cwd : Cwd]
DigestSet == [rule : Rule, catalog : [Session -> CatalogRow \union {None}],
              live : [Session -> Fingerprint \union {None}]]

\* One session parsed, not yet recorded.
ParsedSet == [session : Session, version : Version, verdict : Layout,
              coverage : {"complete", "uncacheable"}]

ASSUME NoneIsNothing ==
    /\ None \notin Rule \union Layout
    /\ None \notin TextSet \union Fingerprint \union RowSet \union DocSet
    /\ None \notin CatalogRow \union DigestSet \union ParsedSet

NoRows == [s \in Session |-> None]
NoDocs == [s \in Session |-> None]
NoEntries == [s \in Session |-> None]
Listed(cat) == {s \in Session : cat[s] # None}

\* An idle build remembers nothing.
Rest == /\ pc' = "idle" /\ full' = FALSE /\ entries' = NoEntries
        /\ brule' = None /\ digest' = None /\ prior' = NoRows
        /\ probe' = None /\ todo' = {} /\ rows' = NoRows /\ docs' = NoDocs
        /\ parsed' = None

Init ==
    /\ source = [s \in Session |-> 1]
    /\ readable = Session
    /\ \E listed \in SUBSET Session, c \in Cwd :
           catalog = [s \in Session |-> IF s \in listed
                                        THEN [version |-> 1, cwd |-> c]
                                        ELSE None]
    /\ rule \in Rule
    /\ layout \in Layout
    /\ extract = [s \in Session |-> None]
    /\ \E r \in Rule : ledger = [rule |-> r, rows |-> NoRows]
    /\ current = [digest |-> None, docs |-> NoDocs]
    /\ pc = "idle" /\ full = FALSE /\ entries = NoEntries
    /\ brule = None /\ digest = None /\ prior = NoRows
    /\ probe = None /\ todo = {} /\ rows = NoRows /\ docs = NoDocs
    /\ parsed = None

-----------------------------------------------------------------------------
\* The world moves.

Append(s) ==
    /\ s \in Growing
    /\ source[s] < MaxVersion
    /\ source' = [source EXCEPT ![s] = @ + 1]
    /\ UNCHANGED <<readable, catalog, rule, layout>>

\* A source is moved away, or comes back.
ToggleReadable(s) ==
    /\ s \in Fragile
    /\ readable' = IF s \in readable THEN readable \ {s} ELSE readable \union {s}
    /\ UNCHANGED <<source, catalog, rule, layout>>

\* A census (catalog rebuild or refresh_hot) admits the live file.
Census(s, c) ==
    /\ s \in readable
    /\ catalog' = [catalog EXCEPT ![s] = [version |-> source[s], cwd |-> c]]
    /\ UNCHANGED <<source, readable, rule, layout>>

EditRules(r) ==
    /\ rule' = r
    /\ UNCHANGED <<source, readable, catalog, layout>>

MoveCheckout(l) ==
    /\ layout' = l
    /\ UNCHANGED <<source, readable, catalog, rule>>

World ==
    /\ \/ \E s \in Session : Append(s) \/ ToggleReadable(s)
       \/ \E s \in Session, c \in Cwd : Census(s, c)
       \/ \E r \in Rule : EditRules(r)
       \/ \E l \in Layout : MoveCheckout(l)
    /\ UNCHANGED <<extract, ledger, current, pc, build>>

-----------------------------------------------------------------------------
\* build_with_reporter

\* Read the catalog rows (an empty catalog is refused) and .aicxignore.
Begin(f) ==
    /\ pc = "idle"
    /\ Listed(catalog) # {}
    /\ pc' = "digest" /\ full' = f /\ entries' = catalog /\ brule' = rule
    /\ UNCHANGED <<world, extract, ledger, current,
                   digest, prior, probe, todo, rows, docs, parsed>>

\* source_fingerprint: rules, the catalog bytes as they are by now, and a
\* fingerprint per row read in Begin.
Digest == [rule |-> brule, catalog |-> catalog,
           live |-> [s \in Session |-> IF entries[s] = None THEN None
                                       ELSE LiveOrCatalog(s)]]

\* Mutant: .aicxignore is not part of the ledger's identity.
LoadParseStateAnyRules(f, r) == IF f THEN NoRows ELSE ledger.rows

\* Mutant: --full-rescan still trusts the ledger.
LoadParseStateNoRescan(f, r) == IF ledger.rule # r THEN NoRows ELSE ledger.rows

\* load_parse_state: a ledger of other rules is no ledger.
LoadParseState(f, r) ==
    IF f \/ ledger.rule # r THEN NoRows ELSE ledger.rows

\* The layout as this build sees it: the first probe is remembered.
Probed == IF probe = None THEN layout ELSE probe

\* ScopeLayoutProbe::ledger_is_current, on the first probe of the build.
LedgerIsCurrent(p) ==
    /\ p # NoRows
    /\ \A s \in Session : p[s] # None => p[s].layout = layout

\* maintenance_record_settled
Settled(row) == IF row.fp.proved THEN row.coverage = "complete"
                                 ELSE row.coverage = "unknown"

\* The generation matches and the ledger vouches for it.
ShortCircuit(d, p) ==
    /\ ~full
    /\ current.digest = d
    /\ LedgerIsCurrent(p)
    /\ \A s \in Session : p[s] # None => Settled(p[s])

ReportUnchanged ==
    /\ pc = "digest"
    /\ ShortCircuit(Digest, LoadParseState(full, brule))
    /\ Rest
    /\ UNCHANGED <<world, extract, ledger, current>>

\* Mutant: sessions the catalog does not list are parsed too.
StartParseEverySession ==
    /\ pc = "digest"
    /\ ~ShortCircuit(Digest, LoadParseState(full, brule))
    /\ pc' = "parse" /\ digest' = Digest
    /\ prior' = LoadParseState(full, brule)
    /\ todo' = Session
    /\ UNCHANGED <<world, extract, ledger, current,
                   full, entries, brule, probe, rows, docs, parsed>>

StartParse ==
    LET p == LoadParseState(full, brule) IN
    /\ pc = "digest"
    /\ ~ShortCircuit(Digest, p)
    /\ pc' = "parse"
    /\ digest' = Digest
    /\ prior' = p
    /\ probe' = IF ~full /\ current.digest = Digest /\ p # NoRows
                THEN layout ELSE None
    /\ todo' = Listed(entries)
    /\ UNCHANGED <<world, extract, ledger, current,
                   full, entries, brule, rows, docs, parsed>>

\* maintenance_record_reusable and the catalog part of reusable_record: the
\* gates in front of the layout probe.
Consulted(s) == /\ prior[s] # None
                /\ prior[s].coverage # "uncacheable"
                /\ prior[s].cwd = entries[s].cwd

\* The live fingerprint gate of reusable_record; an unresolvable path falls
\* back to the catalog's.
SameSource(s) ==
    prior[s].fp.version = IF s \in readable THEN source[s] ELSE entries[s].version

\* cached_chunk: the extract still has the recorded checksum.
Reusable(s) == /\ Consulted(s)
               /\ prior[s].layout = Probed
               /\ SameSource(s)
               /\ prior[s].withheld \/ extract[s] = prior[s].text

ProbeFor(s) == IF Consulted(s) THEN Probed ELSE probe

\* Carry the row and its document over; a row without physical identity
\* keeps its coverage unknown.
Reuse(s) ==
    /\ pc = "parse" /\ s \in todo /\ Reusable(s)
    /\ rows' = [rows EXCEPT ![s] =
                  IF prior[s].fp.proved THEN prior[s]
                  ELSE [prior[s] EXCEPT !.coverage = "unknown"]]
    /\ docs' = IF prior[s].withheld THEN docs
               ELSE [docs EXCEPT ![s] = [text |-> extract[s],
                                         cwd |-> entries[s].cwd,
                                         verdict |-> prior[s].verdict]]
    /\ todo' = todo \ {s}
    /\ probe' = ProbeFor(s)
    /\ UNCHANGED <<world, extract, ledger, current, pc,
                   full, entries, brule, digest, prior, parsed>>

\* The path does not resolve, the parser refuses it, or it has no signal.
Skip(s) ==
    /\ pc = "parse" /\ s \in todo /\ ~Reusable(s)
    /\ todo' = todo \ {s}
    /\ probe' = ProbeFor(s)
    /\ UNCHANGED <<world, extract, ledger, current, pc,
                   full, entries, brule, digest, prior, rows, docs, parsed>>

\* Parse the live file and write its extract, unless the rules hide every
\* frame.  A file caught mid-write parses as uncacheable.
ParseSource(s) ==
    /\ pc = "parse" /\ s \in todo /\ ~Reusable(s) /\ s \in readable
    /\ \E c \in {"complete", "uncacheable"} :
           parsed' = [session |-> s, version |-> source[s],
                      verdict |-> layout, coverage |-> c]
    /\ extract' = IF Effect[brule][s] = "all" THEN extract
                  ELSE [extract EXCEPT ![s] = Text(s, source[s], brule)]
    /\ pc' = "stamp"
    /\ probe' = ProbeFor(s)
    /\ UNCHANGED <<world, ledger, current,
                   full, entries, brule, digest, prior, todo, rows, docs>>

\* The ledger row is stamped with the fingerprint the file has AFTER it was
\* parsed, and with the layout the build remembers.
Stamp ==
    LET s == parsed.session
        withheld == Effect[brule][s] = "all"
        text == Text(s, parsed.version, brule)
    IN
    /\ pc = "stamp"
    /\ rows' = [rows EXCEPT ![s] =
                  [fp |-> LiveOrCatalog(s),
                   text |-> IF withheld THEN None ELSE text,
                   cwd |-> entries[s].cwd,
                   layout |-> Probed, verdict |-> parsed.verdict,
                   withheld |-> withheld, coverage |-> parsed.coverage]]
    /\ docs' = IF withheld THEN docs
               ELSE [docs EXCEPT ![s] = [text |-> text,
                                         cwd |-> entries[s].cwd,
                                         verdict |-> parsed.verdict]]
    /\ probe' = Probed
    /\ todo' = todo \ {s}
    /\ pc' = "parse"
    /\ parsed' = None
    /\ UNCHANGED <<world, extract, ledger, current,
                   full, entries, brule, digest, prior>>

\* Mutant: a publish that failed is taken for one that succeeded.
PublishErrorIgnored ==
    /\ pc = "parse" /\ todo = {} /\ docs # NoDocs
    /\ current' \in {current, [digest |-> digest, docs |-> docs]}
    /\ pc' = "ledger"
    /\ UNCHANGED <<world, extract, ledger, build>>

\* Flip CURRENT to the new generation (HybridGenerations has the details).
Publish ==
    /\ pc = "parse" /\ todo = {} /\ docs # NoDocs
    /\ current' = [digest |-> digest, docs |-> docs]
    /\ pc' = "ledger"
    /\ UNCHANGED <<world, extract, ledger, build>>

\* Zero documents: the build is refused and CURRENT stays.
NothingToPublish ==
    /\ pc = "parse" /\ todo = {} /\ docs = NoDocs
    /\ Rest
    /\ UNCHANGED <<world, extract, ledger, current>>

\* write_parse_state, only after a successful publish.
WriteParseState ==
    /\ pc = "ledger"
    /\ ledger' = [rule |-> brule, rows |-> rows]
    /\ Rest
    /\ UNCHANGED <<world, extract, current>>

\* The build is killed, or a write of it fails.
Abort ==
    /\ pc # "idle"
    /\ Rest
    /\ UNCHANGED <<world, extract, ledger, current>>

Builder ==
    \/ \E f \in BOOLEAN : Begin(f)
    \/ ReportUnchanged \/ StartParse
    \/ \E s \in Session : Reuse(s) \/ Skip(s) \/ ParseSource(s)
    \/ Stamp \/ Publish \/ NothingToPublish \/ WriteParseState \/ Abort

Next == World \/ Builder

Spec == Init /\ [][Next]_vars

-----------------------------------------------------------------------------
TypeOK ==
    /\ source \in [Session -> Version]
    /\ readable \subseteq Session
    /\ catalog \in [Session -> CatalogRow \union {None}]
    /\ rule \in Rule /\ layout \in Layout
    /\ extract \in [Session -> TextSet \union {None}]
    /\ ledger \in [rule : Rule, rows : [Session -> RowSet \union {None}]]
    /\ current \in [digest : DigestSet \union {None},
                    docs : [Session -> DocSet \union {None}]]
    /\ pc \in {"idle", "digest", "parse", "stamp", "ledger"}
    /\ full \in BOOLEAN
    /\ entries \in [Session -> CatalogRow \union {None}]
    /\ brule \in Rule \union {None}
    /\ digest \in DigestSet \union {None}
    /\ prior \in [Session -> RowSet \union {None}]
    /\ probe \in Layout \union {None}
    /\ todo \subseteq Listed(entries)
    /\ rows \in [Session -> RowSet \union {None}]
    /\ docs \in [Session -> DocSet \union {None}]
    /\ parsed \in ParsedSet \union {None}

\* t is what rule r leaves of s, and r leaves something.
AllowedText(t, s, r) == Effect[r][s] # "all" /\ t.hidden = Effect[r][s]

\* "Privacy rules are part of corpus identity" (source_fingerprint): every
\* document of CURRENT was cut by the very rules its digest names, however
\* extracts were reused, rules edited and edited back, and builds killed.
CurrentRespectsRules ==
    \A s \in Session : current.docs[s] # None =>
        AllowedText(current.docs[s].text, s, current.digest.rule)

\* "Persist parse state only after a successful publish so a killed build
\* cannot claim sessions are current when CURRENT never flipped": the ledger
\* never vouches for newer frames than the document CURRENT has.
LedgerNotAheadOfCurrent ==
    \A s \in Session :
        /\ ledger.rows[s] # None /\ ~ledger.rows[s].withheld
        /\ current.docs[s] # None
        => ledger.rows[s].text.version <= current.docs[s].text.version

\* "a matching live+catalog digest means CURRENT already reflects this
\* snapshot" (build_with_reporter): no document is older than the
\* fingerprint its generation's digest was taken from.
CurrentReflectsDigest ==
    \A s \in Session :
        /\ current.docs[s] # None
        /\ current.digest.live[s] # None /\ current.digest.live[s].proved
        => current.docs[s].text.version >= current.digest.live[s].version

\* The documents CURRENT has are those a parse of this moment would give.
Fresh ==
    \A s \in Listed(catalog) : current.docs[s] # None =>
        current.docs[s] = [text |-> Text(s, source[s], rule),
                           cwd |-> catalog[s].cwd, verdict |-> layout]

\* A build of --full-rescan got through: CURRENT flipped, ledger written.
RescanDone == WriteParseState /\ full

\* `--full-rescan` is the way out of anything the incremental gates got
\* wrong: once the world is quiet, if rescans keep getting through, CURRENT
\* becomes right and stays right, incremental builds and kills included.
RescanRepairs ==
    /\ <>[][UNCHANGED world]_vars
    /\ []<><<RescanDone>>_vars
    => <>[]Fresh
=============================================================================
