-------------------------- MODULE SourceIndexProofs --------------------------
(***************************************************************************)
(* Proofs about SourceIndex and ExtractReader, for any sessions, rules,    *)
(* layouts and number of versions.                                         *)
(***************************************************************************)
EXTENDS ExtractReader, TLAPS

(***************************************************************************)
(* The inductive invariant.  What CURRENT or a reader serves comes out of  *)
(* extracts that earlier builds wrote under other rules, so the rules have *)
(* to be followed through every place a text is remembered: the ledger,    *)
(* the rows a build carries over, its own rows and its documents.          *)
(***************************************************************************)

\* A row that vouches for a text vouches for one that rule r left.
RowAllowed(row, s, r) ==
    row # None /\ ~row.withheld =>
        row.text # None /\ AllowedText(row.text, s, r)

\* The ledger vouches for texts cut by the rules it is stamped with.
LedgerAllowed == \A s \in Session : RowAllowed(ledger.rows[s], s, ledger.rule)

\* Everything a build holds was cut by the rules it started with, and those
\* are the ones its digest names.
BuildAllowed ==
    /\ \A s \in Session :
           /\ RowAllowed(rows[s], s, brule)
           /\ RowAllowed(prior[s], s, brule)
           /\ docs[s] # None => AllowedText(docs[s].text, s, brule)
    /\ pc # "idle" => brule \in Rule
    /\ pc \in {"parse", "stamp", "ledger"} => /\ digest # None
                                              /\ digest.rule = brule
    /\ pc = "stamp" => parsed # None /\ parsed.session \in todo

\* Only a digested build was ever published.
CurrentHasDigest ==
    \A s \in Session : current.docs[s] # None => current.digest # None

\* An idle build has nothing in hand (Rest).
IdleHoldsNothing ==
    pc \in {"idle", "digest"} =>
        rows = NoRows /\ docs = NoDocs /\ prior = NoRows /\ todo = {}

RulesInv == /\ TypeOK
            /\ LedgerAllowed
            /\ BuildAllowed
            /\ IdleHoldsNothing
            /\ CurrentHasDigest
            /\ CurrentRespectsRules

(***************************************************************************)
(* For LedgerNotAheadOfCurrent the versions have to be followed as well.   *)
(***************************************************************************)
Vouches(row) == row # None /\ ~row.withheld

\* Row vouches for frames that v has too.
NotAhead(row, v) == Vouches(row) => row.text.version <= v

\* Versions only grow, so what is parsed now is not older than what the
\* ledger vouches for; what is reused is exactly that.
BuildNotBehindLedger ==
    \A s \in Session :
        /\ NotAhead(ledger.rows[s], source[s])
        /\ NotAhead(rows[s], source[s])
        /\ prior[s] # None => prior[s] = ledger.rows[s]
        /\ docs[s] # None => NotAhead(ledger.rows[s], docs[s].text.version)
        /\ Vouches(rows[s]) => docs[s] # None /\ docs[s].text = rows[s].text
        /\ pc = "stamp" /\ parsed.session = s =>
               /\ parsed.version <= source[s]
               /\ NotAhead(ledger.rows[s], parsed.version)

PublishedBeforeLedger == pc = "ledger" => current.docs = docs

VersionsInv == /\ BuildNotBehindLedger
               /\ PublishedBeforeLedger
               /\ LedgerNotAheadOfCurrent

(***************************************************************************)
(* For RescanRepairs: what a row or a document has to be in the world of   *)
(* this moment, and what a build in hand still has of this moment.  Each   *)
(* holds for ever once the world is quiet: first ThisMoment, when a build  *)
(* begins, then Repaired, when a full rescan got through.                  *)
(***************************************************************************)
\* The row vouches for what a parse of this moment would leave.
RowRight(row, s) ==
    Vouches(row) => row.text = Text(s, source[s], rule) /\ row.verdict = layout

DocRight(doc, s) ==
    doc # None => doc = [text |-> Text(s, source[s], rule),
                         cwd |-> catalog[s].cwd, verdict |-> layout]

\* The rows rs and documents ds are right of every cataloged session.
AllRight(rs, ds) ==
    \A s \in Listed(catalog) : RowRight(rs[s], s) /\ DocRight(ds[s], s)

\* The build read catalog and rules as they are, and what it has just parsed
\* is as it was; a full rescan trusts nothing but what it has parsed.
ThisMoment ==
    /\ pc # "idle" => /\ entries = catalog /\ brule = rule
                      /\ full => prior = NoRows /\ AllRight(rows, docs)
    /\ pc = "stamp" => /\ parsed.version = source[parsed.session]
                       /\ parsed.verdict = layout

\* CURRENT is right, and so is all an incremental build may carry over.
Repaired ==
    /\ ledger.rule = rule
    /\ AllRight(ledger.rows, current.docs)
    /\ pc # "idle" => AllRight(prior, NoDocs) /\ AllRight(rows, docs)

(***************************************************************************)
(* A reader's receipt names rules its text was cut by, and its body is     *)
(* that text.                                                              *)
(***************************************************************************)
ReceiptAllowed ==
    reader # None /\ reader.step # "open" =>
        /\ reader.session \in Session
        /\ reader.text # None
        /\ AllowedText(reader.text, reader.session, reader.rule)
        /\ reader.step \in {"after", "served"} => reader.body = reader.text

-----------------------------------------------------------------------------
\* What rule r leaves of a session is a text, and one r allows.
LEMMA TextLeft ==
  ASSUME NEW s \in Session, NEW v \in Version, NEW r \in Rule,
         Effect[r][s] # "all"
  PROVE  Text(s, v, r) \in TextSet /\ AllowedText(Text(s, v, r), s, r)
<1>1. Effect[r][s] \in {"none", "some"}
  BY EffectType
<1> QED
  BY <1>1 DEF Text, TextSet, AllowedText

\* The fingerprint a build stamps, of a session the catalog lists.
LEMMA Stamped ==
  ASSUME TypeOK, NEW s \in Session, entries[s] # None
  PROVE  LiveOrCatalog(s) \in Fingerprint
<1>1. source[s] \in Version /\ entries[s].version \in Version
  BY DEF TypeOK, CatalogRow
<1> QED
  BY <1>1 DEF LiveOrCatalog, LiveFingerprint, CatalogFingerprint, Fingerprint

\* The digest of a build that has read its rules.
LEMMA DigestType == ASSUME TypeOK, brule \in Rule PROVE Digest \in DigestSet
<1>1. \A s \in Session : entries[s] # None => LiveOrCatalog(s) \in Fingerprint
  BY Stamped
<1>2. [s \in Session |-> IF entries[s] = None THEN None ELSE LiveOrCatalog(s)]
         \in [Session -> Fingerprint \union {None}]
  BY <1>1
<1> QED
  BY <1>2 DEF Digest, DigestSet, TypeOK

\* The rows a build starts from.
LEMMA PriorType ==
  ASSUME TypeOK, NEW f \in BOOLEAN, NEW r \in Rule
  PROVE  /\ LoadParseState(f, r) \in [Session -> RowSet \union {None}]
         /\ LoadParseState(f, r) = NoRows
            \/ (LoadParseState(f, r) = ledger.rows /\ ledger.rule = r)
  BY DEF TypeOK, LoadParseState, NoRows

\* World steps keep everything well typed.
LEMMA TypeWorld == ASSUME TypeOK, World PROVE TypeOK'
<1> USE DEF TypeOK, build
<1>1. ASSUME NEW s \in Session, Append(s) PROVE source' \in [Session -> Version]
  BY <1>1, MaxVersionType DEF Append, Version
<1>2. ASSUME NEW s \in Session, NEW c \in Cwd, Census(s, c)
      PROVE  catalog' \in [Session -> CatalogRow \union {None}]
  BY <1>2 DEF Census, CatalogRow
<1>3. Listed(entries)' = Listed(entries)
  BY DEF World, Listed
<1>4. /\ source' \in [Session -> Version]
      /\ readable' \subseteq Session
      /\ catalog' \in [Session -> CatalogRow \union {None}]
      /\ rule' \in Rule /\ layout' \in Layout
  BY <1>1, <1>2 DEF World, Append, ToggleReadable, Census, EditRules,
     MoveCheckout
<1> QED
  BY <1>3, <1>4 DEF World

\* A build that ends leaves a well-typed idle state behind.
LEMMA TypeRest ==
  ASSUME TypeOK, Rest, UNCHANGED <<world, extract, current>>,
         ledger' \in [rule : Rule, rows : [Session -> RowSet \union {None}]]
  PROVE  TypeOK'
  BY DEF TypeOK, Rest, world, NoEntries, NoRows, NoDocs, Listed

\* Builder steps keep everything well typed, since every text a row vouches
\* for exists.
LEMMA TypeBuilder == ASSUME RulesInv, Builder PROVE TypeOK'
<1> USE DEF RulesInv
<1>p. /\ pc # "idle" => brule \in Rule
      /\ pc \in {"parse", "stamp", "ledger"} => digest # None
      /\ pc = "stamp" => parsed # None /\ parsed.session \in todo
  BY DEF BuildAllowed
<1>l. \A s \in todo : s \in Session /\ entries[s] # None
  BY DEF TypeOK, Listed
<1>1. ASSUME NEW f \in BOOLEAN, Begin(f) PROVE TypeOK'
  <2>1. todo' \subseteq Listed(entries)'
    BY <1>1 DEF Begin, IdleHoldsNothing, TypeOK
  <2> QED
    BY <1>1, <2>1 DEF Begin, TypeOK, world
<1>2. CASE ReportUnchanged \/ NothingToPublish \/ Abort
  BY <1>2, TypeRest DEF ReportUnchanged, NothingToPublish, Abort, TypeOK
<1>3. CASE StartParse
  <2>1. /\ digest' = Digest /\ prior' = LoadParseState(full, brule)
        /\ brule \in Rule /\ full \in BOOLEAN
    BY <1>3, <1>p DEF StartParse, TypeOK
  <2>2. /\ digest' \in DigestSet
        /\ prior' \in [Session -> RowSet \union {None}]
    BY <2>1, DigestType, PriorType
  <2>3. probe' \in Layout \union {None} /\ todo' \subseteq Listed(entries)'
    BY <1>3 DEF StartParse, TypeOK, Listed
  <2> QED
    BY <1>3, <2>2, <2>3 DEF StartParse, TypeOK, world
<1>4. ASSUME NEW s \in Session, Reuse(s) PROVE TypeOK'
  <2>1. /\ prior[s] # None /\ prior[s] \in RowSet
        /\ entries[s] \in CatalogRow /\ s \in todo /\ Reusable(s)
    BY <1>4, <1>l DEF Reuse, Reusable, Consulted, TypeOK
  <2>2. ~prior[s].withheld => extract[s] \in TextSet
    BY <2>1 DEF Reusable, BuildAllowed, RowAllowed, RowSet, TypeOK
  <2>3. rows' \in [Session -> RowSet \union {None}]
    BY <1>4, <2>1 DEF Reuse, RowSet, TypeOK
  <2>4. docs' \in [Session -> DocSet \union {None}]
    BY <1>4, <2>1, <2>2 DEF Reuse, RowSet, CatalogRow, DocSet, TypeOK
  <2>5. probe' \in Layout \union {None} /\ todo' \subseteq Listed(entries)'
    BY <1>4 DEF Reuse, ProbeFor, Probed, TypeOK, Listed
  <2> QED
    BY <1>4, <2>3, <2>4, <2>5 DEF Reuse, TypeOK, world
<1>5. ASSUME NEW s \in Session, Skip(s) PROVE TypeOK'
  <2>1. probe' \in Layout \union {None} /\ todo' \subseteq Listed(entries)'
    BY <1>5 DEF Skip, ProbeFor, Probed, TypeOK, Listed
  <2> QED
    BY <1>5, <2>1 DEF Skip, TypeOK, world
<1>6. ASSUME NEW s \in Session, ParseSource(s) PROVE TypeOK'
  <2>1. parsed' \in ParsedSet
    BY <1>6 DEF ParseSource, ParsedSet, TypeOK
  <2>2. extract' \in [Session -> TextSet \union {None}]
    BY <1>6, <1>p, TextLeft DEF ParseSource, TypeOK
  <2>3. probe' \in Layout \union {None} /\ todo' \subseteq Listed(entries)'
    BY <1>6 DEF ParseSource, ProbeFor, Probed, TypeOK, Listed
  <2> QED
    BY <1>6, <2>1, <2>2, <2>3 DEF ParseSource, TypeOK, world
<1>7. CASE Stamp
  <2> DEFINE s == parsed.session
             withheld == Effect[brule][s] = "all"
             text == Text(s, parsed.version, brule)
  <2>1. /\ parsed \in ParsedSet /\ s \in Session /\ entries[s] \in CatalogRow
        /\ brule \in Rule /\ parsed.version \in Version
    BY <1>7, <1>p, <1>l DEF Stamp, TypeOK, ParsedSet
  <2>2. LiveOrCatalog(s) \in Fingerprint
    BY <2>1, <1>7, <1>p, <1>l, Stamped DEF Stamp
  <2>3. ~withheld => text \in TextSet
    BY <2>1, TextLeft
  <2>4. Probed \in Layout
    BY DEF Probed, TypeOK
  <2>5. [fp |-> LiveOrCatalog(s), text |-> IF withheld THEN None ELSE text,
         cwd |-> entries[s].cwd, layout |-> Probed,
         verdict |-> parsed.verdict, withheld |-> withheld,
         coverage |-> parsed.coverage] \in RowSet
    BY <2>1, <2>2, <2>3, <2>4 DEF RowSet, CatalogRow, ParsedSet
  <2>6. ~withheld => [text |-> text, cwd |-> entries[s].cwd,
                      verdict |-> parsed.verdict] \in DocSet
    BY <2>1, <2>3 DEF DocSet, CatalogRow, ParsedSet
  <2>7. /\ rows' \in [Session -> RowSet \union {None}]
        /\ docs' \in [Session -> DocSet \union {None}]
    BY <1>7, <2>1, <2>5, <2>6 DEF Stamp, TypeOK
  <2>8. todo' \subseteq Listed(entries)'
    BY <1>7 DEF Stamp, TypeOK, Listed
  <2> QED
    BY <1>7, <2>4, <2>7, <2>8 DEF Stamp, TypeOK, world
<1>8. CASE Publish
  BY <1>8, <1>p DEF Publish, TypeOK, world, build, Listed
<1>9. CASE WriteParseState
  <2>1. ledger' \in [rule : Rule, rows : [Session -> RowSet \union {None}]]
    BY <1>9, <1>p DEF WriteParseState, TypeOK
  <2> QED
    BY <1>9, <2>1, TypeRest DEF WriteParseState
<1> QED
  BY <1>1, <1>2, <1>3, <1>4, <1>5, <1>6, <1>7, <1>8, <1>9 DEF Builder

-----------------------------------------------------------------------------
\* Ending a build, published or not, keeps the rules: nothing is in hand.
LEMMA RulesRest ==
  ASSUME RulesInv, Rest, UNCHANGED <<extract, current>>, LedgerAllowed'
  PROVE  (BuildAllowed /\ IdleHoldsNothing /\ CurrentHasDigest
            /\ CurrentRespectsRules)'
<1>1. BuildAllowed' /\ IdleHoldsNothing'
  BY DEF Rest, BuildAllowed, IdleHoldsNothing, RowAllowed, NoRows, NoDocs
<1>2. (CurrentHasDigest /\ CurrentRespectsRules)'
  BY DEF RulesInv, CurrentHasDigest, CurrentRespectsRules
<1> QED
  BY <1>1, <1>2

\* No step brings a text cut by one rule under the name of another.
LEMMA RulesStep ==
  ASSUME RulesInv, [Next]_vars
  PROVE  (LedgerAllowed /\ BuildAllowed /\ IdleHoldsNothing
            /\ CurrentHasDigest /\ CurrentRespectsRules)'
<1> DEFINE P == LedgerAllowed /\ BuildAllowed /\ IdleHoldsNothing
                  /\ CurrentHasDigest /\ CurrentRespectsRules
<1>t. P /\ TypeOK
  BY DEF RulesInv
<1>c. UNCHANGED <<ledger, current>> =>
          (LedgerAllowed /\ CurrentHasDigest /\ CurrentRespectsRules)'
  BY <1>t DEF LedgerAllowed, CurrentHasDigest, CurrentRespectsRules
<1>l. \A s \in todo : s \in Session /\ entries[s] # None
  BY <1>t DEF TypeOK, Listed
<1>1. CASE World \/ UNCHANGED vars
  <2>1. UNCHANGED <<ledger, current, pc, build>>
    BY <1>1 DEF World, vars
  <2>2. BuildAllowed' /\ IdleHoldsNothing'
    BY <1>t, <2>1 DEF build, BuildAllowed, IdleHoldsNothing
  <2> QED
    BY <1>c, <2>1, <2>2
<1>2. ASSUME NEW f \in BOOLEAN, Begin(f) PROVE P'
  <2>1. BuildAllowed' /\ IdleHoldsNothing'
    BY <1>2, <1>t DEF Begin, BuildAllowed, IdleHoldsNothing, RowAllowed,
       NoRows, NoDocs, TypeOK
  <2> QED
    BY <1>2, <1>c, <2>1 DEF Begin
<1>3. CASE ReportUnchanged \/ NothingToPublish \/ Abort
  BY <1>3, <1>c, RulesRest DEF ReportUnchanged, NothingToPublish, Abort
<1>4. CASE StartParse
  <2>1. /\ pc' = "parse" /\ brule' = brule /\ rows' = rows /\ docs' = docs
        /\ digest' = Digest /\ prior' = LoadParseState(full, brule)
        /\ full \in BOOLEAN /\ brule \in Rule
    BY <1>4, <1>t DEF StartParse, BuildAllowed, TypeOK
  <2>2. \A s \in Session : RowAllowed(prior'[s], s, brule)
    BY <2>1, <1>t, PriorType DEF LedgerAllowed, RowAllowed, NoRows
  <2>3. digest' # None /\ digest'.rule = brule
    BY <2>1, <1>t, DigestType, NoneIsNothing DEF Digest
  <2>4. BuildAllowed' /\ IdleHoldsNothing'
    BY <1>t, <2>1, <2>2, <2>3 DEF BuildAllowed, IdleHoldsNothing
  <2> QED
    BY <1>4, <1>c, <2>4 DEF StartParse
<1>5. ASSUME NEW s \in Session, Reuse(s) PROVE P'
  <2>1. /\ pc = "parse" /\ prior[s] # None /\ prior[s] \in RowSet
        /\ prior[s].withheld \/ extract[s] = prior[s].text
        /\ RowAllowed(prior[s], s, brule)
    BY <1>5, <1>t DEF Reuse, Reusable, Consulted, BuildAllowed, TypeOK
  <2>2. RowAllowed(rows'[s], s, brule)
    BY <1>5, <1>t, <2>1 DEF Reuse, RowAllowed, RowSet, TypeOK
  <2>3. docs'[s] # None => AllowedText(docs'[s].text, s, brule)
    <3>1. CASE prior[s].withheld
      BY <1>5, <1>t, <3>1 DEF Reuse, BuildAllowed
    <3>2. CASE ~prior[s].withheld
      BY <1>5, <1>t, <2>1, <3>2 DEF Reuse, RowAllowed, TypeOK
    <3> QED
      BY <3>1, <3>2
  <2>4. /\ \A u \in Session : u # s => rows'[u] = rows[u] /\ docs'[u] = docs[u]
        /\ pc' = pc /\ UNCHANGED <<brule, prior, digest, parsed>>
    BY <1>5, <1>t DEF Reuse, TypeOK
  <2>5. BuildAllowed' /\ IdleHoldsNothing'
    BY <1>t, <2>1, <2>2, <2>3, <2>4 DEF BuildAllowed, IdleHoldsNothing
  <2> QED
    BY <1>5, <1>c, <2>5 DEF Reuse
<1>6. ASSUME NEW s \in Session, Skip(s) PROVE P'
  <2>1. BuildAllowed' /\ IdleHoldsNothing'
    BY <1>6, <1>t DEF Skip, BuildAllowed, IdleHoldsNothing
  <2> QED
    BY <1>6, <1>c, <2>1 DEF Skip
<1>7. ASSUME NEW s \in Session, ParseSource(s) PROVE P'
  <2>1. /\ pc = "parse" /\ pc' = "stamp" /\ s \in todo /\ todo' = todo
        /\ UNCHANGED <<brule, prior, digest, rows, docs>>
    BY <1>7 DEF ParseSource
  <2>2. parsed' # None /\ parsed'.session = s
    <3>1. PICK c \in {"complete", "uncacheable"} :
              parsed' = [session |-> s, version |-> source[s],
                         verdict |-> layout, coverage |-> c]
      BY <1>7 DEF ParseSource
    <3>2. parsed' \in ParsedSet
      BY <3>1, <1>t DEF ParsedSet, TypeOK
    <3> QED
      BY <3>1, <3>2, NoneIsNothing
  <2>3. BuildAllowed' /\ IdleHoldsNothing'
    BY <1>t, <2>1, <2>2 DEF BuildAllowed, IdleHoldsNothing
  <2> QED
    BY <1>7, <1>c, <2>3 DEF ParseSource
<1>8. CASE Stamp
  <2> DEFINE s == parsed.session
             withheld == Effect[brule][s] = "all"
             text == Text(s, parsed.version, brule)
  <2>1. /\ parsed \in ParsedSet /\ s \in Session
        /\ brule \in Rule /\ parsed.version \in Version
        /\ pc = "stamp" /\ pc' = "parse"
        /\ UNCHANGED <<brule, prior, digest>>
    BY <1>8, <1>t, <1>l DEF Stamp, BuildAllowed, TypeOK, ParsedSet
  <2>2. ~withheld => text # None /\ AllowedText(text, s, brule)
    BY <2>1, TextLeft, NoneIsNothing
  <2>3. /\ rows'[s].text = IF withheld THEN None ELSE text
        /\ rows'[s].withheld = withheld
        /\ docs'[s] = IF withheld THEN docs[s]
                      ELSE [text |-> text, cwd |-> entries[s].cwd,
                            verdict |-> parsed.verdict]
        /\ \A u \in Session : u # s => rows'[u] = rows[u] /\ docs'[u] = docs[u]
    BY <1>8, <1>t, <2>1 DEF Stamp, TypeOK
  <2> HIDE DEF s, withheld, text
  <2>4. /\ RowAllowed(rows'[s], s, brule)
        /\ docs'[s] # None => AllowedText(docs'[s].text, s, brule)
    BY <1>t, <2>1, <2>2, <2>3 DEF RowAllowed, BuildAllowed
  <2>5. BuildAllowed' /\ IdleHoldsNothing'
    BY <1>t, <2>1, <2>3, <2>4 DEF BuildAllowed, IdleHoldsNothing
  <2> QED
    BY <1>8, <1>c, <2>5 DEF Stamp
<1>9. CASE Publish
  <2>1. /\ pc = "parse" /\ pc' = "ledger" /\ ledger' = ledger
        /\ current' = [digest |-> digest, docs |-> docs]
        /\ UNCHANGED <<brule, prior, digest, rows, docs, todo>>
    BY <1>9 DEF Publish, build
  <2>2. BuildAllowed' /\ IdleHoldsNothing' /\ LedgerAllowed'
    BY <1>t, <2>1 DEF BuildAllowed, IdleHoldsNothing, LedgerAllowed
  <2>3. CurrentHasDigest' /\ CurrentRespectsRules'
    BY <1>t, <2>1 DEF BuildAllowed, CurrentHasDigest, CurrentRespectsRules
  <2> QED
    BY <2>2, <2>3
<1>10. CASE WriteParseState
  <2>1. LedgerAllowed'
    BY <1>10, <1>t DEF WriteParseState, BuildAllowed, LedgerAllowed
  <2> QED
    BY <1>10, <2>1, RulesRest DEF WriteParseState
<1> QED
  BY <1>1, <1>2, <1>3, <1>4, <1>5, <1>6, <1>7, <1>8, <1>9, <1>10
     DEF Next, Builder

\* The first build starts from nothing.
LEMMA RulesInit == Init => RulesInv
<1> SUFFICES ASSUME Init PROVE RulesInv
  OBVIOUS
<1>1. 1 \in Version
  BY MaxVersionType DEF Version
<1>2. TypeOK
  <2>1. catalog \in [Session -> CatalogRow \union {None}]
    <3>1. PICK listed \in SUBSET Session, c \in Cwd :
              catalog = [s \in Session |-> IF s \in listed
                                           THEN [version |-> 1, cwd |-> c]
                                           ELSE None]
      BY DEF Init
    <3> QED
      BY <1>1, <3>1 DEF CatalogRow
  <2>2. ledger \in [rule : Rule, rows : [Session -> RowSet \union {None}]]
    BY DEF Init, NoRows
  <2> QED
    BY <1>1, <2>1, <2>2 DEF Init, TypeOK, NoRows, NoDocs, NoEntries, Listed
<1>3. /\ LedgerAllowed /\ BuildAllowed /\ IdleHoldsNothing
      /\ CurrentHasDigest /\ CurrentRespectsRules
  BY DEF Init, LedgerAllowed, BuildAllowed, IdleHoldsNothing,
     CurrentHasDigest, CurrentRespectsRules, RowAllowed, NoRows, NoDocs
<1> QED
  BY <1>2, <1>3 DEF RulesInv

\* Every step keeps the invariant.
LEMMA RulesInductive == RulesInv /\ [Next]_vars => RulesInv'
<1> SUFFICES ASSUME RulesInv, [Next]_vars PROVE RulesInv'
  OBVIOUS
<1>1. TypeOK'
  <2>1. CASE UNCHANGED vars
    BY <2>1 DEF RulesInv, TypeOK, vars, world, build, Listed
  <2> QED
    BY <2>1, TypeWorld, TypeBuilder DEF Next, RulesInv
<1> QED
  BY <1>1, RulesStep DEF RulesInv

\* Every state of a build beside its world is well typed
\* (build_with_reporter).
THEOREM SourceIndexTypeOK == Spec => []TypeOK
<1>1. RulesInv => TypeOK
  BY DEF RulesInv
<1> QED
  BY RulesInit, RulesInductive, <1>1, PTL DEF Spec

\* CURRENT never holds a text that the rules its digest names would hide:
\* the parse ledger is bound to its rules (load_parse_state), and an extract
\* another rule left is caught by its checksum (cached_chunk).
THEOREM PublishedTextRespectsRules == Spec => []CurrentRespectsRules
<1>1. RulesInv => CurrentRespectsRules
  BY DEF RulesInv
<1> QED
  BY RulesInit, RulesInductive, <1>1, PTL DEF Spec

-----------------------------------------------------------------------------
\* The world only adds versions.
LEMMA VersionsWorld ==
  ASSUME RulesInv, VersionsInv, World PROVE VersionsInv'
<1>1. \A s \in Session : source'[s] \in Version /\ source[s] \in Version
                         /\ source[s] <= source'[s]
  BY MaxVersionType DEF World, Append, ToggleReadable, Census, EditRules,
     MoveCheckout, RulesInv, TypeOK, Version
<1>2. UNCHANGED <<extract, ledger, current, pc, rows, prior, docs, parsed>>
  BY DEF World, build
<1>3. ASSUME NEW s \in Session,
             NEW row \in RowSet \union {None}, NotAhead(row, source[s]),
             Vouches(row) => row.text # None
      PROVE  NotAhead(row, source'[s])
  BY <1>1, <1>3, MaxVersionType DEF NotAhead, Vouches, RowSet, TextSet, Version
<1>5. \A s \in Session :
          /\ ledger.rows[s] \in RowSet \union {None}
          /\ rows[s] \in RowSet \union {None}
          /\ Vouches(ledger.rows[s]) => ledger.rows[s].text # None
          /\ Vouches(rows[s]) => rows[s].text # None
  BY DEF RulesInv, TypeOK, LedgerAllowed, BuildAllowed, RowAllowed, Vouches
<1>6. pc = "stamp" => parsed.version \in Version
  BY DEF RulesInv, BuildAllowed, TypeOK, ParsedSet
<1>7. BuildNotBehindLedger'
  <2> SUFFICES ASSUME NEW s \in Session
               PROVE  (/\ NotAhead(ledger.rows[s], source[s])
                       /\ NotAhead(rows[s], source[s])
                       /\ prior[s] # None => prior[s] = ledger.rows[s]
                       /\ docs[s] # None =>
                            NotAhead(ledger.rows[s], docs[s].text.version)
                       /\ Vouches(rows[s]) =>
                            docs[s] # None /\ docs[s].text = rows[s].text
                       /\ pc = "stamp" /\ parsed.session = s =>
                            /\ parsed.version <= source[s]
                            /\ NotAhead(ledger.rows[s], parsed.version))'
    BY DEF BuildNotBehindLedger
  <2>1. NotAhead(ledger'.rows[s], source'[s]) /\ NotAhead(rows'[s], source'[s])
    BY <1>2, <1>3, <1>5 DEF VersionsInv, BuildNotBehindLedger
  <2>2. pc = "stamp" /\ parsed.session = s => parsed.version <= source'[s]
    BY <1>1, <1>6, MaxVersionType DEF VersionsInv, BuildNotBehindLedger, Version
  <2> QED
    BY <1>2, <2>1, <2>2
       DEF VersionsInv, BuildNotBehindLedger, NotAhead, Vouches
<1> QED
  BY <1>2, <1>7 DEF VersionsInv, PublishedBeforeLedger, LedgerNotAheadOfCurrent

\* Ending a build without publishing leaves ledger and CURRENT as they were.
LEMMA VersionsRest ==
  ASSUME RulesInv, VersionsInv, Rest, UNCHANGED <<source, ledger, current>>
  PROVE  VersionsInv'
<1>1. BuildNotBehindLedger'
  BY DEF VersionsInv, BuildNotBehindLedger, Rest, NoRows, NoDocs, NotAhead,
     Vouches
<1> QED
  BY <1>1 DEF VersionsInv, PublishedBeforeLedger, LedgerNotAheadOfCurrent, Rest

\* A build step on session s changes what is in hand for s only.
LEMMA OneSession ==
  ASSUME VersionsInv, NEW s \in Session,
         UNCHANGED <<source, ledger, current, prior>>,
         pc = "parse" \/ pc = "stamp", pc' # "ledger",
         pc' = "stamp" => parsed'.session = s,
         \A u \in Session : u # s => rows'[u] = rows[u] /\ docs'[u] = docs[u],
         NotAhead(rows'[s], source[s]),
         docs'[s] # None => NotAhead(ledger.rows[s], docs'[s].text.version),
         Vouches(rows'[s]) => docs'[s] # None /\ docs'[s].text = rows'[s].text,
         pc' = "stamp" => /\ parsed'.version <= source[s]
                          /\ NotAhead(ledger.rows[s], parsed'.version)
  PROVE  VersionsInv'
<1>1. BuildNotBehindLedger'
  BY DEF VersionsInv, BuildNotBehindLedger, NotAhead, Vouches
<1> QED
  BY <1>1 DEF VersionsInv, PublishedBeforeLedger, LedgerNotAheadOfCurrent

\* A build parses no older frames than the ledger vouches for, and writes the
\* ledger after CURRENT.
LEMMA VersionsBuilder ==
  ASSUME RulesInv, VersionsInv, Builder PROVE VersionsInv'
<1>t. /\ TypeOK /\ BuildNotBehindLedger /\ PublishedBeforeLedger
      /\ LedgerNotAheadOfCurrent /\ BuildAllowed /\ LedgerAllowed
  BY DEF RulesInv, VersionsInv
<1>v. \A row \in RowSet \union {None} : Vouches(row) /\ row.text # None =>
          row.text.version \in Nat
  BY MaxVersionType DEF RowSet, TextSet, Version, Vouches
<1>1. ASSUME NEW f \in BOOLEAN, Begin(f) PROVE VersionsInv'
  <2>1. BuildNotBehindLedger'
    BY <1>1, <1>t DEF Begin, BuildNotBehindLedger, world, NotAhead, Vouches
  <2> QED
    BY <1>1, <1>t, <2>1 DEF Begin, VersionsInv, PublishedBeforeLedger,
       LedgerNotAheadOfCurrent
<1>2. CASE ReportUnchanged \/ NothingToPublish \/ Abort
  BY <1>2, VersionsRest DEF ReportUnchanged, NothingToPublish, Abort, world
<1>3. CASE StartParse
  <2>1. /\ prior' = LoadParseState(full, brule) /\ pc' = "parse"
        /\ UNCHANGED <<source, ledger, current, rows, docs>>
        /\ full \in BOOLEAN /\ brule \in Rule
    BY <1>3, <1>t DEF StartParse, world, BuildAllowed, TypeOK
  <2>2. \A s \in Session : prior'[s] # None => prior'[s] = ledger.rows[s]
    BY <2>1, <1>t, PriorType DEF NoRows
  <2>3. BuildNotBehindLedger'
    BY <1>t, <2>1, <2>2 DEF BuildNotBehindLedger, NotAhead, Vouches
  <2> QED
    BY <1>t, <2>1, <2>3 DEF VersionsInv, PublishedBeforeLedger,
       LedgerNotAheadOfCurrent
<1>4. ASSUME NEW s \in Session, Reuse(s) PROVE VersionsInv'
  <2>1. /\ pc = "parse" /\ pc' = "parse"
        /\ UNCHANGED <<source, ledger, current, prior>>
        /\ \A u \in Session : u # s => rows'[u] = rows[u] /\ docs'[u] = docs[u]
        /\ prior[s] # None /\ prior[s] \in RowSet
        /\ prior[s] = ledger.rows[s]
        /\ prior[s].withheld \/ extract[s] = prior[s].text
    BY <1>4, <1>t DEF Reuse, world, Reusable, Consulted, TypeOK,
       BuildNotBehindLedger
  <2>2. /\ rows'[s] # None => rows'[s].withheld = prior[s].withheld
        /\ rows'[s] # None => rows'[s].text = prior[s].text
        /\ prior[s].withheld => docs'[s] = docs[s]
        /\ ~prior[s].withheld => docs'[s].text = extract[s]
    BY <1>4, <1>t, <2>1 DEF Reuse, TypeOK, RowSet
  <2>3. ~prior[s].withheld => docs'[s] # None
    <3>1. ASSUME ~prior[s].withheld
          PROVE  docs'[s] = [text |-> extract[s], cwd |-> entries[s].cwd,
                             verdict |-> prior[s].verdict]
      BY <1>4, <1>t, <3>1 DEF Reuse, TypeOK
    <3>2. ASSUME ~prior[s].withheld PROVE docs'[s] \in DocSet
      <4>1. /\ extract[s] \in TextSet /\ prior[s].verdict \in Layout
            /\ entries[s] \in CatalogRow
        BY <1>4, <1>t, <2>1, <3>2 DEF BuildAllowed, RowAllowed, TypeOK,
           RowSet, Reuse, Listed
      <4> QED
        BY <3>1, <3>2, <4>1 DEF DocSet, CatalogRow
    <3> QED
      BY <3>2, NoneIsNothing
  <2>4. NotAhead(rows'[s], source[s])
    BY <1>t, <2>1, <2>2 DEF BuildNotBehindLedger, NotAhead, Vouches
  <2>5. docs'[s] # None => NotAhead(ledger.rows[s], docs'[s].text.version)
    <3>1. CASE prior[s].withheld
      BY <2>1, <3>1 DEF NotAhead, Vouches
    <3>2. CASE ~prior[s].withheld
      <4>1. prior[s].text # None
        BY <1>t, <2>1, <3>2 DEF BuildAllowed, RowAllowed
      <4> QED
        BY <1>v, <2>1, <2>2, <3>2, <4>1 DEF NotAhead, Vouches
    <3> QED
      BY <3>1, <3>2
  <2>6. Vouches(rows'[s]) => docs'[s] # None /\ docs'[s].text = rows'[s].text
    BY <2>1, <2>2, <2>3 DEF Vouches
  <2> QED
    BY <2>1, <2>4, <2>5, <2>6, OneSession
<1>5. ASSUME NEW s \in Session, Skip(s) PROVE VersionsInv'
  <2>1. BuildNotBehindLedger'
    BY <1>5, <1>t DEF Skip, world, BuildNotBehindLedger, NotAhead, Vouches
  <2> QED
    BY <1>5, <1>t, <2>1 DEF Skip, VersionsInv, PublishedBeforeLedger,
       LedgerNotAheadOfCurrent
<1>6. ASSUME NEW s \in Session, ParseSource(s) PROVE VersionsInv'
  <2>1. /\ pc = "parse" /\ pc' = "stamp"
        /\ UNCHANGED <<source, ledger, current, prior, rows, docs>>
        /\ parsed'.session = s /\ parsed'.version = source[s]
        /\ source[s] \in Nat
    BY <1>6, <1>t, MaxVersionType DEF ParseSource, world, TypeOK, Version
  <2> QED
    BY <1>t, <2>1, OneSession DEF BuildNotBehindLedger
<1>7. CASE Stamp
  <2> DEFINE s == parsed.session
             withheld == Effect[brule][s] = "all"
             text == Text(s, parsed.version, brule)
             doc == [text |-> text, cwd |-> entries[s].cwd,
                     verdict |-> parsed.verdict]
  <2>1. /\ parsed \in ParsedSet /\ s \in Session
        /\ brule \in Rule /\ parsed.version \in Version
        /\ pc = "stamp" /\ pc' = "parse" /\ entries[s] \in CatalogRow
        /\ UNCHANGED <<source, ledger, current, prior>>
    BY <1>7, <1>t DEF Stamp, world, BuildAllowed, TypeOK, ParsedSet, Listed
  <2>2. /\ rows'[s].text = IF withheld THEN None ELSE text
        /\ rows'[s].withheld = withheld
        /\ docs'[s] = IF withheld THEN docs[s] ELSE doc
        /\ \A u \in Session : u # s => rows'[u] = rows[u] /\ docs'[u] = docs[u]
    BY <1>7, <1>t, <2>1 DEF Stamp, TypeOK
  <2>3. ~withheld => doc # None
    <3>1. ~withheld => doc \in DocSet
      BY <2>1, TextLeft DEF DocSet, CatalogRow, ParsedSet
    <3> QED
      BY <3>1, NoneIsNothing
  <2>4. /\ text.version = parsed.version /\ doc.text = text
        /\ parsed.version <= source[s]
        /\ NotAhead(ledger.rows[s], parsed.version)
        /\ docs[s] # None => NotAhead(ledger.rows[s], docs[s].text.version)
    BY <1>t, <2>1 DEF Text, BuildNotBehindLedger
  <2> HIDE DEF s, withheld, text, doc
  <2>5. NotAhead(rows'[s], source[s])
    BY <2>2, <2>4 DEF NotAhead, Vouches
  <2>6. docs'[s] # None => NotAhead(ledger.rows[s], docs'[s].text.version)
    BY <2>2, <2>4
  <2>7. Vouches(rows'[s]) => docs'[s] # None /\ docs'[s].text = rows'[s].text
    BY <2>2, <2>3, <2>4 DEF Vouches
  <2> QED
    BY <2>1, <2>2, <2>5, <2>6, <2>7, OneSession
<1>8. CASE Publish
  <2>1. /\ pc = "parse" /\ pc' = "ledger" /\ current'.docs = docs
        /\ UNCHANGED <<source, ledger, prior, rows, docs>>
    BY <1>8 DEF Publish, world, build
  <2>2. BuildNotBehindLedger'
    BY <1>t, <2>1 DEF BuildNotBehindLedger, NotAhead, Vouches
  <2>3. LedgerNotAheadOfCurrent'
    BY <1>t, <2>1
       DEF BuildNotBehindLedger, NotAhead, Vouches, LedgerNotAheadOfCurrent
  <2> QED
    BY <2>1, <2>2, <2>3 DEF VersionsInv, PublishedBeforeLedger
<1>9. CASE WriteParseState
  <2>1. /\ Rest /\ current.docs = docs
        /\ ledger'.rows = rows /\ UNCHANGED <<source, current>>
    BY <1>9, <1>t DEF WriteParseState, world, PublishedBeforeLedger
  <2>2. BuildNotBehindLedger'
    BY <1>t, <2>1 DEF BuildNotBehindLedger, Rest, NoRows, NoDocs, NotAhead,
       Vouches
  <2>3. ASSUME NEW s \in Session, Vouches(rows[s])
        PROVE  rows[s].text.version <= docs[s].text.version
    <3>1. rows[s] \in RowSet \union {None} /\ rows[s].text # None
      BY <1>t, <2>3 DEF TypeOK, BuildAllowed, RowAllowed, Vouches
    <3> QED
      BY <1>t, <1>v, <2>3, <3>1 DEF BuildNotBehindLedger
  <2>4. LedgerNotAheadOfCurrent'
    BY <2>1, <2>3 DEF LedgerNotAheadOfCurrent, Vouches
  <2> QED
    BY <2>1, <2>2, <2>4 DEF VersionsInv, PublishedBeforeLedger, Rest
<1> QED
  BY <1>1, <1>2, <1>3, <1>4, <1>5, <1>6, <1>7, <1>8, <1>9 DEF Builder

\* Both invariants hold of the first state and of every step.
LEMMA VersionsInit == Init => VersionsInv
  BY DEF Init, VersionsInv, BuildNotBehindLedger, PublishedBeforeLedger,
     LedgerNotAheadOfCurrent, NotAhead, Vouches, NoRows, NoDocs

LEMMA VersionsInductive == RulesInv /\ VersionsInv /\ [Next]_vars => VersionsInv'
<1> SUFFICES ASSUME RulesInv, VersionsInv, [Next]_vars PROVE VersionsInv'
  OBVIOUS
<1>1. CASE UNCHANGED vars
  BY <1>1 DEF vars, world, build, VersionsInv, BuildNotBehindLedger,
     PublishedBeforeLedger, LedgerNotAheadOfCurrent, NotAhead, Vouches
<1> QED
  BY <1>1, VersionsWorld, VersionsBuilder DEF Next

\* A killed build never leaves a ledger that vouches for frames CURRENT does
\* not have (write_parse_state runs after the publish).
THEOREM LedgerStaysBehindCurrent == Spec => []LedgerNotAheadOfCurrent
<1>1. VersionsInv => LedgerNotAheadOfCurrent
  BY DEF VersionsInv
<1> QED
  BY RulesInit, RulesInductive, VersionsInit, VersionsInductive, <1>1, PTL
     DEF Spec

-----------------------------------------------------------------------------
\* Nothing is wrong with nothing.
LEMMA NothingWrong ==
  /\ AllRight(NoRows, NoDocs)
  /\ \A rs, ds : AllRight(rs, ds) => AllRight(rs, NoDocs)
  BY DEF AllRight, RowRight, DocRight, Vouches, NoRows, NoDocs, Listed

\* A quiet step keeps right what it does not touch.
LEMMA RightKept ==
  ASSUME UNCHANGED world
  PROVE  /\ AllRight(rows, docs) /\ UNCHANGED <<rows, docs>> =>
                AllRight(rows, docs)'
         /\ AllRight(prior, NoDocs) /\ UNCHANGED prior =>
                AllRight(prior, NoDocs)'
         /\ AllRight(ledger.rows, current.docs) /\ UNCHANGED <<ledger, current>>
                => AllRight(ledger.rows, current.docs)'
         /\ AllRight(NoRows, NoDocs)'
  BY DEF AllRight, RowRight, DocRight, Vouches, NoRows, NoDocs, Listed, world

\* Parsing, and reuse of rows that are right, leave rows and documents that
\* are right.
LEMMA RightStep ==
  ASSUME RulesInv, ThisMoment, Builder, UNCHANGED world,
         pc # "idle", pc' # "idle",
         AllRight(prior, NoDocs), AllRight(rows, docs)
  PROVE  AllRight(rows, docs)'
<1>t. /\ TypeOK /\ BuildAllowed /\ entries = catalog /\ brule = rule
      /\ UNCHANGED <<source, catalog, rule, layout>>
  BY DEF RulesInv, ThisMoment, world
<1>o. ASSUME NEW s \in Session,
             \A u \in Session : u # s => rows'[u] = rows[u] /\ docs'[u] = docs[u],
             s \in Listed(catalog) => /\ RowRight(rows'[s], s)
                                      /\ DocRight(docs'[s], s)
      PROVE  AllRight(rows, docs)'
  BY <1>t, <1>o DEF AllRight, RowRight, DocRight, Listed
<1>1. CASE UNCHANGED <<rows, docs>>
  BY <1>1, RightKept
<1>2. ASSUME NEW s \in Session, Reuse(s) PROVE AllRight(rows, docs)'
  <2>1. /\ \A u \in Session : u # s => rows'[u] = rows[u] /\ docs'[u] = docs[u]
        /\ prior[s] # None /\ prior[s] \in RowSet
        /\ prior[s].withheld \/ extract[s] = prior[s].text
    BY <1>2, <1>t DEF Reuse, Reusable, Consulted, TypeOK
  <2>2. /\ rows'[s].withheld = prior[s].withheld
        /\ rows'[s].text = prior[s].text
        /\ rows'[s].verdict = prior[s].verdict
        /\ docs'[s] = IF prior[s].withheld THEN docs[s]
                      ELSE [text |-> extract[s], cwd |-> catalog[s].cwd,
                            verdict |-> prior[s].verdict]
    BY <1>2, <1>t, <2>1 DEF Reuse, TypeOK, RowSet
  <2>3. s \in Listed(catalog) =>
            RowRight(prior[s], s) /\ DocRight(docs[s], s)
    BY DEF AllRight
  <2>4. s \in Listed(catalog) =>
            RowRight(rows'[s], s) /\ DocRight(docs'[s], s)
    BY <2>1, <2>2, <2>3 DEF RowRight, DocRight, Vouches
  <2> QED
    BY <1>o, <2>1, <2>4
<1>3. CASE Stamp
  <2> DEFINE s == parsed.session
             withheld == Effect[brule][s] = "all"
             text == Text(s, parsed.version, brule)
  <2>1. /\ s \in Session /\ parsed.version = source[s]
        /\ parsed.verdict = layout
    BY <1>3, <1>t DEF Stamp, BuildAllowed, TypeOK, ThisMoment, ParsedSet
  <2>2. /\ rows'[s].text = IF withheld THEN None ELSE text
        /\ rows'[s].withheld = withheld
        /\ rows'[s].verdict = parsed.verdict
        /\ docs'[s] = IF withheld THEN docs[s]
                      ELSE [text |-> text, cwd |-> entries[s].cwd,
                            verdict |-> parsed.verdict]
        /\ \A u \in Session : u # s => rows'[u] = rows[u] /\ docs'[u] = docs[u]
    BY <1>3, <1>t, <2>1 DEF Stamp, TypeOK
  <2>3. text = Text(s, source[s], rule)
    BY <1>t, <2>1
  <2> HIDE DEF s, withheld, text
  <2>4. s \in Listed(catalog) => DocRight(docs[s], s)
    BY DEF AllRight
  <2>5. s \in Listed(catalog) =>
            RowRight(rows'[s], s) /\ DocRight(docs'[s], s)
    BY <1>t, <2>1, <2>2, <2>3, <2>4 DEF RowRight, DocRight, Vouches, s
  <2> QED
    BY <1>o, <2>1, <2>2, <2>5
<1>4. CASE Rest
  BY <1>4 DEF Rest
<1> QED
  BY <1>1, <1>2, <1>3, <1>4
     DEF Builder, Begin, ReportUnchanged, StartParse, Skip, ParseSource,
         Publish, NothingToPublish, WriteParseState, Abort, build

\* What a build of this moment has stays so while the world is quiet.
LEMMA MomentStep ==
  ASSUME RulesInv, ThisMoment, [Next]_vars, UNCHANGED world
  PROVE  ThisMoment'
<1>t. /\ TypeOK /\ BuildAllowed /\ IdleHoldsNothing
      /\ UNCHANGED <<source, catalog, rule, layout>>
  BY DEF RulesInv, world
<1>1. CASE World \/ UNCHANGED vars
  BY <1>1, <1>t, RightKept DEF World, vars, build, ThisMoment
<1>2. CASE Rest
  BY <1>2 DEF Rest, ThisMoment
<1>3. ASSUME NEW f \in BOOLEAN, Begin(f) PROVE ThisMoment'
  BY <1>3, <1>t, RightKept DEF Begin, ThisMoment, IdleHoldsNothing
<1>4. CASE Builder /\ pc # "idle" /\ pc' # "idle"
  <2>1. entries' = catalog' /\ brule' = rule' /\ full' = full
    BY <1>4, <1>t DEF ThisMoment, Builder, Begin, ReportUnchanged, StartParse,
       Reuse, Skip, ParseSource, Stamp, Publish, NothingToPublish,
       WriteParseState, Abort, build, Rest
  <2>2. full => prior' = NoRows
    BY <1>4, <1>t DEF ThisMoment, Builder, Begin, ReportUnchanged, StartParse,
       LoadParseState,
       Reuse, Skip, ParseSource, Stamp, Publish, NothingToPublish,
       WriteParseState, Abort, build, Rest
  <2>3. full => AllRight(rows, docs)'
    BY <1>4, RightStep, NothingWrong DEF ThisMoment
  <2>4. pc' = "stamp" => /\ parsed'.version = source'[parsed'.session]
                         /\ parsed'.verdict = layout'
    BY <1>4, <1>t DEF ThisMoment, Builder, Begin, ReportUnchanged, StartParse,
       Reuse, Skip, ParseSource, Stamp, Publish, NothingToPublish,
       WriteParseState, Abort, build, Rest
  <2> QED
    BY <2>1, <2>2, <2>3, <2>4 DEF ThisMoment
<1> QED
  BY <1>1, <1>2, <1>3, <1>4
     DEF Next, Builder, Begin, ReportUnchanged, StartParse, Reuse, Skip,
         ParseSource, Stamp, Publish, NothingToPublish, WriteParseState, Abort,
         build

\* A full rescan of this moment repairs CURRENT and the ledger.
LEMMA RescanStep ==
  ASSUME VersionsInv, ThisMoment, RescanDone, UNCHANGED world
  PROVE  Repaired'
<1>1. /\ current.docs = docs /\ AllRight(rows, docs) /\ brule = rule
      /\ ledger' = [rule |-> brule, rows |-> rows] /\ current' = current
      /\ pc' = "idle" /\ UNCHANGED <<source, catalog, rule, layout>>
  BY DEF RescanDone, WriteParseState, VersionsInv, PublishedBeforeLedger,
     ThisMoment, Rest, world
<1>2. AllRight(ledger.rows, current.docs)'
  BY <1>1 DEF AllRight, RowRight, DocRight, Listed
<1> QED
  BY <1>1, <1>2 DEF Repaired

\* What is repaired stays so while the world is quiet, whatever is built or
\* killed.
LEMMA RepairedStep ==
  ASSUME RulesInv, VersionsInv, ThisMoment, Repaired, [Next]_vars,
         UNCHANGED world
  PROVE  Repaired'
<1>t. /\ TypeOK /\ BuildAllowed /\ IdleHoldsNothing
      /\ UNCHANGED <<source, catalog, rule, layout>>
  BY DEF RulesInv, world
<1>1. CASE World \/ UNCHANGED vars
  BY <1>1, <1>t, RightKept DEF World, vars, build, Repaired
<1>2. CASE Rest /\ UNCHANGED <<ledger, current>>
  BY <1>2, <1>t, RightKept DEF Rest, Repaired
<1>3. ASSUME NEW f \in BOOLEAN, Begin(f) PROVE Repaired'
  BY <1>3, <1>t, RightKept DEF Begin, Repaired, IdleHoldsNothing
<1>4. CASE WriteParseState
  <2>1. /\ current.docs = docs /\ AllRight(rows, docs) /\ brule = rule
        /\ ledger' = [rule |-> brule, rows |-> rows] /\ current' = current
        /\ pc' = "idle"
    BY <1>4 DEF WriteParseState, VersionsInv, PublishedBeforeLedger,
       ThisMoment, Repaired, Rest
  <2>2. AllRight(ledger.rows, current.docs)'
    BY <1>t, <2>1 DEF AllRight, RowRight, DocRight, Listed
  <2> QED
    BY <1>t, <2>1, <2>2 DEF Repaired
<1>5. CASE Builder /\ pc # "idle" /\ pc' # "idle"
  <2>1. AllRight(rows, docs)'
    BY <1>5, RightStep DEF Repaired
  <2>2. CASE StartParse
    <3>1. prior' = NoRows \/ prior' = ledger.rows
      BY <2>2 DEF StartParse, LoadParseState
    <3>2. AllRight(prior, NoDocs)'
      <4>1. CASE prior' = NoRows
        BY <1>t, <4>1 DEF AllRight, RowRight, DocRight, Vouches, Listed,
           NoDocs, NoRows
      <4>2. CASE prior' = ledger.rows
        BY <1>t, <4>2 DEF AllRight, RowRight, DocRight, Listed, Repaired,
           NoDocs
      <4> QED
        BY <3>1, <4>1, <4>2
    <3> QED
      BY <1>t, <2>1, <2>2, <3>2, RightKept DEF StartParse, Repaired
  <2>3. CASE Publish
    <3>1. AllRight(ledger.rows, current.docs)'
      BY <1>t, <2>3 DEF Publish, AllRight, RowRight, DocRight, Listed, Repaired
    <3> QED
      BY <1>t, <2>1, <2>3, <3>1, RightKept DEF Publish, build, Repaired
  <2>4. CASE UNCHANGED <<ledger, current, prior>>
    BY <1>5, <1>t, <2>1, <2>4, RightKept DEF Repaired
  <2> QED
    BY <1>5, <2>2, <2>3, <2>4
       DEF Builder, Begin, ReportUnchanged, Reuse, Skip, ParseSource, Stamp,
           NothingToPublish, WriteParseState, Abort, Rest
<1> QED
  BY <1>1, <1>2, <1>3, <1>4, <1>5
     DEF Next, Builder, ReportUnchanged, StartParse, Reuse, Skip,
         ParseSource, Stamp, Publish, NothingToPublish, Abort, build

\* `aicx index --full-rescan` repairs what the incremental gates got wrong:
\* once sources, catalog, rules and checkouts are quiet, a rescan that gets
\* through makes every document of CURRENT right, and no later build, reused
\* row or kill spoils it.
THEOREM RescansRepair == Spec => RescanRepairs
<1> DEFINE Inv == RulesInv /\ VersionsInv
<1>1. Init => Inv
  BY RulesInit, VersionsInit
<1>2. Inv /\ [Next]_vars => Inv'
  BY RulesInductive, VersionsInductive
<1>w. [UNCHANGED world]_vars => UNCHANGED world
  BY DEF vars
<1>3. Inv /\ ThisMoment /\ [Next]_vars /\ [UNCHANGED world]_vars
          => ThisMoment'
  BY <1>w, MomentStep
<1>4. <<RescanDone>>_vars => ThisMoment'
  BY DEF RescanDone, WriteParseState, Rest, ThisMoment
<1>5. Inv /\ ThisMoment /\ <<RescanDone>>_vars /\ [UNCHANGED world]_vars
          => Repaired'
  BY <1>w, RescanStep
<1>6. /\ Inv /\ ThisMoment /\ Repaired
      /\ [Next]_vars /\ [UNCHANGED world]_vars
      => Repaired'
  BY <1>w, RepairedStep
<1>7. Repaired => Fresh
  BY DEF Repaired, AllRight, DocRight, Fresh
<1> QED
  BY <1>1, <1>2, <1>3, <1>4, <1>5, <1>6, <1>7, PTL DEF Spec, RescanRepairs

-----------------------------------------------------------------------------
\* A receipt is issued from a ledger of the rules in force, and its text is
\* the only body it lets through.
LEMMA ReceiptStep ==
  ASSUME RulesInv, ReaderTypeOK, ReceiptAllowed, Reader, UNCHANGED vars
  PROVE  ReaderTypeOK' /\ ReceiptAllowed'
<1> USE DEF ReaderTypeOK, ReceiptAllowed, Reading
<1>t. /\ TypeOK /\ LedgerAllowed /\ reader \in ReaderSet \union {None}
  BY DEF RulesInv
<1>1. CASE OpenReader
  BY <1>1, <1>t DEF OpenReader, ReaderSet, TypeOK
<1>2. ASSUME NEW s \in Session, Validate(s)
      PROVE  ReaderTypeOK' /\ ReceiptAllowed'
  <2> DEFINE p == LoadParseState(FALSE, reader.rule)
  <2>1. /\ reader # None /\ reader \in ReaderSet /\ reader.rule \in Rule
        /\ p[s] # None /\ ~p[s].withheld
        /\ reader' = [reader EXCEPT !.step = "before", !.session = s,
                                    !.version = source[s], !.layout = layout,
                                    !.text = p[s].text]
    BY <1>2, <1>t DEF Validate, ReaderSet
  <2>2. p = ledger.rows /\ ledger.rule = reader.rule
    BY <1>t, <2>1, PriorType DEF NoRows
  <2>3. /\ p[s].text # None /\ AllowedText(p[s].text, s, reader.rule)
        /\ p[s].text \in TextSet
    BY <1>t, <2>1, <2>2 DEF LedgerAllowed, RowAllowed, TypeOK, RowSet
  <2> HIDE DEF p
  <2>4. reader' \in ReaderSet
    BY <1>t, <2>1, <2>3 DEF ReaderSet, TypeOK
  <2>5. /\ reader'.step = "before" /\ reader'.session = s
        /\ reader'.text = p[s].text /\ reader'.rule = reader.rule
    BY <2>1 DEF ReaderSet
  <2> QED
    BY <2>3, <2>4, <2>5
<1>3. CASE CheckBefore \/ ReadBody \/ CheckAfter
  <2>1. /\ reader # None /\ reader \in ReaderSet
        /\ reader.step \in {"before", "read", "after"}
    BY <1>3, <1>t DEF CheckBefore, ReadBody, CheckAfter
  <2>2. CASE reader' = None
    BY <2>2
  <2>3. CASE reader' # None
    <3>1. \E step \in {"read", "after", "served"},
             body \in TextSet \union {None} :
              /\ reader' = [reader EXCEPT !.step = step, !.body = body]
              /\ step \in {"after", "served"} => body = reader.text
      <4>1. CASE CheckBefore \/ CheckAfter
        <5>1. PICK step \in {"read", "served"} :
                  /\ reader' = [reader EXCEPT !.step = step]
                  /\ step = "served" => reader.step = "after"
          BY <2>3, <4>1 DEF CheckBefore, CheckAfter
        <5>2. reader' = [reader EXCEPT !.step = step, !.body = reader.body]
          BY <2>1, <5>1 DEF ReaderSet
        <5>3. reader.body \in TextSet \union {None}
          BY <2>1 DEF ReaderSet
        <5> QED
          BY <2>1, <5>1, <5>2, <5>3
      <4>2. CASE ReadBody
        <5>1. /\ reader' = [reader EXCEPT !.step = "after",
                                          !.body = extract[reader.session]]
              /\ extract[reader.session] = reader.text
          BY <2>3, <4>2 DEF ReadBody
        <5>2. reader.text \in TextSet
          BY <2>1 DEF ReaderSet
        <5> QED
          BY <5>1, <5>2
      <4> QED
        BY <1>3, <4>1, <4>2
    <3>2. PICK step \in {"read", "after", "served"},
               body \in TextSet \union {None} :
              /\ reader' = [reader EXCEPT !.step = step, !.body = body]
              /\ step \in {"after", "served"} => body = reader.text
      BY <3>1
    <3>3. /\ reader' \in ReaderSet /\ reader'.step = step
          /\ reader'.body = body /\ reader'.text = reader.text
          /\ reader'.session = reader.session /\ reader'.rule = reader.rule
      BY <2>1, <3>2 DEF ReaderSet
    <3> QED
      BY <2>1, <3>2, <3>3
  <2> QED
    BY <2>2, <2>3
<1>4. CASE Done
  BY <1>4 DEF Done
<1> QED
  BY <1>1, <1>2, <1>3, <1>4 DEF Reader

\* Whatever the build, the agents and the operator do while an intent query
\* reads, a body it is given was cut by the rules of its receipt
\* (validated_cached_extracts_at, read_verified_body).
THEOREM ServedTextRespectsRules == ReaderSpec => []ServedRespectsRules
<1> DEFINE Inv == RulesInv /\ ReaderTypeOK /\ ReceiptAllowed
<1>1. ReaderInit => Inv
  BY RulesInit DEF ReaderInit, ReaderTypeOK, ReceiptAllowed
<1>2. Inv /\ [ReaderNext]_<<vars, reader>> => Inv'
  <2> SUFFICES ASSUME Inv, [ReaderNext]_<<vars, reader>> PROVE Inv'
    OBVIOUS
  <2>1. RulesInv'
    BY RulesInductive DEF ReaderNext
  <2>2. CASE UNCHANGED reader
    BY <2>1, <2>2 DEF ReaderTypeOK, ReceiptAllowed
  <2>3. CASE Reader /\ UNCHANGED vars
    BY <2>1, <2>3, ReceiptStep
  <2> QED
    BY <2>2, <2>3 DEF ReaderNext
<1>3. Inv => ServedRespectsRules
  BY DEF ReceiptAllowed, ServedRespectsRules, Reading
<1> QED
  BY <1>1, <1>2, <1>3, PTL DEF ReaderSpec
=============================================================================
