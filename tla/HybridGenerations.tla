-------------------------- MODULE HybridGenerations --------------------------
(***************************************************************************)
(* The generation store of the hybrid index (src/src/vector_index.rs):     *)
(* a publish writes lexical and dense payloads, then the manifest, into a  *)
(* fresh directory, flips CURRENT to it and prunes what CURRENT no longer  *)
(* needs.  `aicx index` and the MCP auto-refresh hold lance.lock, so there *)
(* is one publish at a time (DashboardIndex adds the one that does not);   *)
(* queries (src/src/search_engine.rs) take no lock and read file by file.  *)
(*                                                                         *)
(* Legacy root layouts are left out: without CURRENT there is no index.    *)
(* The embedder is fixed; a payload's text is a member of Docs.            *)
(***************************************************************************)
EXTENDS Naturals, FiniteSets

CONSTANTS
    MaxGen,     \* bound on the generation directories ever made
    Hash,       \* source fingerprints
    Docs,       \* contents of a corpus
    Corpus,     \* the pairs of both a build may come up with
    Count,      \* documents per content
    Schema,     \* lexical schema versions of the installed binaries
    None        \* no file, no directory, nobody

\* Generation directory names, in name order.
Gen == 1..MaxGen

ASSUME MaxGenType == MaxGen \in Nat
ASSUME CorpusType == Corpus \subseteq [hash : Hash, docs : Docs]
ASSUME CountType  == Count \in [Docs -> Nat \ {0}]
ASSUME SchemaType == Schema \subseteq Nat

VARIABLES
    dir,        \* generations/: payloads and manifest of each directory
    used,       \* names ever given out (timestamp and random suffix)
    current,    \* the CURRENT pointer
    writer,     \* the publish that holds lance.lock
    reader      \* one query

vars == <<dir, used, current, writer, reader>>

-----------------------------------------------------------------------------
\* A Tantivy index knows its commit, here the directory it was built in.
LexSet == [commit : Gen \union {None}, docs : Docs \union {None}]
EmptyIndex == [commit |-> None, docs |-> None]
\* The dense mmap embeds the hash of the corpus it was made from.
DenseSet == [hash : Hash, docs : Docs]
ManifestSet == [commit : Gen, hash : Hash, chunks : Nat, dense : Nat,
                schema : Schema]
DirSet == [lex : LexSet \union {None}, dense : DenseSet \union {None},
           manifest : ManifestSet \union {None}]
NoFiles == [lex |-> None, dense |-> None, manifest |-> None]

ASSUME NoneIsNothing ==
    /\ None \notin Gen \union Docs
    /\ None \notin LexSet \union DenseSet \union ManifestSet \union DirSet

DocCount(lex) == IF lex.docs = None THEN 0 ELSE Count[lex.docs]

\* resolve_hybrid_generation_dir: a pointer to a directory that exists.
Resolve == IF current # None /\ dir[current] # None THEN current ELSE None

HasManifest(g) == dir[g] # None /\ dir[g].manifest # None

\* generation_has_dense: the payload opens and matches the manifest.
DenseBound(d) == /\ d.manifest.dense > 0
                 /\ d.dense # None
                 /\ d.dense.hash = d.manifest.hash
                 /\ Count[d.dense.docs] = d.manifest.dense
HasDense(g) == HasManifest(g) /\ DenseBound(dir[g])

Init ==
    /\ dir = [g \in Gen |-> None]
    /\ used = {}
    /\ current = None
    /\ writer = None
    /\ reader = None

-----------------------------------------------------------------------------
\* publish_source_lexical_generation, publish_source_hybrid_generation

Publishing(step) == writer # None /\ writer.step = step

\* A fresh directory; opening its lexical adapter creates an empty index.
BeginPublish(g, c, semantic, v) ==
    /\ writer = None
    /\ g \notin used
    /\ used' = used \union {g}
    /\ dir' = [dir EXCEPT ![g] = [NoFiles EXCEPT !.lex = EmptyIndex]]
    /\ writer' = [step |-> "lexical", gen |-> g, corpus |-> c,
                  semantic |-> semantic, schema |-> v,
                  previous |-> Resolve, doomed |-> {}]
    /\ UNCHANGED <<current, reader>>

BuildLexical ==
    /\ Publishing("lexical")
    /\ dir' = [dir EXCEPT ![writer.gen].lex =
                  [commit |-> writer.gen, docs |-> writer.corpus.docs]]
    /\ writer' = [writer EXCEPT !.step = "dense"]
    /\ UNCHANGED <<used, current, reader>>

\* `aicx index --semantic`
BuildDense ==
    /\ Publishing("dense") /\ writer.semantic
    /\ dir' = [dir EXCEPT ![writer.gen].dense =
                  [hash |-> writer.corpus.hash, docs |-> writer.corpus.docs]]
    /\ writer' = [writer EXCEPT !.step = "manifest"]
    /\ UNCHANGED <<used, current, reader>>

\* Mutant: any usable dense payload is carried, whatever corpus it embeds.
CarriesAnyCorpus == writer.previous # None /\ HasDense(writer.previous)

\* carry_forward_dense_artifacts
Carries ==
    LET p == writer.previous IN
    /\ p # None
    /\ HasDense(p)
    /\ dir[p].manifest.hash = writer.corpus.hash
    /\ dir[p].manifest.chunks = Count[writer.corpus.docs]

\* The copy of the payload may fail; the generation is then lexical only.
CarryDense ==
    /\ Publishing("dense") /\ ~writer.semantic
    /\ \E copied \in BOOLEAN :
           dir' = IF Carries /\ copied
                  THEN [dir EXCEPT ![writer.gen].dense =
                                       dir[writer.previous].dense]
                  ELSE dir
    /\ writer' = [writer EXCEPT !.step = "manifest"]
    /\ UNCHANGED <<used, current, reader>>

\* Mutant: the manifest claims the carried payload before it was copied.
ManifestOfClaimsDense(w, dense) ==
    [commit |-> w.gen, hash |-> w.corpus.hash, chunks |-> Count[w.corpus.docs],
     dense |-> IF dense = None /\ ~Carries THEN 0 ELSE Count[w.corpus.docs],
     schema |-> w.schema]

ManifestOf(w, dense) ==
    [commit |-> w.gen, hash |-> w.corpus.hash, chunks |-> Count[w.corpus.docs],
     dense |-> IF dense = None THEN 0 ELSE Count[dense.docs],
     schema |-> w.schema]

WriteManifest ==
    /\ Publishing("manifest")
    /\ dir' = [dir EXCEPT ![writer.gen].manifest =
                  ManifestOf(writer, dir[writer.gen].dense)]
    /\ writer' = [writer EXCEPT !.step = "flip"]
    /\ UNCHANGED <<used, current, reader>>

\* publish_hybrid_generation

\* Mutant: CURRENT is flipped whatever schema it had.
DowngradeUnchecked == FALSE

Downgrade == /\ Resolve # None
             /\ HasManifest(Resolve)
             /\ writer.schema < dir[Resolve].manifest.schema

RefuseDowngrade ==
    /\ Publishing("flip") /\ Downgrade
    /\ writer' = None
    /\ UNCHANGED <<dir, used, current, reader>>

\* Mutant: only CURRENT and its predecessor are kept.
RetainedPairOnly(keep, previous) == {keep, previous} \ {None}

\* Mutant: every dense generation is kept.
RetainedEveryDense(keep, previous) ==
    ({keep, previous} \ {None}) \union {g \in Gen : HasDense(g)}

\* prune_unreferenced_hybrid_generations: keep CURRENT and its predecessor
\* and, when neither has dense, the complete dense one with the last name.
Retained(keep, previous) ==
    LET pair == {keep, previous} \ {None} IN
    pair \union
        IF \E g \in pair : HasDense(g) THEN {}
        ELSE {g \in Gen : HasDense(g) /\ \A h \in Gen : HasDense(h) => h <= g}

Superseded(keep, previous) ==
    {g \in Gen : HasManifest(g)} \ Retained(keep, previous)

\* A generation whose manifest can be read: the pointer is renamed into
\* place; the prune follows.
Flip ==
    /\ Publishing("flip") /\ ~Downgrade
    /\ HasManifest(writer.gen)
    /\ current' = writer.gen
    /\ writer' = [writer EXCEPT !.step = "prune",
                                !.doomed = Superseded(writer.gen, current)]
    /\ UNCHANGED <<dir, used, reader>>

\* remove_dir_all unlinks one file after the other, in any order.
RemoveFile(g, f) ==
    /\ Publishing("prune") /\ g \in writer.doomed
    /\ dir[g] # None /\ dir[g][f] # None
    /\ dir' = [dir EXCEPT ![g][f] = None]
    /\ UNCHANGED <<used, current, writer, reader>>

RemoveDir(g) ==
    /\ Publishing("prune") /\ g \in writer.doomed
    /\ dir[g] = NoFiles
    /\ dir' = [dir EXCEPT ![g] = None]
    /\ writer' = [writer EXCEPT !.doomed = @ \ {g}]
    /\ UNCHANGED <<used, current, reader>>

EndPublish ==
    /\ Publishing("prune") /\ writer.doomed = {}
    /\ writer' = None
    /\ UNCHANGED <<dir, used, current, reader>>

\* The publisher is killed, or a write or an unlink fails.
Abort ==
    /\ writer # None
    /\ writer' = None
    /\ UNCHANGED <<dir, used, current, reader>>

Publisher ==
    \/ \E g \in Gen, c \in Corpus, semantic \in BOOLEAN, v \in Schema :
           BeginPublish(g, c, semantic, v)
    \/ BuildLexical \/ BuildDense \/ CarryDense \/ WriteManifest
    \/ RefuseDowngrade \/ Flip
    \/ \E g \in Gen : RemoveDir(g)
    \/ \E g \in Gen, f \in {"lex", "dense", "manifest"} : RemoveFile(g, f)
    \/ EndPublish \/ Abort

-----------------------------------------------------------------------------
\* Queries: try_lexical_search_native and load_hybrid_index (deep search).

Reading(step) == reader # None /\ reader.step = step

\* Mutant: a missing index is not reported.
OpenQueryUnresolved(deep, v) ==
    /\ reader = None
    /\ reader' = [step |-> "manifest", deep |-> deep, schema |-> v,
                  gen |-> Resolve, manifest |-> None,
                  lex |-> None, dense |-> None]
    /\ UNCHANGED <<dir, used, current, writer>>

\* The directory CURRENT names; without one the query fails.
OpenQuery(deep, v) ==
    /\ reader = None
    /\ Resolve # None
    /\ reader' = [step |-> "manifest", deep |-> deep, schema |-> v,
                  gen |-> Resolve, manifest |-> None,
                  lex |-> None, dense |-> None]
    /\ UNCHANGED <<dir, used, current, writer>>

\* Missing manifest, or one of another schema: an error.
ReadManifest ==
    LET g == reader.gen IN
    /\ Reading("manifest")
    /\ reader' = IF HasManifest(g) /\ dir[g].manifest.schema = reader.schema
                 THEN [reader EXCEPT !.step = "lexical",
                                     !.manifest = dir[g].manifest]
                 ELSE None
    /\ UNCHANGED <<dir, used, current, writer>>

\* Mutant: every query resolves CURRENT again.
OpenLexicalResolvesAgain ==
    LET g == Resolve
        found == IF dir[g] = None THEN NoFiles ELSE dir[g]
        lex == IF found.lex = None THEN EmptyIndex ELSE found.lex
    IN
    /\ Reading("lexical")
    /\ g # None
    /\ dir' = [dir EXCEPT ![g] = [found EXCEPT !.lex = lex]]
    /\ reader' = [reader EXCEPT !.step = IF reader.deep THEN "dense"
                                                        ELSE "served",
                                !.gen = g, !.lex = lex]
    /\ UNCHANGED <<used, current, writer>>

\* TantivyAdapter::new creates the directory and an empty index when there
\* is none.  Deep search resolves CURRENT again.
OpenLexical ==
    LET g == IF reader.deep THEN Resolve ELSE reader.gen
        found == IF dir[g] = None THEN NoFiles ELSE dir[g]
        lex == IF found.lex = None THEN EmptyIndex ELSE found.lex
    IN
    /\ Reading("lexical")
    /\ g # None
    /\ dir' = [dir EXCEPT ![g] = [found EXCEPT !.lex = lex]]
    /\ reader' = [reader EXCEPT !.step = IF reader.deep THEN "dense"
                                                        ELSE "served",
                                !.gen = g, !.lex = lex]
    /\ UNCHANGED <<used, current, writer>>

\* And again for the dense payload, checked against the manifest read first.
OpenDense ==
    LET g == Resolve IN
    /\ Reading("dense")
    /\ reader' = IF /\ g # None
                    /\ reader.manifest.dense > 0
                    /\ dir[g].dense # None
                    /\ dir[g].dense.hash = reader.manifest.hash
                 THEN [reader EXCEPT !.step = "bind", !.dense = dir[g].dense]
                 ELSE None
    /\ UNCHANGED <<dir, used, current, writer>>

\* Mutant: the manifest is not read again beside the payloads.
BindingsNotReread(m, lex, dense) == TRUE

\* validate_bindings, the source hash left out as the query path does.
ValidateBindings(m, lex, dense) ==
    /\ m # None
    /\ m.dense > 0
    /\ m.dense = Count[dense.docs]
    /\ m.commit = lex.commit
    /\ m.chunks = DocCount(lex)

\* HybridIndex::load_from_manifest
LoadFromManifest ==
    LET d == dir[reader.gen]
        m == IF d = None THEN None ELSE d.manifest
    IN
    /\ Reading("bind")
    /\ reader' = IF ValidateBindings(m, reader.lex, reader.dense)
                 THEN [reader EXCEPT !.step = "served"]
                 ELSE None
    /\ UNCHANGED <<dir, used, current, writer>>

EndQuery ==
    /\ Reading("served")
    /\ reader' = None
    /\ UNCHANGED <<dir, used, current, writer>>

Query ==
    \/ \E deep \in BOOLEAN, v \in Schema : OpenQuery(deep, v)
    \/ ReadManifest \/ OpenLexical \/ OpenDense \/ LoadFromManifest \/ EndQuery

Next == Publisher \/ Query

Spec == Init /\ [][Next]_vars

-----------------------------------------------------------------------------
WriterSet == [step : {"lexical", "dense", "manifest", "flip", "prune"},
              gen : Gen, corpus : Corpus, semantic : BOOLEAN, schema : Schema,
              previous : Gen \union {None}, doomed : SUBSET Gen]
ReaderSet == [step : {"manifest", "lexical", "dense", "bind", "served"},
              deep : BOOLEAN, schema : Schema, gen : Gen,
              manifest : ManifestSet \union {None},
              lex : LexSet \union {None}, dense : DenseSet \union {None}]

TypeOK ==
    /\ dir \in [Gen -> DirSet \union {None}]
    /\ used \subseteq Gen
    /\ current \in Gen \union {None}
    /\ writer \in WriterSet \union {None}
    /\ reader \in ReaderSet \union {None}

\* What a complete directory holds: "everything inside the generation
\* directory - payloads first, manifest last - is already durable before
\* the pointer rename lands".
Bound(d) ==
    /\ d.manifest # None
    /\ d.lex # None
    /\ d.lex.commit = d.manifest.commit
    /\ DocCount(d.lex) = d.manifest.chunks
    /\ d.manifest.dense > 0 => DenseBound(d)

\* CURRENT always resolves to a complete generation, whatever was killed,
\* pruned half-way or recreated by a late query.
CurrentIsComplete ==
    current # None => dir[current] # None /\ Bound(dir[current])

\* "a failed or interrupted build can never alter current-generation
\* resolution" and "refusing to downgrade the published CURRENT generation":
\* the store implements the atomically published view.
DirSchema(d) == d.manifest.schema
View == INSTANCE PublishedView WITH
            Complete <- {d \in DirSet : Bound(d)},
            SchemaOf <- DirSchema,
            Nothing  <- None,
            view     <- IF current = None THEN None ELSE dir[current]

ViewIsAtomic == View!Spec

\* "Retention separately protects the last usable dense generation": no
\* step, a kill half-way through a prune included, takes the last one away.
DenseSurvives ==
    [][(\E g \in Gen : HasDense(g)) => (\E g \in Gen : HasDense(g))']_vars

\* "Auto-refresh used to leave every snapshot on disk": after a prune two
\* complete generations are left, or three of which just one is dense.
DiskIsBounded ==
    Publishing("prune") /\ writer.doomed = {} =>
        \/ Cardinality({g \in Gen : HasManifest(g)}) <= 2
        \/ /\ Cardinality({g \in Gen : HasManifest(g)}) = 3
           /\ Cardinality({g \in Gen : HasDense(g)}) = 1

\* However publishes and prunes race it, a deep query that answers has a
\* published lexical index and a payload of as many rows, never an index
\* that opening a pruned directory has just created.
DeepFailsClosed ==
    Reading("served") /\ reader.deep =>
        /\ reader.lex.commit # None
        /\ Count[reader.lex.docs] = Count[reader.dense.docs]

\* However far publishes and prunes overtake it, a lexical query answers
\* from the index its manifest was committed with, or finds nothing in an
\* empty one because its generation was pruned since it was resolved; never
\* does it pair a manifest with another generation's index, and never is
\* the index CURRENT names found empty (try_lexical_search_native).
LexicalServesItsManifest ==
    Reading("served") /\ ~reader.deep =>
        \/ reader.lex.commit = reader.manifest.commit
        \/ reader.lex = EmptyIndex /\ reader.gen # current

\* "Only carry it into CURRENT when its corpus binding matches the new
\* lexical build": however often vectors are carried on, past failed copies,
\* kills and other corpora published in between, the index and the vectors
\* beside a manifest are of texts that builds under its fingerprint came up
\* with, the same texts when a fingerprint stands for one content.
VectorsFitTheManifest ==
    \A g \in Gen : HasManifest(g) =>
        {[hash |-> dir[g].manifest.hash, docs |-> p.docs] :
            p \in {dir[g].lex, dir[g].dense} \ {None, EmptyIndex}} \subseteq Corpus
=============================================================================
