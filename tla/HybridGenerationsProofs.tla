----------------------- MODULE HybridGenerationsProofs -----------------------
(***************************************************************************)
(* Proofs about HybridGenerations, for any number of generations, any      *)
(* corpora and any schema versions.                                        *)
(***************************************************************************)
EXTENDS HybridGenerations, FiniteSetTheorems, WellFoundedInduction, TLAPS

(***************************************************************************)
(* The inductive invariant.  CurrentIsComplete alone is not inductive: it  *)
(* says nothing of the directory a publish is about to flip CURRENT to, of *)
(* the names still free, or of what a prune may remove.                    *)
(***************************************************************************)

\* Whatever exists, is published or is being read was given a name once, so
\* a fresh name is really fresh.
NamesAreUsed ==
    /\ \A g \in Gen : dir[g] # None => g \in used
    /\ current # None => current \in used
    /\ writer # None => writer.gen \in used
    /\ reader # None => reader.gen \in used

\* What the publisher has written by each step of its protocol.
Written(w, d) ==
    /\ d # None
    /\ d.lex # None
    /\ w.step \in {"dense", "manifest"} =>
           d.lex = [commit |-> w.gen, docs |-> w.corpus.docs]
    /\ w.step \in {"lexical", "dense"} => d.dense = None
    /\ w.step = "manifest" /\ d.dense # None =>
           /\ d.dense.hash = w.corpus.hash
           /\ Count[d.dense.docs] = Count[w.corpus.docs]
    /\ IF w.step = "flip" THEN Bound(d) /\ d.manifest.schema = w.schema
                          ELSE d.manifest = None

\* Until the flip the publisher works beside CURRENT; afterwards it may
\* only remove what CURRENT does not need.
PublishProtocol ==
    writer # None =>
        IF writer.step = "prune"
        THEN /\ writer.gen = current
             /\ current \notin writer.doomed
        ELSE /\ writer.gen # current
             /\ writer.doomed = {}
             /\ Written(writer, dir[writer.gen])

\* A manifest claims vectors for all of its documents or for none.
DenseIsWhole ==
    \A g \in Gen : HasManifest(g) =>
        dir[g].manifest.dense \in {0, dir[g].manifest.chunks}

\* A prune spares a usable dense generation, if there is one.
DenseIsSpared ==
    Publishing("prune") /\ (\E g \in Gen : HasDense(g)) =>
        \E g \in Gen \ writer.doomed : HasDense(g)

\* A deep query holds the payloads its step says it holds.
ReaderHolds ==
    reader # None =>
        /\ reader.step \in {"dense", "bind", "served"} => reader.lex # None
        /\ reader.step = "bind" => reader.dense # None
        /\ reader.step = "served" /\ reader.deep => reader.dense # None

StoreInv == /\ TypeOK
            /\ NamesAreUsed
            /\ PublishProtocol
            /\ CurrentIsComplete

-----------------------------------------------------------------------------
\* A write to one file of an existing directory keeps the store well typed.
LEMMA WriteFile ==
  ASSUME TypeOK, NEW g \in Gen, dir[g] # None
  PROVE  /\ \A x \in LexSet \union {None} :
               [dir EXCEPT ![g].lex = x] \in [Gen -> DirSet \union {None}]
         /\ \A x \in DenseSet \union {None} :
               [dir EXCEPT ![g].dense = x] \in [Gen -> DirSet \union {None}]
         /\ \A x \in ManifestSet \union {None} :
               [dir EXCEPT ![g].manifest = x] \in [Gen -> DirSet \union {None}]
  BY DEF TypeOK, DirSet

\* What the operations put into a file has the file's type.
LEMMA FileTypes ==
  ASSUME TypeOK, writer # None
  PROVE  /\ EmptyIndex \in LexSet
         /\ writer.gen \in Gen
         /\ [commit |-> writer.gen, docs |-> writer.corpus.docs] \in LexSet
         /\ [hash |-> writer.corpus.hash, docs |-> writer.corpus.docs]
              \in DenseSet
         /\ \A d \in DenseSet \union {None} :
                ManifestOf(writer, d) \in ManifestSet
  <1>1. writer \in WriterSet /\ writer.corpus \in [hash : Hash, docs : Docs]
    BY CorpusType DEF TypeOK, WriterSet
  <1>2. Count[writer.corpus.docs] \in Nat
    BY <1>1, CountType
  <1>3. \A d \in DenseSet : Count[d.docs] \in Nat
    BY CountType DEF DenseSet
  <1> QED
    BY <1>1, <1>2, <1>3 DEF EmptyIndex, LexSet, DenseSet, ManifestSet,
       ManifestOf, WriterSet

\* Well-typedness is kept by every step of a publish.
LEMMA TypePublisher == ASSUME StoreInv, Publisher PROVE TypeOK'
<1> USE DEF StoreInv
<1>t. /\ dir \in [Gen -> DirSet \union {None}] /\ used \subseteq Gen
      /\ current \in Gen \union {None} /\ writer \in WriterSet \union {None}
      /\ reader \in ReaderSet \union {None}
  BY DEF TypeOK
<1>w. writer # None /\ writer.step # "prune" =>
          writer.gen \in Gen /\ dir[writer.gen] # None
  BY <1>t DEF PublishProtocol, Written, WriterSet
<1>1. ASSUME NEW g \in Gen, NEW c \in Corpus, NEW semantic \in BOOLEAN,
             NEW v \in Schema, BeginPublish(g, c, semantic, v)
      PROVE  TypeOK'
  <2>1. [NoFiles EXCEPT !.lex = EmptyIndex] \in DirSet
    BY DEF NoFiles, DirSet, EmptyIndex, LexSet
  <2>2. Resolve \in Gen \union {None}
    BY <1>t DEF Resolve
  <2> QED
    BY <1>1, <1>t, <2>1, <2>2 DEF BeginPublish, TypeOK, WriterSet
<1>2. CASE BuildLexical
  <2>1. dir' \in [Gen -> DirSet \union {None}]
    BY <1>2, FileTypes, WriteFile, <1>w DEF BuildLexical, Publishing
  <2> QED
    BY <1>2, <1>t, <2>1 DEF BuildLexical, Publishing, TypeOK, WriterSet
<1>3. CASE BuildDense
  <2>1. dir' \in [Gen -> DirSet \union {None}]
    BY <1>3, FileTypes, WriteFile, <1>w DEF BuildDense, Publishing
  <2> QED
    BY <1>3, <1>t, <2>1 DEF BuildDense, Publishing, TypeOK, WriterSet
<1>4. CASE CarryDense
  <2>1. Carries => dir[writer.previous].dense \in DenseSet
    BY <1>4, <1>t DEF CarryDense, Publishing, Carries, HasDense, HasManifest,
       DenseBound, WriterSet, DirSet
  <2>2. dir' \in [Gen -> DirSet \union {None}]
    BY <1>4, <1>t, <2>1, WriteFile, <1>w DEF CarryDense, Publishing
  <2> QED
    BY <1>4, <1>t, <2>2 DEF CarryDense, Publishing, TypeOK, WriterSet
<1>5. CASE WriteManifest
  <2>1. dir[writer.gen] \in DirSet
    BY <1>5, <1>t, <1>w DEF WriteManifest, Publishing
  <2>2. ManifestOf(writer, dir[writer.gen].dense) \in ManifestSet
    BY <1>5, <2>1, FileTypes DEF WriteManifest, Publishing, DirSet
  <2>3. dir' \in [Gen -> DirSet \union {None}]
    BY <1>5, <2>1, <2>2, FileTypes, WriteFile, NoneIsNothing
       DEF WriteManifest, Publishing
  <2> QED
    BY <1>5, <1>t, <2>3 DEF WriteManifest, Publishing, TypeOK, WriterSet
<1>6. CASE RefuseDowngrade
  BY <1>6, <1>t DEF RefuseDowngrade, TypeOK
<1>7. CASE Flip
  <2>1. Superseded(writer.gen, current) \subseteq Gen
    BY DEF Superseded
  <2> QED
    BY <1>7, <1>t, <2>1 DEF Flip, Publishing, TypeOK, WriterSet
<1>8. ASSUME NEW g \in Gen, RemoveDir(g) PROVE TypeOK'
  BY <1>8, <1>t DEF RemoveDir, Publishing, TypeOK, WriterSet
<1>9. ASSUME NEW g \in Gen, NEW f \in {"lex", "dense", "manifest"},
             RemoveFile(g, f)
      PROVE  TypeOK'
  <2>1. dir' \in [Gen -> DirSet \union {None}]
    BY <1>9, <1>t DEF RemoveFile, DirSet
  <2> QED
    BY <1>9, <1>t, <2>1 DEF RemoveFile, TypeOK
<1>10. CASE EndPublish \/ Abort
  BY <1>10, <1>t DEF EndPublish, Abort, TypeOK
<1> QED
  BY <1>1, <1>2, <1>3, <1>4, <1>5, <1>6, <1>7, <1>8, <1>9, <1>10
     DEF Publisher

\* And by every step of a query.
LEMMA TypeQuery == ASSUME StoreInv, Query PROVE TypeOK'
<1> USE DEF StoreInv
<1>t. /\ dir \in [Gen -> DirSet \union {None}] /\ used \subseteq Gen
      /\ current \in Gen \union {None} /\ writer \in WriterSet \union {None}
      /\ reader \in ReaderSet \union {None}
  BY DEF TypeOK
<1>r. Resolve \in Gen \union {None}
  BY <1>t DEF Resolve
<1>1. ASSUME NEW deep \in BOOLEAN, NEW v \in Schema, OpenQuery(deep, v)
      PROVE  TypeOK'
  BY <1>1, <1>t, <1>r DEF OpenQuery, TypeOK, ReaderSet
<1>2. CASE ReadManifest
  BY <1>2, <1>t DEF ReadManifest, Reading, HasManifest, TypeOK, ReaderSet,
     DirSet
<1>3. CASE OpenLexical
  <2> DEFINE g == IF reader.deep THEN Resolve ELSE reader.gen
             found == IF dir[g] = None THEN NoFiles ELSE dir[g]
             lex == IF found.lex = None THEN EmptyIndex ELSE found.lex
  <2>1. g \in Gen
    BY <1>3, <1>t, <1>r DEF OpenLexical, Reading, ReaderSet
  <2>2. found \in DirSet
    BY <1>t, <2>1 DEF NoFiles, DirSet
  <2>3. lex \in LexSet
    BY <2>2 DEF DirSet, EmptyIndex, LexSet
  <2>4. /\ dir' = [dir EXCEPT ![g] = [found EXCEPT !.lex = lex]]
        /\ reader' = [reader EXCEPT !.step = IF reader.deep THEN "dense"
                                                            ELSE "served",
                                    !.gen = g, !.lex = lex]
        /\ reader # None
        /\ UNCHANGED <<used, current, writer>>
    BY <1>3 DEF OpenLexical, Reading
  <2> HIDE DEF g, found, lex
  <2>5. [found EXCEPT !.lex = lex] \in DirSet
    BY <2>2, <2>3 DEF DirSet
  <2>6. reader' \in ReaderSet
    BY <1>t, <2>1, <2>3, <2>4 DEF ReaderSet
  <2> QED
    BY <1>t, <2>1, <2>4, <2>5, <2>6 DEF TypeOK
<1>4. CASE OpenDense
  BY <1>4, <1>t, <1>r DEF OpenDense, Reading, Resolve, TypeOK, ReaderSet,
     DirSet
<1>5. CASE LoadFromManifest
  BY <1>5, <1>t DEF LoadFromManifest, Reading, TypeOK, ReaderSet
<1>6. CASE EndQuery
  BY <1>6, <1>t DEF EndQuery, TypeOK
<1> QED
  BY <1>1, <1>2, <1>3, <1>4, <1>5, <1>6 DEF Query

-----------------------------------------------------------------------------
\* A query that opens a lexical index leaves every directory that has one
\* alone, and never adds or takes a manifest or a dense payload.
LEMMA OpenLexicalIsHarmless ==
  ASSUME StoreInv, OpenLexical
  PROVE  /\ \A h \in Gen : dir[h] # None /\ dir[h].lex # None =>
                               dir'[h] = dir[h]
         /\ \A h \in Gen : dir[h] # None =>
                               /\ dir'[h] # None
                               /\ dir'[h].manifest = dir[h].manifest
                               /\ dir'[h].dense = dir[h].dense
         /\ \A h \in Gen : dir[h] = None /\ dir'[h] # None =>
                               dir'[h].manifest = None /\ h \in used
         /\ reader'.gen \in used
<1> USE DEF StoreInv
<1> DEFINE g == IF reader.deep THEN Resolve ELSE reader.gen
           found == IF dir[g] = None THEN NoFiles ELSE dir[g]
           lex == IF found.lex = None THEN EmptyIndex ELSE found.lex
<1>1. /\ dir' = [dir EXCEPT ![g] = [found EXCEPT !.lex = lex]]
      /\ reader' = [reader EXCEPT !.step = IF reader.deep THEN "dense"
                                                          ELSE "served",
                                  !.gen = g, !.lex = lex]
      /\ reader # None /\ g # None
  BY DEF OpenLexical, Reading
<1>2. g \in Gen /\ g \in used
  BY <1>1 DEF Resolve, TypeOK, ReaderSet, NamesAreUsed
<1>3. reader'.gen = g
  <2>1. reader \in ReaderSet
    BY <1>1 DEF TypeOK
  <2> HIDE DEF g, lex
  <2> QED
    BY <1>1, <2>1 DEF ReaderSet
<1>4. found \in DirSet /\ (dir[g] = None => found.manifest = None)
  BY <1>2 DEF TypeOK, NoFiles, DirSet
<1> HIDE DEF g
<1>5. /\ dir'[g].manifest = found.manifest
      /\ dir'[g].dense = found.dense
      /\ dir'[g].lex = lex
      /\ dir'[g] \in [lex : {lex}, dense : {found.dense},
                      manifest : {found.manifest}]
  BY <1>1, <1>2, <1>4 DEF TypeOK, DirSet
<1>6. dir[g] # None /\ dir[g].lex # None => dir'[g] = dir[g]
  BY <1>1, <1>2, <1>4, <1>5 DEF TypeOK, DirSet
<1>7. dir'[g] # None
  <2>1. [found EXCEPT !.lex = lex] \in DirSet
    BY <1>4 DEF DirSet, LexSet, EmptyIndex
  <2> QED
    BY <1>1, <1>2, <2>1, NoneIsNothing DEF TypeOK
<1>8. \A h \in Gen : h # g => dir'[h] = dir[h]
  BY <1>1, <1>2 DEF TypeOK
<1> QED
  BY <1>2, <1>3, <1>4, <1>5, <1>6, <1>7, <1>8

\* Names stay used: a directory appears under a name just given out, or
\* where a query re-creates one.
LEMMA NamesStep == ASSUME StoreInv, [Next]_vars PROVE NamesAreUsed'
<1> USE DEF StoreInv, TypeOK, NamesAreUsed, WriterSet, ReaderSet
<1>1. ASSUME NEW g \in Gen, NEW c \in Corpus, NEW semantic \in BOOLEAN,
             NEW v \in Schema, BeginPublish(g, c, semantic, v)
      PROVE  NamesAreUsed'
  BY <1>1 DEF BeginPublish
<1>2. CASE BuildLexical \/ BuildDense \/ WriteManifest
  BY <1>2 DEF BuildLexical, BuildDense, WriteManifest, Publishing
<1>3. CASE CarryDense
  BY <1>3 DEF CarryDense, Publishing
<1>4. CASE RefuseDowngrade \/ Flip \/ EndPublish \/ Abort
  BY <1>4 DEF RefuseDowngrade, Flip, EndPublish, Abort, Publishing
<1>5. ASSUME NEW g \in Gen, RemoveDir(g) PROVE NamesAreUsed'
  BY <1>5 DEF RemoveDir, Publishing
<1>6. ASSUME NEW g \in Gen, NEW f \in {"lex", "dense", "manifest"},
             RemoveFile(g, f)
      PROVE  NamesAreUsed'
  BY <1>6 DEF RemoveFile
<1>7. ASSUME NEW deep \in BOOLEAN, NEW v \in Schema, OpenQuery(deep, v)
      PROVE  NamesAreUsed'
  BY <1>7 DEF OpenQuery, Resolve
<1>8. CASE ReadManifest \/ OpenDense \/ LoadFromManifest \/ EndQuery
  <2>1. CASE ReadManifest
    BY <2>1 DEF ReadManifest, Reading
  <2>2. CASE OpenDense
    BY <2>2 DEF OpenDense, Reading
  <2>4. CASE LoadFromManifest
    BY <2>4 DEF LoadFromManifest, Reading
  <2>3. CASE EndQuery
    BY <2>3 DEF EndQuery, Reading
  <2> QED  BY <1>8, <2>1, <2>2, <2>3, <2>4
<1>9. CASE OpenLexical
  BY <1>9, OpenLexicalIsHarmless DEF OpenLexical
<1>10. CASE UNCHANGED vars
  BY <1>10 DEF vars
<1> QED
  BY <1>1, <1>2, <1>3, <1>4, <1>5, <1>6, <1>7, <1>8, <1>9, <1>10
     DEF Next, Publisher, Query

-----------------------------------------------------------------------------
\* What each step of a publish leaves in its directory is what the next one
\* relies on; the manifest it ends with binds the payloads.
LEMMA ManifestBinds ==
  ASSUME StoreInv, WriteManifest
  PROVE  Written(writer', dir'[writer.gen])
<1> USE DEF StoreInv
<1> DEFINE g == writer.gen
           d == dir[g]
           m == ManifestOf(writer, d.dense)
<1>1. /\ writer # None /\ writer \in WriterSet /\ writer.step = "manifest"
      /\ g \in Gen /\ writer.corpus \in [hash : Hash, docs : Docs]
  BY CorpusType DEF WriteManifest, Publishing, TypeOK, WriterSet
<1>2. /\ d # None /\ d \in DirSet
      /\ d.lex = [commit |-> g, docs |-> writer.corpus.docs]
      /\ d.dense # None => d.dense.hash = writer.corpus.hash
  BY <1>1 DEF PublishProtocol, Written, TypeOK
<1>3. /\ dir'[g] = [d EXCEPT !.manifest = m]
      /\ writer' = [writer EXCEPT !.step = "flip"]
  BY <1>1 DEF WriteManifest, TypeOK
<1>4. m \in ManifestSet
  BY <1>1, <1>2, FileTypes DEF DirSet
<1>5. /\ dir'[g].manifest = m /\ dir'[g].lex = d.lex
      /\ dir'[g].dense = d.dense /\ dir'[g] \in DirSet
  <2> HIDE DEF m, d
  <2> QED
    BY <1>2, <1>3, <1>4 DEF DirSet
<1>6. m # None /\ dir'[g] # None /\ d.lex # None /\ writer.corpus.docs # None
  <2>1. d.lex \in LexSet
    BY <1>1, FileTypes, <1>2
  <2> QED
    BY <1>1, <1>4, <1>5, <2>1, NoneIsNothing
<1>7. DocCount(dir'[g].lex) = Count[writer.corpus.docs]
  BY <1>2, <1>5, <1>6 DEF DocCount
<1>8. Bound(dir'[g])
  BY <1>2, <1>5, <1>6, <1>7 DEF Bound, DenseBound, ManifestOf
<1>9. dir'[g].manifest.schema = writer.schema
  BY <1>5 DEF ManifestOf
<1>10. writer'.step = "flip" /\ writer'.schema = writer.schema
  BY <1>1, <1>3 DEF WriterSet
<1> QED
  BY <1>5, <1>6, <1>8, <1>9, <1>10 DEF Written

\* A copied payload is of the corpus being published, and whole.
LEMMA CarriedPayload ==
  ASSUME StoreInv, DenseIsWhole, writer # None, Carries
  PROVE  /\ dir[writer.previous].dense \in DenseSet
         /\ dir[writer.previous].dense.hash = writer.corpus.hash
         /\ Count[dir[writer.previous].dense.docs] = Count[writer.corpus.docs]
  BY DEF StoreInv, TypeOK, WriterSet, DirSet, Carries, HasDense, HasManifest,
     DenseBound, DenseIsWhole

\* The publish protocol holds from step to step.
LEMMA ProtocolStep ==
  ASSUME StoreInv, DenseIsWhole, [Next]_vars PROVE PublishProtocol'
<1> USE DEF StoreInv
<1>t. /\ dir \in [Gen -> DirSet \union {None}]
      /\ current \in Gen \union {None} /\ writer \in WriterSet \union {None}
      /\ None \notin Gen /\ None \notin DirSet /\ None \notin LexSet
      /\ None \notin DenseSet
  BY NoneIsNothing DEF TypeOK
<1>w. writer # None => writer.gen \in Gen
  BY <1>t DEF WriterSet
<1>1. ASSUME NEW g \in Gen, NEW c \in Corpus, NEW semantic \in BOOLEAN,
             NEW v \in Schema, BeginPublish(g, c, semantic, v)
      PROVE  PublishProtocol'
  <2>1. EmptyIndex \in LexSet /\ [NoFiles EXCEPT !.lex = EmptyIndex] \in DirSet
    BY DEF NoFiles, DirSet, EmptyIndex, LexSet
  <2>2. /\ dir'[g] \in DirSet
        /\ dir'[g] = [NoFiles EXCEPT !.lex = EmptyIndex]
    BY <1>1, <1>t, <2>1 DEF BeginPublish
  <2>3. /\ dir'[g].lex = EmptyIndex /\ dir'[g].dense = None
        /\ dir'[g].manifest = None
    BY <2>2 DEF NoFiles
  <2>4. writer'.gen = g /\ writer'.step = "lexical" /\ writer'.doomed = {}
    BY <1>1 DEF BeginPublish
  <2>5. current' # g
    BY <1>1, <1>t DEF BeginPublish, NamesAreUsed
  <2> QED
    BY <1>t, <2>1, <2>2, <2>3, <2>4, <2>5 DEF PublishProtocol, Written
<1>2. CASE BuildLexical
  <2>1. writer # None /\ writer.step = "lexical"
    BY <1>2 DEF BuildLexical, Publishing
  <2>2. /\ writer.gen # current /\ writer.doomed = {}
        /\ dir[writer.gen] \in DirSet
        /\ dir[writer.gen].dense = None /\ dir[writer.gen].manifest = None
    BY <1>t, <1>w, <2>1 DEF PublishProtocol, Written
  <2>3. /\ writer'.gen = writer.gen /\ writer'.step = "dense"
        /\ writer'.doomed = {} /\ writer'.corpus = writer.corpus
        /\ current' = current
    BY <1>2, <1>t, <2>1, <2>2 DEF BuildLexical, WriterSet
  <2>4. /\ dir'[writer.gen] \in DirSet
        /\ dir'[writer.gen].lex = [commit |-> writer.gen,
                                   docs |-> writer.corpus.docs]
        /\ dir'[writer.gen].dense = None
        /\ dir'[writer.gen].manifest = None
    BY <1>2, <1>t, <1>w, <2>1, <2>2, FileTypes DEF BuildLexical, DirSet
  <2> QED
    BY <1>t, <2>1, <2>2, <2>3, <2>4, FileTypes DEF PublishProtocol, Written
<1>3. CASE BuildDense \/ CarryDense
  <2>1. writer # None /\ writer.step = "dense"
    BY <1>3 DEF BuildDense, CarryDense, Publishing
  <2>2. /\ writer.gen # current /\ writer.doomed = {}
        /\ dir[writer.gen] \in DirSet
        /\ dir[writer.gen].lex = [commit |-> writer.gen,
                                  docs |-> writer.corpus.docs]
        /\ dir[writer.gen].dense = None /\ dir[writer.gen].manifest = None
    BY <1>t, <1>w, <2>1 DEF PublishProtocol, Written
  <2>3. /\ writer'.gen = writer.gen /\ writer'.step = "manifest"
        /\ writer'.doomed = {} /\ writer'.corpus = writer.corpus
        /\ current' = current
    BY <1>3, <1>t, <2>1, <2>2 DEF BuildDense, CarryDense, WriterSet
  <2>4. PICK y \in DenseSet \union {None} :
            /\ dir'[writer.gen] = [dir[writer.gen] EXCEPT !.dense = y]
            /\ y # None => /\ y.hash = writer.corpus.hash
                           /\ Count[y.docs] = Count[writer.corpus.docs]
    <3>1. CASE BuildDense
      <4> DEFINE x == [hash |-> writer.corpus.hash,
                       docs |-> writer.corpus.docs]
      <4>1. dir'[writer.gen] = [dir[writer.gen] EXCEPT !.dense = x]
        BY <3>1, <1>t, <1>w, <2>1 DEF BuildDense
      <4>2. x \in DenseSet
        BY <2>1, FileTypes
      <4> QED
        BY <4>1, <4>2
    <3>2. CASE CarryDense /\ dir' = dir
      <4>1. dir'[writer.gen] = [dir[writer.gen] EXCEPT !.dense = None]
        BY <3>2, <2>2 DEF DirSet
      <4> QED
        BY <4>1
    <3>3. CASE CarryDense /\ dir' # dir
      <4>1. Carries /\ dir' = [dir EXCEPT ![writer.gen].dense =
                                              dir[writer.previous].dense]
        BY <3>3 DEF CarryDense
      <4>2. dir'[writer.gen] = [dir[writer.gen] EXCEPT !.dense =
                                    dir[writer.previous].dense]
        BY <4>1, <1>t, <1>w, <2>1
      <4> QED
        BY <4>1, <4>2, <2>1, CarriedPayload
    <3> QED
      BY <1>3, <3>1, <3>2, <3>3
  <2>5. /\ dir'[writer.gen] \in DirSet
        /\ dir'[writer.gen].lex = dir[writer.gen].lex
        /\ dir'[writer.gen].dense = y
        /\ dir'[writer.gen].manifest = None
    BY <2>2, <2>4 DEF DirSet
  <2>6. dir[writer.gen].lex \in LexSet
    BY <2>1, <2>2, FileTypes
  <2> QED
    BY <1>t, <2>1, <2>2, <2>3, <2>4, <2>5, <2>6 DEF PublishProtocol, Written
<1>4. CASE WriteManifest
  <2>1. /\ writer # None /\ writer.step = "manifest"
        /\ writer.gen # current /\ writer.doomed = {}
    BY <1>4 DEF WriteManifest, Publishing, PublishProtocol
  <2>2. /\ writer'.gen = writer.gen /\ writer'.step = "flip"
        /\ writer'.doomed = {} /\ current' = current
    BY <1>4, <1>t, <2>1 DEF WriteManifest, WriterSet
  <2> QED
    BY <1>4, <2>1, <2>2, ManifestBinds DEF PublishProtocol
<1>5. CASE Flip
  <2>1. writer # None /\ writer \in WriterSet
    BY <1>5, <1>t DEF Flip, Publishing
  <2>2. writer.gen \notin Superseded(writer.gen, current)
    BY <1>t, <1>w, <2>1 DEF Superseded, Retained
  <2>3. /\ writer'.gen = writer.gen /\ writer'.step = "prune"
        /\ writer'.doomed = Superseded(writer.gen, current)
        /\ current' = writer.gen
    <3> HIDE DEF StoreInv
    <3> QED
      BY <1>5, <2>1 DEF Flip, WriterSet
  <2> QED
    BY <2>2, <2>3 DEF PublishProtocol
<1>6. CASE RefuseDowngrade \/ EndPublish \/ Abort
  BY <1>6 DEF RefuseDowngrade, EndPublish, Abort, PublishProtocol
<1>7. ASSUME NEW g \in Gen, RemoveDir(g) PROVE PublishProtocol'
  BY <1>7, <1>t DEF RemoveDir, Publishing, PublishProtocol, WriterSet
<1>8. ASSUME NEW g \in Gen, NEW f \in {"lex", "dense", "manifest"},
             RemoveFile(g, f)
      PROVE  PublishProtocol'
  BY <1>8 DEF RemoveFile, Publishing, PublishProtocol
<1>9. CASE OpenLexical
  <2>1. writer # None /\ writer.step # "prune" =>
            dir'[writer.gen] = dir[writer.gen]
    BY <1>9, <1>w, OpenLexicalIsHarmless DEF PublishProtocol, Written
  <2>2. writer' = writer /\ current' = current
    BY <1>9 DEF OpenLexical
  <2> QED
    BY <2>1, <2>2 DEF PublishProtocol
<1>10. CASE UNCHANGED <<dir, current, writer>>
  BY <1>10 DEF PublishProtocol
<1> QED
  BY <1>1, <1>2, <1>3, <1>4, <1>5, <1>6, <1>7, <1>8, <1>9, <1>10
     DEF Next, Publisher, Query, vars, OpenQuery, ReadManifest, OpenDense,
     LoadFromManifest, EndQuery

\* A manifest claims all documents or none, by whatever publish it was
\* written and whatever is removed later.
LEMMA WholeStep ==
  ASSUME StoreInv, DenseIsWhole, [Next]_vars PROVE DenseIsWhole'
<1> USE DEF StoreInv, DenseIsWhole, HasManifest
<1>t. /\ dir \in [Gen -> DirSet \union {None}]
      /\ writer \in WriterSet \union {None}
      /\ None \notin Gen /\ None \notin DirSet
  BY NoneIsNothing DEF TypeOK
<1>w. writer # None => writer.gen \in Gen
  BY <1>t DEF WriterSet
<1>1. ASSUME NEW g \in Gen, NEW c \in Corpus, NEW semantic \in BOOLEAN,
             NEW v \in Schema, BeginPublish(g, c, semantic, v)
      PROVE  DenseIsWhole'
  <2>1. /\ dir'[g].manifest = None
        /\ \A h \in Gen : h # g => dir'[h] = dir[h]
    BY <1>1, <1>t DEF BeginPublish, NoFiles
  <2> QED
    BY <2>1
<1>2. CASE BuildLexical \/ BuildDense \/ CarryDense
  <2>1. /\ writer # None /\ dir[writer.gen] \in DirSet
        /\ dir[writer.gen].manifest = None
    BY <1>2, <1>t, <1>w DEF BuildLexical, BuildDense, CarryDense, Publishing,
       PublishProtocol, Written
  <2>2. /\ dir'[writer.gen].manifest = None
        /\ \A h \in Gen : h # writer.gen => dir'[h] = dir[h]
    BY <1>2, <1>t, <1>w, <2>1 DEF BuildLexical, BuildDense, CarryDense, DirSet
  <2> QED
    BY <2>2
<1>3. CASE WriteManifest
  <2>1. /\ writer # None /\ dir[writer.gen] \in DirSet
        /\ dir[writer.gen].dense # None =>
               Count[dir[writer.gen].dense.docs] = Count[writer.corpus.docs]
    BY <1>3, <1>t, <1>w DEF WriteManifest, Publishing, PublishProtocol, Written
  <2>2. dir'[writer.gen].manifest = ManifestOf(writer, dir[writer.gen].dense)
    BY <1>3, <1>t, <1>w, <2>1 DEF WriteManifest, DirSet
  <2>3. dir'[writer.gen].manifest.dense \in
            {0, dir'[writer.gen].manifest.chunks}
    BY <2>1, <2>2 DEF ManifestOf
  <2>4. \A h \in Gen : h # writer.gen => dir'[h] = dir[h]
    BY <1>3, <1>t DEF WriteManifest
  <2> QED
    BY <2>3, <2>4
<1>4. ASSUME NEW g \in Gen, NEW f \in {"lex", "dense", "manifest"},
             RemoveFile(g, f)
      PROVE  DenseIsWhole'
  <2>1. /\ dir'[g].manifest \in {dir[g].manifest, None}
        /\ dir[g] # None
        /\ \A h \in Gen : h # g => dir'[h] = dir[h]
    BY <1>4, <1>t DEF RemoveFile, DirSet
  <2> QED
    BY <2>1
<1>5. ASSUME NEW g \in Gen, RemoveDir(g) PROVE DenseIsWhole'
  BY <1>5, <1>t DEF RemoveDir
<1>6. CASE OpenLexical
  BY <1>6, OpenLexicalIsHarmless
<1>7. CASE UNCHANGED dir
  BY <1>7
<1> QED
  BY <1>1, <1>2, <1>3, <1>4, <1>5, <1>6, <1>7
     DEF Next, Publisher, Query, vars, RefuseDowngrade, Flip, EndPublish,
     Abort, OpenQuery, ReadManifest, OpenDense, LoadFromManifest, EndQuery

\* The view CURRENT gives changes in one way only: a publish flips it to a
\* complete directory of a schema that is not older.
LEMMA ViewStep ==
  ASSUME StoreInv, [Next]_vars
  PROVE  \/ /\ current' = current
            /\ current # None => dir'[current] = dir[current]
         \/ /\ writer # None /\ current' = writer.gen /\ dir' = dir
            /\ writer.gen \in Gen
            /\ dir[writer.gen] \in DirSet /\ Bound(dir[writer.gen])
            /\ current # None => dir[current].manifest.schema <=
                                     dir[writer.gen].manifest.schema
<1> USE DEF StoreInv
<1>t. /\ dir \in [Gen -> DirSet \union {None}]
      /\ current \in Gen \union {None} /\ writer \in WriterSet \union {None}
  BY DEF TypeOK
<1>c. current # None => dir[current] # None /\ dir[current].lex # None
  BY DEF CurrentIsComplete, Bound
<1>1. ASSUME NEW g \in Gen, NEW c \in Corpus, NEW semantic \in BOOLEAN,
             NEW v \in Schema, BeginPublish(g, c, semantic, v)
      PROVE  /\ current' = current
             /\ current # None => dir'[current] = dir[current]
  BY <1>1, <1>t DEF BeginPublish, NamesAreUsed
<1>2. CASE BuildLexical \/ BuildDense \/ CarryDense \/ WriteManifest
  <2>1. writer # None /\ writer.gen # current /\ current' = current
    BY <1>2 DEF BuildLexical, BuildDense, CarryDense, WriteManifest,
       Publishing, PublishProtocol
  <2>2. \A h \in Gen : h # writer.gen => dir'[h] = dir[h]
    BY <1>2, <1>t DEF BuildLexical, BuildDense, CarryDense, WriteManifest
  <2> QED
    BY <1>t, <2>1, <2>2
<1>3. CASE Flip
  <2>1. /\ writer # None /\ writer.step = "flip" /\ writer \in WriterSet
        /\ current' = writer.gen /\ dir' = dir /\ ~Downgrade
    BY <1>3, <1>t DEF Flip, Publishing
  <2>2. /\ writer.gen \in Gen /\ dir[writer.gen] \in DirSet
        /\ Bound(dir[writer.gen])
        /\ dir[writer.gen].manifest.schema = writer.schema
        /\ writer.schema \in Nat
    BY <2>1, <1>t, SchemaType DEF PublishProtocol, Written, WriterSet
  <2>3. ASSUME current # None
        PROVE  dir[current].manifest.schema <= writer.schema
    <3>1. /\ Resolve = current /\ HasManifest(current)
          /\ dir[current] \in DirSet
      BY <2>3, <1>t DEF CurrentIsComplete, Bound, Resolve, HasManifest
    <3>2. dir[current].manifest.schema \in Nat
      BY <3>1, SchemaType DEF HasManifest, DirSet, ManifestSet
    <3> QED
      BY <2>1, <2>2, <2>3, <3>1, <3>2 DEF Downgrade
  <2> QED
    BY <2>1, <2>2, <2>3
<1>4. ASSUME NEW g \in Gen, RemoveDir(g)
      PROVE  /\ current' = current
             /\ current # None => dir'[current] = dir[current]
  BY <1>4, <1>t DEF RemoveDir, Publishing, PublishProtocol
<1>5. ASSUME NEW g \in Gen, NEW f \in {"lex", "dense", "manifest"},
             RemoveFile(g, f)
      PROVE  /\ current' = current
             /\ current # None => dir'[current] = dir[current]
  BY <1>5, <1>t DEF RemoveFile, Publishing, PublishProtocol
<1>6. CASE OpenLexical
  BY <1>6, <1>t, <1>c, OpenLexicalIsHarmless DEF OpenLexical
<1>7. CASE UNCHANGED <<dir, current>>
  BY <1>7
<1> QED
  BY <1>1, <1>2, <1>3, <1>4, <1>5, <1>6, <1>7
     DEF Next, Publisher, Query, vars, RefuseDowngrade, EndPublish,
     Abort, OpenQuery, ReadManifest, OpenDense, LoadFromManifest, EndQuery

-----------------------------------------------------------------------------
\* The initial store is empty.
LEMMA StoreInit == Init => StoreInv /\ DenseIsWhole
  BY NoneIsNothing DEF Init, StoreInv, DenseIsWhole, TypeOK, NamesAreUsed,
     PublishProtocol, CurrentIsComplete, HasManifest

\* Every step keeps the invariant.
LEMMA StoreStep ==
  StoreInv /\ DenseIsWhole /\ [Next]_vars => StoreInv' /\ DenseIsWhole'
<1> SUFFICES ASSUME StoreInv, DenseIsWhole, [Next]_vars
             PROVE  StoreInv' /\ DenseIsWhole'
  OBVIOUS
<1>1. TypeOK'
  BY TypePublisher, TypeQuery DEF Next, StoreInv, TypeOK, vars
<1>2. CurrentIsComplete'
  <2>1. None \notin DirSet
    BY NoneIsNothing
  <2> QED
    BY <2>1, ViewStep DEF CurrentIsComplete, StoreInv
<1> QED
  BY <1>1, <1>2, NamesStep, ProtocolStep, WholeStep DEF StoreInv

\* The store's records are well typed in every state, whatever is killed
\* half-way (publish_source_lexical_generation and its readers).
THEOREM GenerationsTypeOK == Spec => []TypeOK
<1>1. StoreInv => TypeOK
  BY DEF StoreInv
<1> QED
  BY StoreInit, StoreStep, <1>1, PTL DEF Spec

\* CURRENT always names a complete generation: the pointer is renamed last,
\* names are fresh, a prune spares CURRENT, and opening an index re-creates
\* only what is missing (publish_hybrid_generation).
THEOREM CurrentStaysComplete == Spec => []CurrentIsComplete
<1>1. StoreInv => CurrentIsComplete
  BY DEF StoreInv
<1> QED
  BY StoreInit, StoreStep, <1>1, PTL DEF Spec

\* The directory protocol implements the atomically published view: what
\* CURRENT shows is replaced as a whole, by a complete generation, and never
\* by one of an older lexical schema.
THEOREM StoreImplementsView == Spec => ViewIsAtomic
<1> DEFINE seen == IF current = None THEN None ELSE dir[current]
<1>1. Init => View!Init
  BY DEF Init, View!Init
<1>2. StoreInv /\ [Next]_vars => [View!Publish]_seen
  <2> SUFFICES ASSUME StoreInv, [Next]_vars PROVE [View!Publish]_seen
    OBVIOUS
  <2>1. None \notin Gen /\ (current # None => dir[current] # None)
    BY NoneIsNothing DEF StoreInv, CurrentIsComplete
  <2>2. CASE /\ current' = current
             /\ current # None => dir'[current] = dir[current]
    BY <2>2
  <2>3. CASE /\ current' = writer.gen /\ dir' = dir /\ writer.gen \in Gen
             /\ dir[writer.gen] \in DirSet /\ Bound(dir[writer.gen])
             /\ current # None => dir[current].manifest.schema <=
                                      dir[writer.gen].manifest.schema
    <3>1. seen' = dir[writer.gen]
      BY <2>1, <2>3
    <3> QED
      BY <2>1, <2>3, <3>1 DEF View!Publish, DirSchema
  <2> QED
    BY <2>2, <2>3, ViewStep
<1> QED
  BY StoreInit, StoreStep, <1>1, <1>2, PTL DEF Spec, ViewIsAtomic, View!Spec

-----------------------------------------------------------------------------
\* Among some of the names 1..n one is the last.
LEMMA LastName ==
  ASSUME NEW n \in Nat, NEW S, S \subseteq 1..n, S # {}
  PROVE  \E g \in S : \A h \in S : h <= g
<1> DEFINE T == {n - g : g \in S}
<1>1. T \subseteq Nat /\ T # {}
  <2>1. \A g \in S : n - g \in Nat
    OBVIOUS
  <2>2. PICK g \in S : TRUE
    OBVIOUS
  <2>3. n - g \in T
    OBVIOUS
  <2> QED
    BY <2>1, <2>3
<1>2. PICK x \in T : \A y \in T : ~(<<y, x>> \in OpToRel(<, Nat))
  <2> HIDE DEF T
  <2> QED BY <1>1, NatLessThanWellFounded, WFMin, Zenon
<1>3. \A y \in T : ~(y < x)
  BY <1>1, <1>2 DEF OpToRel
<1>4. PICK g \in S : x = n - g
  OBVIOUS
<1>5. ASSUME NEW h \in S PROVE h <= g
  <2>1. n - h \in T OBVIOUS
  <2>2. ~(n - h < n - g) BY <2>1, <1>3, <1>4
  <2> QED BY <2>2
<1> QED BY <1>5

\* Only the prune takes a usable dense generation away, and only a doomed one.
LEMMA DenseKept ==
  ASSUME StoreInv, [Next]_vars, NEW h \in Gen, HasDense(h),
         Publishing("prune") => h \notin writer.doomed
  PROVE  HasDense(h)'
<1> USE DEF StoreInv
<1>t. /\ dir \in [Gen -> DirSet \union {None}]
      /\ writer \in WriterSet \union {None}
      /\ dir[h] # None /\ dir[h].manifest # None
  BY DEF TypeOK, HasDense, HasManifest
<1>s. dir'[h] = dir[h] => HasDense(h)'
  BY DEF HasDense, HasManifest, DenseBound
<1>1. ASSUME NEW g \in Gen, NEW c \in Corpus, NEW semantic \in BOOLEAN,
             NEW v \in Schema, BeginPublish(g, c, semantic, v)
      PROVE  dir'[h] = dir[h]
  BY <1>1, <1>t DEF BeginPublish, NamesAreUsed
<1>2. CASE BuildLexical \/ BuildDense \/ CarryDense \/ WriteManifest
  <2>1. h # writer.gen
    BY <1>2, <1>t DEF BuildLexical, BuildDense, CarryDense, WriteManifest,
       Publishing, PublishProtocol, Written
  <2> QED
    BY <1>2, <1>t, <1>s, <2>1
       DEF BuildLexical, BuildDense, CarryDense, WriteManifest
<1>3. ASSUME NEW g \in Gen, RemoveDir(g) PROVE dir'[h] = dir[h]
  BY <1>3, <1>t DEF RemoveDir
<1>4. ASSUME NEW g \in Gen, NEW f \in {"lex", "dense", "manifest"},
             RemoveFile(g, f)
      PROVE  dir'[h] = dir[h]
  BY <1>4, <1>t DEF RemoveFile
<1>5. CASE OpenLexical
  BY <1>5, <1>t, OpenLexicalIsHarmless DEF HasDense, HasManifest, DenseBound
<1>6. CASE UNCHANGED dir
  BY <1>6, <1>s
<1> QED
  BY <1>s, <1>1, <1>2, <1>3, <1>4, <1>5, <1>6
     DEF Next, Publisher, Query, vars, RefuseDowngrade, Flip, EndPublish,
     Abort, OpenQuery, ReadManifest, OpenDense, LoadFromManifest, EndQuery

\* While a prune runs no directory becomes a usable dense generation.
LEMMA NoNewDense ==
  ASSUME StoreInv, [Next]_vars, NEW h \in Gen, HasDense(h)',
         Publishing("prune")
  PROVE  HasDense(h)
<1> USE DEF StoreInv
<1>t. dir \in [Gen -> DirSet \union {None}]
  BY DEF TypeOK
<1>d. /\ dir'[h] # None /\ dir'[h].manifest # None
      /\ dir'[h].manifest.dense > 0 /\ dir'[h].dense # None
      /\ dir'[h].dense.hash = dir'[h].manifest.hash
      /\ Count[dir'[h].dense.docs] = dir'[h].manifest.dense
  BY DEF HasDense, HasManifest, DenseBound
<1>s. dir[h] # None /\ dir'[h].manifest = dir[h].manifest
                    /\ dir'[h].dense = dir[h].dense => HasDense(h)
  BY <1>d DEF HasDense, HasManifest, DenseBound
<1>1. ASSUME NEW g \in Gen, RemoveDir(g) PROVE HasDense(h)
  BY <1>1, <1>t, <1>d, <1>s DEF RemoveDir
<1>2. ASSUME NEW g \in Gen, NEW f \in {"lex", "dense", "manifest"},
             RemoveFile(g, f)
      PROVE  HasDense(h)
  <2>1. CASE g # h
    BY <1>2, <1>t, <1>d, <1>s, <2>1 DEF RemoveFile
  <2>2. CASE g = h
    <3>1. dir[h] \in DirSet /\ dir'[h] = [dir[h] EXCEPT ![f] = None]
      BY <1>2, <1>t, <2>2 DEF RemoveFile
    <3>2. CASE f = "lex"
      BY <3>1, <3>2, <1>2, <1>s, <2>2 DEF DirSet, RemoveFile
    <3>3. CASE f # "lex"
      BY <3>1, <3>3, <1>d DEF DirSet
    <3> QED
      BY <3>2, <3>3
  <2> QED
    BY <2>1, <2>2
<1>3. CASE OpenLexical
  BY <1>3, <1>d, <1>s, OpenLexicalIsHarmless
<1>4. CASE UNCHANGED dir
  BY <1>4, <1>d, <1>s
<1> QED
  BY <1>1, <1>2, <1>3, <1>4
     DEF Next, Publisher, Query, vars, Publishing, BeginPublish, BuildLexical,
     BuildDense, CarryDense, WriteManifest, RefuseDowngrade, Flip, EndPublish,
     Abort, OpenQuery, ReadManifest, OpenDense, LoadFromManifest, EndQuery

\* The retention rule dooms no generation unless a usable dense one stays.
LEMMA RetentionSpares ==
  ASSUME StoreInv, NEW keep \in Gen, NEW h \in Gen, HasDense(h)
  PROVE  \E g \in Gen \ Superseded(keep, current) : HasDense(g)
<1> DEFINE pair == {keep, current} \ {None}
           S == {g \in Gen : HasDense(g)}
<1>1. MaxGen \in Nat /\ S \subseteq 1..MaxGen /\ S # {}
  BY MaxGenType DEF Gen
<1>2. PICK last \in S : \A g \in S : g <= last
  <2> HIDE DEF S
  <2> QED
    BY <1>1, LastName
<1>3. pair \subseteq Gen
  BY DEF StoreInv, TypeOK
<1>4. CASE \E g \in pair : HasDense(g)
  BY <1>3, <1>4 DEF Superseded, Retained
<1>5. CASE ~ \E g \in pair : HasDense(g)
  <2>1. last \in Retained(keep, current)
    BY <1>2, <1>5 DEF Retained
  <2> QED
    BY <1>2, <2>1 DEF Superseded
<1> QED
  BY <1>4, <1>5

\* A prune never dooms all usable dense generations.
LEMMA SparedStep ==
  ASSUME StoreInv, DenseIsSpared, [Next]_vars PROVE DenseIsSpared'
<1> SUFFICES ASSUME Publishing("prune")', NEW h \in Gen, HasDense(h)'
             PROVE  \E g \in Gen : g \notin writer'.doomed /\ HasDense(g)'
  BY DEF DenseIsSpared
<1>t. writer \in WriterSet \union {None}
  BY DEF StoreInv, TypeOK
<1>1. CASE Flip
  <2>1. /\ writer # None /\ writer \in WriterSet /\ writer.gen \in Gen
        /\ dir' = dir
    BY <1>1, <1>t DEF Flip, Publishing, WriterSet
  <2>2. writer'.doomed = Superseded(writer.gen, current)
    BY <1>1, <2>1 DEF Flip, WriterSet
  <2>3. \A g \in Gen : HasDense(g)' <=> HasDense(g)
    BY <2>1 DEF HasDense, HasManifest, DenseBound
  <2> QED
    BY <2>1, <2>2, <2>3, RetentionSpares
<1>2. CASE ~Flip
  <2>1. Publishing("prune") /\ writer'.doomed \subseteq writer.doomed
    BY <1>2, <1>t DEF Next, Publisher, Query, vars, Publishing, WriterSet,
       BeginPublish, BuildLexical, BuildDense, CarryDense, WriteManifest,
       RefuseDowngrade, EndPublish, Abort, RemoveDir, RemoveFile, OpenQuery,
       ReadManifest, OpenLexical, OpenDense, LoadFromManifest, EndQuery
  <2>2. HasDense(h)
    BY <2>1, NoNewDense
  <2>3. PICK g \in Gen : g \notin writer.doomed /\ HasDense(g)
    BY <2>1, <2>2 DEF DenseIsSpared
  <2> QED
    BY <2>1, <2>3, DenseKept
<1> QED
  BY <1>1, <1>2

\* The last usable dense generation survives every publish, prune and kill,
\* whatever order the names are in (prune_unreferenced_hybrid_generations).
THEOREM LastDenseSurvives == Spec => DenseSurvives
<1>1. Init => DenseIsSpared
  BY DEF Init, DenseIsSpared, Publishing
<1>2. StoreInv /\ DenseIsSpared /\ [Next]_vars =>
          ((\E g \in Gen : HasDense(g)) => (\E g \in Gen : HasDense(g))')
  <2> SUFFICES ASSUME StoreInv, DenseIsSpared, [Next]_vars,
                      NEW h \in Gen, HasDense(h)
               PROVE  \E g \in Gen : HasDense(g)'
    OBVIOUS
  <2>1. CASE Publishing("prune")
    BY <2>1, DenseKept DEF DenseIsSpared
  <2>2. CASE ~Publishing("prune")
    BY <2>2, DenseKept
  <2> QED
    BY <2>1, <2>2
<1>3. StoreInv /\ DenseIsSpared /\ [Next]_vars => DenseIsSpared'
  BY SparedStep
<1> QED
  BY StoreInit, StoreStep, <1>1, <1>2, <1>3, PTL DEF Spec, DenseSurvives

-----------------------------------------------------------------------------
\* What a prune leaves: CURRENT, its predecessor and, when neither is dense,
\* the one usable dense generation k.
Kept(p, k) ==
    /\ \A g \in Gen \ writer.doomed : HasManifest(g) => g \in {current, p, k}
    /\ \/ k = p
       \/ /\ HasDense(k) /\ k \notin writer.doomed
          /\ ~HasDense(current) /\ ~HasDense(p)

RetentionInv == Publishing("prune") => \E p, k \in Gen : Kept(p, k)

\* The retention rule keeps that much.
LEMMA RetentionKeeps ==
  ASSUME StoreInv, NEW keep \in Gen
  PROVE  \E p, k \in Gen :
             /\ \A g \in Gen \ Superseded(keep, current) :
                    HasManifest(g) => g \in {keep, p, k}
             /\ \/ k = p
                \/ /\ HasDense(k) /\ k \notin Superseded(keep, current)
                   /\ ~HasDense(keep) /\ ~HasDense(p)
<1> DEFINE p == IF current = None THEN keep ELSE current
           pair == {keep, current} \ {None}
           last == {g \in Gen : HasDense(g) /\ \A h \in Gen : HasDense(h) => h <= g}
<1>1. p \in Gen /\ pair = {keep, p}
  BY NoneIsNothing DEF StoreInv, TypeOK
<1>2. \A g \in Gen \ Superseded(keep, current) :
          HasManifest(g) => g \in Retained(keep, current)
  BY DEF Superseded
<1>3. \A g, h \in last : g = h
  BY MaxGenType DEF Gen
<1>4. Retained(keep, current) =
          pair \union IF \E g \in pair : HasDense(g) THEN {} ELSE last
  BY DEF Retained
<1>5. last \subseteq Gen /\ \A k \in last : HasDense(k)
  OBVIOUS
<1> HIDE DEF p, pair, last
<1>6. CASE (\E g \in pair : HasDense(g)) \/ last = {}
  <2>1. Retained(keep, current) = {keep, p}
    BY <1>1, <1>4, <1>6
  <2> QED
    BY <1>1, <1>2, <2>1
<1>7. CASE ~(\E g \in pair : HasDense(g)) /\ last # {}
  <2>1. PICK k \in last : TRUE
    BY <1>7
  <2>2. last = {k}
    BY <1>3, <2>1
  <2>3. Retained(keep, current) = {keep, p, k}
    BY <1>1, <1>4, <1>7, <2>2
  <2>4. k \in Gen /\ HasDense(k) /\ k \notin Superseded(keep, current)
    BY <1>5, <2>1, <2>3 DEF Superseded
  <2>5. ~HasDense(keep) /\ ~HasDense(p)
    BY <1>1, <1>7
  <2> QED
    BY <1>1, <1>2, <2>3, <2>4, <2>5
<1> QED
  BY <1>6, <1>7

\* While a prune runs no manifest appears, and a name leaves the doomed with
\* its directory.
LEMMA PruneSteps ==
  ASSUME StoreInv, [Next]_vars, Publishing("prune")', ~Flip
  PROVE  /\ Publishing("prune") /\ current' = current
         /\ writer'.doomed \subseteq writer.doomed
         /\ \A g \in Gen : HasManifest(g)' =>
                HasManifest(g) /\ (g \in writer.doomed => g \in writer'.doomed)
<1>t. /\ writer \in WriterSet \union {None}
      /\ dir \in [Gen -> DirSet \union {None}]
  BY DEF StoreInv, TypeOK
<1>1. /\ Publishing("prune") /\ current' = current
      /\ writer'.doomed \subseteq writer.doomed
  BY <1>t DEF Next, Publisher, Query, vars, Publishing, WriterSet,
     BeginPublish, BuildLexical, BuildDense, CarryDense, WriteManifest,
     RefuseDowngrade, EndPublish, Abort, RemoveDir, RemoveFile, OpenQuery,
     ReadManifest, OpenLexical, OpenDense, LoadFromManifest, EndQuery
<1>2. ASSUME NEW g \in Gen, HasManifest(g)'
      PROVE  HasManifest(g) /\ (g \in writer.doomed => g \in writer'.doomed)
  <2>m. dir'[g] # None /\ dir'[g].manifest # None
    BY <1>2 DEF HasManifest
  <2>1. ASSUME NEW h \in Gen, RemoveDir(h)
        PROVE  HasManifest(g) /\ (g \in writer.doomed => g \in writer'.doomed)
    <3>1. writer # None /\ writer'.doomed = writer.doomed \ {h}
      BY <1>t, <2>1 DEF RemoveDir, Publishing, WriterSet
    <3>2. g # h
      BY <1>t, <2>1, <2>m DEF RemoveDir
    <3> QED
      BY <1>t, <2>1, <2>m, <3>1, <3>2 DEF RemoveDir, HasManifest
  <2>2. ASSUME NEW h \in Gen, NEW f \in {"lex", "dense", "manifest"},
               RemoveFile(h, f)
        PROVE  HasManifest(g) /\ (g \in writer.doomed => g \in writer'.doomed)
    <3>1. dir[h] \in DirSet /\ writer' = writer
          /\ dir' = [dir EXCEPT ![h][f] = None]
      BY <1>t, <2>2 DEF RemoveFile
    <3>2. CASE g # h
      BY <1>t, <2>m, <3>1, <3>2 DEF HasManifest
    <3>3. CASE g = h
      <4>1. dir[g] \in DirSet /\ dir'[g] = [dir[g] EXCEPT ![f] = None]
        BY <1>t, <3>1, <3>3
      <4>2. f # "manifest"
        BY <2>m, <4>1 DEF DirSet
      <4>3. dir'[g].manifest = dir[g].manifest
        BY <4>1, <4>2 DEF DirSet
      <4> QED
        BY <2>m, <3>1, <4>1, <4>3, NoneIsNothing DEF HasManifest
    <3> QED
      BY <3>2, <3>3
  <2>3. CASE OpenLexical
    <3>1. writer' = writer
      BY <2>3 DEF OpenLexical
    <3> QED
      BY <2>3, <2>m, <3>1, OpenLexicalIsHarmless DEF HasManifest
  <2>4. CASE dir' = dir /\ writer' = writer
    BY <2>4, <2>m DEF HasManifest
  <2> QED
    BY <1>1, <2>1, <2>2, <2>3, <2>4
       DEF Next, Publisher, Query, vars, Publishing, BeginPublish, BuildLexical,
       BuildDense, CarryDense, WriteManifest, RefuseDowngrade, Flip, EndPublish,
       Abort, OpenQuery, ReadManifest, OpenDense, LoadFromManifest, EndQuery
<1> QED
  BY <1>1, <1>2

\* What a prune leaves does not grow while it runs.
LEMMA RetentionStep ==
  ASSUME StoreInv, RetentionInv, [Next]_vars PROVE RetentionInv'
<1> SUFFICES ASSUME Publishing("prune")'
             PROVE  \E p, k \in Gen : Kept(p, k)'
  BY DEF RetentionInv
<1>t. writer \in WriterSet \union {None} /\ current \in Gen \union {None}
  BY DEF StoreInv, TypeOK
<1>1. CASE Flip
  <2>1. /\ writer # None /\ writer.gen \in Gen
        /\ dir' = dir /\ current' = writer.gen
        /\ writer'.doomed = Superseded(writer.gen, current)
    BY <1>1, <1>t DEF Flip, Publishing, WriterSet
  <2>2. /\ \A g \in Gen : HasDense(g)' <=> HasDense(g)
        /\ \A g \in Gen : HasManifest(g)' <=> HasManifest(g)
    <3>1. \A g \in Gen : HasManifest(g)' <=> HasManifest(g)
      BY <2>1 DEF HasManifest
    <3>2. \A g \in Gen : HasDense(g)' <=> HasDense(g)
      BY <2>1, <3>1 DEF HasDense, DenseBound
    <3> QED
      BY <3>1, <3>2
  <2>3. PICK p, k \in Gen :
            /\ \A g \in Gen \ Superseded(writer.gen, current) :
                   HasManifest(g) => g \in {writer.gen, p, k}
            /\ \/ k = p
               \/ /\ HasDense(k) /\ k \notin Superseded(writer.gen, current)
                  /\ ~HasDense(writer.gen) /\ ~HasDense(p)
    BY <2>1, RetentionKeeps
  <2>4. HasDense(current)' => HasDense(writer.gen)
    BY <2>1 DEF HasDense, HasManifest, DenseBound
  <2>5. Kept(p, k)'
    BY <2>1, <2>2, <2>3, <2>4 DEF Kept
  <2> QED
    BY <2>5
<1>2. CASE ~Flip
  <2>1. /\ Publishing("prune") /\ current' = current
        /\ writer'.doomed \subseteq writer.doomed
        /\ \A g \in Gen : HasManifest(g)' =>
               HasManifest(g) /\ (g \in writer.doomed => g \in writer'.doomed)
    BY <1>2, PruneSteps
  <2>2. PICK p, k \in Gen : Kept(p, k)
    BY <2>1 DEF RetentionInv
  <2>3. current \in Gen
    BY <2>1, <1>t DEF StoreInv, PublishProtocol, Publishing, WriterSet
  <2>4. \A g \in Gen : ~HasDense(g) => ~HasDense(g)'
    BY <2>1, NoNewDense
  <2>5. k \notin writer.doomed /\ HasDense(k) => HasDense(k)'
    BY <2>1, DenseKept
  <2>6. \A g \in Gen \ writer'.doomed : HasManifest(g)' => g \in {current', p, k}
    BY <2>1, <2>2 DEF Kept
  <2>7. \/ k = p
        \/ /\ HasDense(k)' /\ k \notin writer'.doomed
           /\ ~HasDense(current)' /\ ~HasDense(p)'
    <3>1. HasDense(current)' => HasDense(current)
      BY <2>1, <2>3, <2>4 DEF HasDense, HasManifest, DenseBound
    <3> QED
      BY <2>1, <2>2, <2>4, <2>5, <3>1 DEF Kept
  <2>8. Kept(p, k)'
    BY <2>6, <2>7 DEF Kept
  <2> QED
    BY <2>8
<1> QED
  BY <1>1, <1>2

\* Sizes of the small sets.
LEMMA SmallSets ==
  /\ \A a, b : IsFiniteSet({a, b}) /\ Cardinality({a, b}) <= 2
  /\ \A a, b, c : /\ IsFiniteSet({a, b, c})
                  /\ a # b /\ b # c /\ a # c => Cardinality({a, b, c}) = 3
<1>1. ASSUME NEW a, NEW b
      PROVE  /\ IsFiniteSet({a, b}) /\ Cardinality({a, b}) \in Nat
             /\ Cardinality({a, b}) = IF a = b THEN 1 ELSE 2
  <2>1. IsFiniteSet({a}) /\ Cardinality({a}) = 1
    BY FS_Singleton
  <2>2. {a, b} = {a} \union {b}
    OBVIOUS
  <2> QED
    BY <2>1, <2>2, FS_AddElement
<1>2. ASSUME NEW a, NEW b, NEW c
      PROVE  /\ IsFiniteSet({a, b, c})
             /\ a # b /\ b # c /\ a # c => Cardinality({a, b, c}) = 3
  <2>1. {a, b, c} = {a, b} \union {c}
    OBVIOUS
  <2>2. IsFiniteSet({a, b}) /\ (a # b => Cardinality({a, b}) = 2)
    BY <1>1
  <2>3. /\ IsFiniteSet({a, b} \union {c})
        /\ c \notin {a, b} =>
               Cardinality({a, b} \union {c}) = Cardinality({a, b}) + 1
    BY <2>2, FS_AddElement
  <2>4. a # b /\ b # c /\ a # c => Cardinality({a, b} \union {c}) = 3
    BY <2>2, <2>3
  <2> QED
    BY <2>1, <2>3, <2>4
<1>3. ASSUME NEW a, NEW b PROVE IsFiniteSet({a, b}) /\ Cardinality({a, b}) <= 2
  <2>1. IsFiniteSet({a, b}) /\ Cardinality({a, b}) \in {1, 2}
    BY <1>1
  <2> QED
    BY <2>1
<1> QED
  BY <1>2, <1>3

\* After a prune at most two complete generations are left, or three of which
\* one is dense, for any number of publishes, kills and half-done prunes before
\* it (prune_unreferenced_hybrid_generations).
THEOREM RetentionIsBounded == Spec => []DiskIsBounded
<1>1. Init => RetentionInv
  BY DEF Init, RetentionInv, Publishing
<1>2. StoreInv /\ RetentionInv => DiskIsBounded
  <2> SUFFICES ASSUME StoreInv, RetentionInv, Publishing("prune"), writer.doomed = {}
               PROVE  \/ Cardinality({g \in Gen : HasManifest(g)}) <= 2
                      \/ /\ Cardinality({g \in Gen : HasManifest(g)}) = 3
                         /\ Cardinality({g \in Gen : HasDense(g)}) = 1
    BY DEF DiskIsBounded
  <2> DEFINE M == {g \in Gen : HasManifest(g)}
             D == {g \in Gen : HasDense(g)}
  <2>1. PICK p, k \in Gen : Kept(p, k)
    BY DEF RetentionInv
  <2>2. M \subseteq {current, p, k} /\ D \subseteq M
    BY <2>1 DEF Kept, HasDense
  <2>3. \/ k = p
        \/ k \in D /\ current \notin D /\ p \notin D
    BY <2>1 DEF Kept
  <2> HIDE DEF M, D
  <2>4. CASE \E a, b : M \subseteq {a, b}
    <3>1. PICK a, b : M \subseteq {a, b}
      BY <2>4
    <3>2. IsFiniteSet({a, b}) /\ Cardinality({a, b}) <= 2
      BY SmallSets
    <3>3. /\ Cardinality(M) \in Nat /\ Cardinality({a, b}) \in Nat
          /\ Cardinality(M) <= Cardinality({a, b})
      BY <3>1, <3>2, FS_Subset, FS_CardinalityType
    <3>4. Cardinality(M) <= 2
      BY <3>2, <3>3
    <3> QED
      BY <3>4 DEF M
  <2>5. CASE ~\E a, b : M \subseteq {a, b}
    <3>1. /\ ~(M \subseteq {current, p}) /\ ~(M \subseteq {current, k})
          /\ ~(M \subseteq {p, k})
      BY <2>5
    <3>2. M = {current, p, k} /\ current # p /\ p # k /\ current # k
      BY <2>2, <3>1
    <3>3. D = {k}
      BY <2>2, <2>3, <3>2
    <3>4. Cardinality(M) = 3
      BY <3>2, SmallSets
    <3>5. Cardinality(D) = 1
      BY <3>3, FS_Singleton
    <3> QED
      BY <3>4, <3>5 DEF M, D
  <2> QED
    BY <2>4, <2>5
<1>3. StoreInv /\ RetentionInv /\ [Next]_vars => RetentionInv'
  BY RetentionStep
<1> QED
  BY StoreInit, StoreStep, <1>1, <1>2, <1>3, PTL DEF Spec

-----------------------------------------------------------------------------
\* A deep query answers from what it opened, and load_from_manifest lets it
\* answer from a committed index only.
LEMMA ReaderStep ==
  ASSUME StoreInv, DenseIsWhole, ReaderHolds, DeepFailsClosed, [Next]_vars
  PROVE  ReaderHolds' /\ DeepFailsClosed'
<1> USE DEF StoreInv, ReaderHolds, DeepFailsClosed, Reading
<1>t. /\ dir \in [Gen -> DirSet \union {None}]
      /\ reader \in ReaderSet \union {None}
      /\ None \notin DirSet /\ None \notin LexSet /\ None \notin Gen
  BY NoneIsNothing DEF TypeOK
<1>1. ASSUME NEW deep \in BOOLEAN, NEW v \in Schema, OpenQuery(deep, v)
      PROVE  ReaderHolds' /\ DeepFailsClosed'
  BY <1>1 DEF OpenQuery
<1>2. CASE ReadManifest
  BY <1>2, <1>t DEF ReadManifest, ReaderSet
<1>3. CASE OpenLexical
  <2> DEFINE g == IF reader.deep THEN Resolve ELSE reader.gen
             found == IF dir[g] = None THEN NoFiles ELSE dir[g]
             lex == IF found.lex = None THEN EmptyIndex ELSE found.lex
  <2>1. lex # None
    BY <1>t DEF EmptyIndex, LexSet
  <2>2. /\ reader \in ReaderSet
        /\ reader' = [reader EXCEPT !.step = IF reader.deep THEN "dense"
                                                            ELSE "served",
                                    !.gen = g, !.lex = lex]
    BY <1>3, <1>t DEF OpenLexical
  <2> HIDE DEF g, lex
  <2>3. /\ reader'.step = IF reader.deep THEN "dense" ELSE "served"
        /\ reader'.deep = reader.deep /\ reader'.lex = lex
    BY <2>2 DEF ReaderSet
  <2> QED
    BY <2>1, <2>3
<1>4. CASE OpenDense
  BY <1>4, <1>t DEF OpenDense, ReaderSet
<1>5. CASE LoadFromManifest
  <2> DEFINE d == dir[reader.gen]
  <2>1. /\ reader # None /\ reader.step = "bind" /\ reader \in ReaderSet
        /\ reader.lex \in LexSet /\ reader.dense \in DenseSet
        /\ reader.gen \in Gen
    BY <1>5, <1>t DEF LoadFromManifest, ReaderSet
  <2>2. CASE reader' = None
    BY <2>2
  <2>3. CASE reader' # None
    <3>1. /\ d # None /\ d.manifest # None /\ d \in DirSet
          /\ ValidateBindings(d.manifest, reader.lex, reader.dense)
          /\ reader' = [reader EXCEPT !.step = "served"]
      BY <1>5, <1>t, <2>1, <2>3 DEF LoadFromManifest, ValidateBindings
    <3>2. d.manifest \in ManifestSet /\ HasManifest(reader.gen)
      BY <3>1 DEF DirSet, HasManifest
    <3>3. /\ d.manifest.commit = reader.lex.commit
          /\ d.manifest.commit \in Gen
          /\ d.manifest.dense = Count[reader.dense.docs]
          /\ d.manifest.dense > 0
          /\ d.manifest.chunks = DocCount(reader.lex)
      BY <3>1, <3>2 DEF ValidateBindings, ManifestSet
    <3>4. d.manifest.dense = d.manifest.chunks
      BY <2>1, <3>2, <3>3 DEF DenseIsWhole
    <3>5. Count[reader.lex.docs] = Count[reader.dense.docs]
      BY <3>3, <3>4 DEF DocCount
    <3>6. reader'.lex = reader.lex /\ reader'.dense = reader.dense
      BY <2>1, <3>1 DEF ReaderSet
    <3>7. reader.lex # None /\ reader.dense # None
      BY <2>1, NoneIsNothing
    <3> QED
      BY <1>t, <3>3, <3>5, <3>6, <3>7
  <2> QED
    BY <2>2, <2>3
<1>6. CASE EndQuery
  BY <1>6 DEF EndQuery
<1>7. CASE UNCHANGED reader
  BY <1>7
<1> QED
  BY <1>1, <1>2, <1>3, <1>4, <1>5, <1>6, <1>7
     DEF Next, Publisher, Query, vars, BeginPublish, BuildLexical, BuildDense,
     CarryDense, WriteManifest, RefuseDowngrade, Flip, RemoveDir, RemoveFile,
     EndPublish, Abort

\* A deep query raced by any number of publishes and prunes answers from a
\* committed lexical index with as many vectors as documents, or fails
\* (HybridIndex::load_from_manifest, validate_bindings).
THEOREM DeepQueriesFailClosed == Spec => []DeepFailsClosed
<1>1. Init => ReaderHolds /\ DeepFailsClosed
  BY DEF Init, ReaderHolds, DeepFailsClosed, Reading
<1>2. StoreInv /\ DenseIsWhole /\ ReaderHolds /\ DeepFailsClosed /\ [Next]_vars
          => ReaderHolds' /\ DeepFailsClosed'
  BY ReaderStep
<1> QED
  BY StoreInit, StoreStep, <1>1, <1>2, PTL DEF Spec
-----------------------------------------------------------------------------
\* An index was committed where it lies, or is the empty one opening made.
LexIsOwn(g, lex) == lex = None \/ lex = EmptyIndex \/ lex.commit = g

\* A manifest names the commit of the directory it was written into.
FilesAreOwn ==
    \A g \in Gen : dir[g] # None =>
        /\ LexIsOwn(g, dir[g].lex)
        /\ dir[g].manifest # None => dir[g].manifest.commit = g

\* A query reads a directory that was published, not one being written, and
\* a lexical one keeps to the directory it read its manifest in.
ReaderIsOwn ==
    reader # None =>
        /\ writer # None /\ writer.step # "prune" => writer.gen # reader.gen
        /\ ~reader.deep =>
               /\ reader.step \in {"manifest", "lexical", "served"}
               /\ reader.step \in {"lexical", "served"} =>
                      reader.manifest # None /\ reader.manifest.commit = reader.gen

OwnInv == FilesAreOwn /\ ReaderIsOwn /\ LexicalServesItsManifest

\* No step puts a file into a directory it does not belong to.
LEMMA FilesStep ==
  ASSUME StoreInv, FilesAreOwn, [Next]_vars PROVE FilesAreOwn'
<1> USE DEF StoreInv
<1>t. /\ dir \in [Gen -> DirSet \union {None}]
      /\ writer \in WriterSet \union {None}
      /\ reader \in ReaderSet \union {None}
      /\ current \in Gen \union {None}
  BY DEF TypeOK
<1>w. writer # None /\ writer.step # "prune" =>
          writer.gen \in Gen /\ dir[writer.gen] \in DirSet
  BY <1>t DEF PublishProtocol, Written, WriterSet
<1>1. ASSUME NEW g \in Gen, NEW c \in Corpus, NEW semantic \in BOOLEAN,
             NEW v \in Schema, BeginPublish(g, c, semantic, v)
      PROVE  FilesAreOwn'
  BY <1>1, <1>t DEF BeginPublish, FilesAreOwn, LexIsOwn, NoFiles
<1>x. ASSUME writer # None, writer.step # "prune",
             \A h \in Gen : h # writer.gen => dir'[h] = dir[h],
             LexIsOwn(writer.gen, dir'[writer.gen].lex),
             \/ dir'[writer.gen].manifest = dir[writer.gen].manifest
             \/ dir'[writer.gen].manifest.commit = writer.gen
      PROVE  FilesAreOwn'
  <2>1. dir[writer.gen] # None /\ writer.gen \in Gen
    BY <1>w, <1>x, NoneIsNothing
  <2> QED
    BY <1>x, <2>1 DEF FilesAreOwn, LexIsOwn
<1>2. CASE BuildLexical
  <2>1. dir'[writer.gen] = [dir[writer.gen] EXCEPT !.lex =
                              [commit |-> writer.gen,
                               docs |-> writer.corpus.docs]]
    BY <1>2, <1>t, <1>w DEF BuildLexical, Publishing
  <2>2. /\ dir'[writer.gen].lex.commit = writer.gen
        /\ dir'[writer.gen].manifest = dir[writer.gen].manifest
    BY <1>2, <1>w, <2>1 DEF BuildLexical, Publishing, DirSet
  <2> QED
    BY <1>2, <1>t, <1>x, <2>2 DEF BuildLexical, Publishing, LexIsOwn
<1>3. CASE BuildDense \/ CarryDense
  <2>1. /\ writer # None /\ writer.step # "prune"
        /\ writer.gen \in Gen /\ dir[writer.gen] \in DirSet
        /\ dir' = dir \/ \E x : dir' = [dir EXCEPT ![writer.gen].dense = x]
    BY <1>3, <1>w DEF BuildDense, CarryDense, Publishing
  <2>2. /\ dir'[writer.gen].lex = dir[writer.gen].lex
        /\ dir'[writer.gen].manifest = dir[writer.gen].manifest
        /\ \A h \in Gen : h # writer.gen => dir'[h] = dir[h]
    BY <1>t, <2>1 DEF DirSet
  <2>3. LexIsOwn(writer.gen, dir[writer.gen].lex)
    BY <2>1, NoneIsNothing DEF FilesAreOwn
  <2> QED
    BY <1>x, <2>1, <2>2, <2>3 DEF LexIsOwn
<1>5. CASE WriteManifest
  <2> DEFINE m == ManifestOf(writer, dir[writer.gen].dense)
  <2>1. m.commit = writer.gen
    BY DEF ManifestOf
  <2>2. /\ writer # None /\ writer.step # "prune"
        /\ writer.gen \in Gen /\ dir[writer.gen] \in DirSet
        /\ dir' = [dir EXCEPT ![writer.gen].manifest = m]
    BY <1>5, <1>w DEF WriteManifest, Publishing
  <2> HIDE DEF m
  <2>3. /\ dir'[writer.gen].lex = dir[writer.gen].lex
        /\ dir'[writer.gen].manifest = m
        /\ \A h \in Gen : h # writer.gen => dir'[h] = dir[h]
    BY <1>t, <2>2 DEF DirSet
  <2>4. LexIsOwn(writer.gen, dir[writer.gen].lex)
    BY <2>2, NoneIsNothing DEF FilesAreOwn
  <2> QED
    BY <1>x, <2>1, <2>2, <2>3, <2>4 DEF LexIsOwn
<1>6. ASSUME NEW g \in Gen, NEW f \in {"lex", "dense", "manifest"},
             RemoveFile(g, f)
      PROVE  FilesAreOwn'
  BY <1>6, <1>t DEF RemoveFile, FilesAreOwn, LexIsOwn, DirSet
<1>7. ASSUME NEW g \in Gen, RemoveDir(g) PROVE FilesAreOwn'
  BY <1>7, <1>t DEF RemoveDir, FilesAreOwn, LexIsOwn
<1>8. CASE OpenLexical
  <2> DEFINE g == IF reader.deep THEN Resolve ELSE reader.gen
             found == IF dir[g] = None THEN NoFiles ELSE dir[g]
             lex == IF found.lex = None THEN EmptyIndex ELSE found.lex
  <2>1. g \in Gen /\ found \in DirSet
    BY <1>8, <1>t DEF OpenLexical, Reading, ReaderSet, Resolve, NoFiles, DirSet
  <2>2. dir' = [dir EXCEPT ![g] = [found EXCEPT !.lex = lex]]
    BY <1>8 DEF OpenLexical
  <2>3. LexIsOwn(g, lex)
    BY <2>1 DEF FilesAreOwn, LexIsOwn, NoFiles
  <2>4. found.manifest # None => found.manifest.commit = g
    BY <2>1 DEF FilesAreOwn, NoFiles
  <2> HIDE DEF g, found, lex
  <2>5. /\ dir'[g] = [found EXCEPT !.lex = lex]
        /\ \A h \in Gen : h # g => dir'[h] = dir[h]
    BY <1>t, <2>1, <2>2
  <2>6. dir'[g].lex = lex /\ dir'[g].manifest = found.manifest
    BY <2>1, <2>5 DEF DirSet
  <2> QED
    BY <2>1, <2>3, <2>4, <2>5, <2>6 DEF FilesAreOwn, LexIsOwn
<1>9. CASE UNCHANGED dir
  BY <1>9 DEF FilesAreOwn, LexIsOwn
<1> QED
  BY <1>1, <1>2, <1>3, <1>5, <1>6, <1>7, <1>8, <1>9
     DEF Next, Publisher, Query, vars, RefuseDowngrade, Flip, EndPublish,
     Abort, OpenQuery, ReadManifest, OpenDense, LoadFromManifest, EndQuery

\* A publisher's step moves neither the query nor, but for a flip to its own
\* directory, CURRENT.
LEMMA PublisherBesideReader ==
  ASSUME StoreInv, ReaderIsOwn, LexicalServesItsManifest, Publisher
  PROVE  ReaderIsOwn' /\ LexicalServesItsManifest'
<1> USE DEF StoreInv
<1>t. /\ writer \in WriterSet \union {None}
      /\ reader \in ReaderSet \union {None}
      /\ reader # None => reader.gen \in used
  BY DEF TypeOK, NamesAreUsed
<1>1. reader' = reader
  BY DEF Publisher, BeginPublish, BuildLexical, BuildDense, CarryDense,
     WriteManifest, RefuseDowngrade, Flip, RemoveDir, RemoveFile, EndPublish,
     Abort
<1>2. ASSUME NEW g \in Gen, NEW c \in Corpus, NEW semantic \in BOOLEAN,
             NEW v \in Schema, BeginPublish(g, c, semantic, v)
      PROVE  ReaderIsOwn' /\ LexicalServesItsManifest'
  <2>1. writer'.gen = g /\ g \notin used /\ current' = current
    BY <1>2 DEF BeginPublish
  <2> QED
    BY <1>1, <1>t, <2>1 DEF ReaderIsOwn, LexicalServesItsManifest, Reading
<1>3. CASE BuildLexical \/ BuildDense \/ CarryDense \/ WriteManifest
  <2>1. /\ writer # None /\ writer.step # "prune" /\ writer'.gen = writer.gen
        /\ current' = current
    BY <1>3, <1>t DEF BuildLexical, BuildDense, CarryDense, WriteManifest,
       Publishing, WriterSet
  <2> QED
    BY <1>1, <2>1 DEF ReaderIsOwn, LexicalServesItsManifest, Reading
<1>4. CASE Flip
  <2>1. /\ writer # None /\ writer.step # "prune" /\ writer'.step = "prune"
        /\ current' = writer.gen
    BY <1>4, <1>t DEF Flip, Publishing, WriterSet
  <2>2. reader # None => current' # reader.gen
    BY <2>1 DEF ReaderIsOwn
  <2> QED
    BY <1>1, <2>1, <2>2 DEF ReaderIsOwn, LexicalServesItsManifest, Reading
<1>5. CASE RefuseDowngrade \/ EndPublish \/ Abort
  <2>1. writer' = None /\ current' = current
    BY <1>5 DEF RefuseDowngrade, EndPublish, Abort
  <2> QED
    BY <1>1, <2>1 DEF ReaderIsOwn, LexicalServesItsManifest, Reading
<1>6. ASSUME NEW g \in Gen,
             RemoveDir(g) \/ \E f \in {"lex", "dense", "manifest"} :
                                 RemoveFile(g, f)
      PROVE  ReaderIsOwn' /\ LexicalServesItsManifest'
  <2>1. writer # None /\ writer'.step = "prune" /\ current' = current
    BY <1>6, <1>t DEF RemoveDir, RemoveFile, Publishing, WriterSet
  <2> QED
    BY <1>1, <2>1 DEF ReaderIsOwn, LexicalServesItsManifest, Reading
<1> QED
  BY <1>2, <1>3, <1>4, <1>5, <1>6 DEF Publisher

\* A query's step keeps to one published directory.
LEMMA QueryOwn ==
  ASSUME StoreInv, OwnInv, Query PROVE ReaderIsOwn' /\ LexicalServesItsManifest'
<1> USE DEF StoreInv
<1>t. /\ dir \in [Gen -> DirSet \union {None}]
      /\ current \in Gen \union {None}
      /\ writer \in WriterSet \union {None}
      /\ reader \in ReaderSet \union {None}
  BY DEF TypeOK
<1>c. Resolve # None =>
        /\ Resolve = current /\ Resolve \in Gen
        /\ writer # None /\ writer.step # "prune" => writer.gen # Resolve
  BY <1>t DEF Resolve, PublishProtocol
<1>u. writer' = writer /\ current' = current
  BY DEF Query, OpenQuery, ReadManifest, OpenLexical, OpenDense,
     LoadFromManifest, EndQuery
<1>1. ASSUME NEW deep \in BOOLEAN, NEW v \in Schema, OpenQuery(deep, v)
      PROVE  ReaderIsOwn' /\ LexicalServesItsManifest'
  BY <1>1, <1>c, <1>u
     DEF OpenQuery, ReaderIsOwn, LexicalServesItsManifest, Reading
<1>2. CASE ReadManifest
  <2>1. CASE reader' = None
    BY <2>1 DEF ReaderIsOwn, LexicalServesItsManifest, Reading
  <2>2. CASE reader' # None
    <3>1. /\ reader # None /\ reader \in ReaderSet /\ HasManifest(reader.gen)
          /\ reader' = [reader EXCEPT !.step = "lexical",
                                      !.manifest = dir[reader.gen].manifest]
      BY <1>2, <1>t, <2>2 DEF ReadManifest, Reading
    <3>2. /\ dir[reader.gen].manifest # None
          /\ dir[reader.gen].manifest.commit = reader.gen
      BY <3>1 DEF HasManifest, OwnInv, FilesAreOwn, ReaderSet
    <3> QED
      BY <1>u, <3>1, <3>2 DEF OwnInv, ReaderIsOwn, LexicalServesItsManifest,
         Reading, ReaderSet
  <2> QED
    BY <2>1, <2>2
<1>3. CASE OpenLexical
  <2> DEFINE g == IF reader.deep THEN Resolve ELSE reader.gen
             found == IF dir[g] = None THEN NoFiles ELSE dir[g]
             lex == IF found.lex = None THEN EmptyIndex ELSE found.lex
  <2>1. /\ reader # None /\ reader \in ReaderSet /\ reader.step = "lexical"
        /\ g # None /\ g \in Gen
        /\ reader' = [reader EXCEPT !.step = IF reader.deep THEN "dense"
                                                            ELSE "served",
                                    !.gen = g, !.lex = lex]
    BY <1>3, <1>t, <1>c DEF OpenLexical, Reading, ReaderSet
  <2>2. lex = EmptyIndex \/ lex.commit = g
    BY <2>1 DEF OwnInv, FilesAreOwn, LexIsOwn, NoFiles
  <2>3. g = current => lex.commit = g
    <3>1. g = current => /\ dir[g] # None /\ dir[g].lex # None
                         /\ dir[g].manifest # None
                         /\ dir[g].lex.commit = dir[g].manifest.commit
      BY <2>1, NoneIsNothing DEF CurrentIsComplete, Bound
    <3> QED
      BY <2>1, <3>1 DEF OwnInv, FilesAreOwn
  <2>4. writer # None /\ writer.step # "prune" => writer.gen # g
    BY <2>1, <1>c DEF OwnInv, ReaderIsOwn
  <2>5. ~reader.deep => g = reader.gen
    OBVIOUS
  <2> HIDE DEF g, found, lex
  <2>6. /\ reader'.step = IF reader.deep THEN "dense" ELSE "served"
        /\ reader'.deep = reader.deep /\ reader'.lex = lex /\ reader'.gen = g
        /\ reader'.manifest = reader.manifest
    BY <2>1 DEF ReaderSet
  <2>7. ~reader.deep => reader.manifest # None /\ reader.manifest.commit = g
    BY <2>1, <2>5 DEF OwnInv, ReaderIsOwn
  <2> QED
    BY <1>u, <2>2, <2>3, <2>4, <2>6, <2>7
       DEF ReaderIsOwn, LexicalServesItsManifest, Reading
<1>4. CASE OpenDense \/ LoadFromManifest \/ EndQuery
  <2>1. CASE reader' = None
    BY <2>1 DEF ReaderIsOwn, LexicalServesItsManifest, Reading
  <2>2. CASE reader' # None
    <3>1. /\ reader # None /\ reader \in ReaderSet
          /\ reader.step \in {"dense", "bind"}
          /\ reader'.gen = reader.gen /\ reader'.deep = reader.deep
      BY <1>4, <1>t, <2>2
         DEF OpenDense, LoadFromManifest, EndQuery, Reading, ReaderSet
    <3>2. reader.deep
      BY <3>1 DEF OwnInv, ReaderIsOwn
    <3> QED
      BY <1>u, <3>1, <3>2
         DEF OwnInv, ReaderIsOwn, LexicalServesItsManifest, Reading
  <2> QED
    BY <2>1, <2>2
<1> QED
  BY <1>1, <1>2, <1>3, <1>4 DEF Query

\* A lexical query, which takes no lock and compares no count, never answers
\* from another generation's index; it comes up empty only when its own was
\* pruned since it was resolved (try_lexical_search_native).
THEOREM LexicalQueriesKeepToTheirManifest == Spec => []LexicalServesItsManifest
<1>1. Init => OwnInv
  BY DEF Init, OwnInv, FilesAreOwn, ReaderIsOwn, LexicalServesItsManifest,
     Reading
<1>2. StoreInv /\ OwnInv /\ [Next]_vars => OwnInv'
  <2> SUFFICES ASSUME StoreInv, OwnInv, [Next]_vars PROVE OwnInv'
    OBVIOUS
  <2>1. FilesAreOwn'
    BY FilesStep DEF OwnInv
  <2>2. ReaderIsOwn' /\ LexicalServesItsManifest'
    <3>1. CASE UNCHANGED vars
      BY <3>1 DEF OwnInv, ReaderIsOwn, LexicalServesItsManifest, Reading, vars
    <3> QED
      BY <3>1, PublisherBesideReader, QueryOwn DEF Next, OwnInv
  <2> QED
    BY <2>1, <2>2 DEF OwnInv
<1>3. OwnInv => LexicalServesItsManifest
  BY DEF OwnInv
<1> QED
  BY StoreInit, StoreStep, <1>1, <1>2, <1>3, PTL DEF Spec

-----------------------------------------------------------------------------
\* What the vectors embed.

\* A payload, wherever it was copied to, is of a corpus that was built.
PayloadsAreBuilt ==
    \A g \in Gen : dir[g] # None /\ dir[g].dense # None => dir[g].dense \in Corpus

\* No step but the build and the copy of a payload, and the manifest, adds
\* to what a directory holds: the rest only remove files or add empty ones.
LEMMA OnlyLess ==
  ASSUME StoreInv, [Next]_vars,
         ~(BuildDense \/ CarryDense \/ WriteManifest),
         NEW g \in Gen, dir'[g] # None
  PROVE  \/ dir'[g].manifest = None /\ dir'[g].dense = None
         \/ /\ dir[g] # None
            /\ dir'[g].dense \in {dir[g].dense, None}
            /\ dir'[g].manifest \in {dir[g].manifest, None}
            /\ \/ dir'[g].lex \in {dir[g].lex, None, EmptyIndex}
               \/ dir'[g].manifest = None
<1> USE DEF StoreInv
<1>t. /\ dir \in [Gen -> DirSet \union {None}]
      /\ writer \in WriterSet \union {None}
      /\ reader \in ReaderSet \union {None}
      /\ None \notin Gen /\ None \notin DirSet
  BY NoneIsNothing DEF TypeOK
<1>1. ASSUME NEW h \in Gen, NEW c \in Corpus, NEW semantic \in BOOLEAN,
             NEW v \in Schema, BeginPublish(h, c, semantic, v)
      PROVE  dir'[g] = dir[g] \/ (dir'[g].manifest = None /\ dir'[g].dense = None)
  BY <1>1, <1>t DEF BeginPublish, NoFiles
<1>2. CASE BuildLexical
  <2>1. /\ writer # None /\ writer.gen \in Gen /\ dir[writer.gen] \in DirSet
        /\ dir[writer.gen].manifest = None /\ dir[writer.gen].dense = None
    BY <1>2, <1>t DEF BuildLexical, Publishing, PublishProtocol, Written, WriterSet
  <2>2. /\ dir'[writer.gen].manifest = None /\ dir'[writer.gen].dense = None
        /\ g # writer.gen => dir'[g] = dir[g]
    BY <1>2, <1>t, <2>1 DEF BuildLexical, DirSet
  <2> QED BY <2>2
<1>3. ASSUME NEW h \in Gen, NEW f \in {"lex", "dense", "manifest"}, RemoveFile(h, f)
      PROVE  /\ dir[g] # None
             /\ dir'[g].dense \in {dir[g].dense, None}
             /\ dir'[g].manifest \in {dir[g].manifest, None}
             /\ dir'[g].lex \in {dir[g].lex, None}
  BY <1>3, <1>t DEF RemoveFile, DirSet
<1>4. ASSUME NEW h \in Gen, RemoveDir(h) PROVE dir'[g] = dir[g]
  BY <1>4, <1>t DEF RemoveDir
<1>5. CASE OpenLexical
  <2> DEFINE h == IF reader.deep THEN Resolve ELSE reader.gen
             found == IF dir[h] = None THEN NoFiles ELSE dir[h]
             lex == IF found.lex = None THEN EmptyIndex ELSE found.lex
  <2>1. h \in Gen /\ dir' = [dir EXCEPT ![h] = [found EXCEPT !.lex = lex]]
    BY <1>5, <1>t DEF OpenLexical, Reading, Resolve, TypeOK, ReaderSet
  <2>2. found \in DirSet /\ (dir[h] = None => found = NoFiles)
    BY <1>t, <2>1 DEF NoFiles, DirSet
  <2>3. dir[h] # None => found = dir[h]
    OBVIOUS
  <2>4. lex \in {found.lex, EmptyIndex}
    OBVIOUS
  <2> HIDE DEF h, found, lex
  <2>5. g # h => dir'[g] = dir[g]
    BY <1>t, <2>1
  <2>6. g = h => /\ dir'[g].manifest = found.manifest
                 /\ dir'[g].dense = found.dense
                 /\ dir'[g].lex = lex
    BY <1>t, <2>1, <2>2 DEF DirSet
  <2> QED BY <2>2, <2>3, <2>4, <2>5, <2>6 DEF NoFiles
<1>6. CASE UNCHANGED dir
  BY <1>6
<1> QED
  BY <1>1, <1>2, <1>3, <1>4, <1>5, <1>6
     DEF Next, Publisher, Query, vars, RefuseDowngrade, Flip, EndPublish,
     Abort, OpenQuery, ReadManifest, OpenDense, LoadFromManifest, EndQuery

\* The payload a directory gets is of a corpus that was built, for it or for
\* the generation it is carried from.
LEMMA BuiltStep ==
  ASSUME StoreInv, PayloadsAreBuilt, [Next]_vars PROVE PayloadsAreBuilt'
<1> SUFFICES ASSUME NEW g \in Gen, dir'[g] # None, dir'[g].dense # None
             PROVE  dir'[g].dense \in Corpus
  BY DEF PayloadsAreBuilt
<1>t. /\ dir \in [Gen -> DirSet \union {None}]
      /\ writer \in WriterSet \union {None}
  BY DEF StoreInv, TypeOK
<1>w. BuildDense \/ CarryDense \/ WriteManifest =>
          /\ writer # None /\ writer \in WriterSet /\ writer.gen \in Gen
          /\ dir[writer.gen] \in DirSet
          /\ dir[writer.gen] # None
  BY <1>t DEF BuildDense, CarryDense, WriteManifest, Publishing, StoreInv,
     PublishProtocol, Written, WriterSet
<1>1. CASE BuildDense
  <2>1. /\ writer.corpus \in Corpus
        /\ writer.corpus = [hash |-> writer.corpus.hash, docs |-> writer.corpus.docs]
    BY <1>1, <1>w, CorpusType DEF WriterSet
  <2>2. g # writer.gen => dir'[g] = dir[g]
    BY <1>1, <1>t DEF BuildDense
  <2>3. dir'[writer.gen].dense =
            [hash |-> writer.corpus.hash, docs |-> writer.corpus.docs]
    BY <1>1, <1>t, <1>w DEF BuildDense, DirSet
  <2> QED BY <2>1, <2>2, <2>3 DEF PayloadsAreBuilt
<1>2. CASE CarryDense
  <2>1. CASE dir' = dir
    BY <2>1 DEF PayloadsAreBuilt
  <2>2. CASE dir' # dir
    <3>1. /\ Carries
          /\ dir' = [dir EXCEPT ![writer.gen].dense = dir[writer.previous].dense]
      BY <1>2, <2>2 DEF CarryDense
    <3>2. writer.previous \in Gen /\ dir[writer.previous] # None
          /\ dir[writer.previous].dense # None
      BY <1>2, <1>w, <3>1 DEF Carries, HasDense, HasManifest, DenseBound, WriterSet
    <3>3. /\ g # writer.gen => dir'[g] = dir[g]
          /\ dir'[writer.gen].dense = dir[writer.previous].dense
      BY <1>2, <1>t, <1>w, <3>1 DEF DirSet
    <3> QED BY <3>2, <3>3 DEF PayloadsAreBuilt
  <2> QED BY <2>1, <2>2
<1>3. CASE WriteManifest
  <2>1. dir'[g] = dir[g] \/ (g = writer.gen /\ dir'[g].dense = dir[g].dense)
    BY <1>3, <1>t, <1>w DEF WriteManifest, DirSet
  <2> QED BY <2>1, <1>w, <1>3 DEF PayloadsAreBuilt
<1>4. CASE ~(BuildDense \/ CarryDense \/ WriteManifest)
  BY <1>4, OnlyLess DEF PayloadsAreBuilt
<1> QED BY <1>1, <1>2, <1>3, <1>4

\* A manifest is written beside an index of its corpus and a payload with its
\* fingerprint; a payload is never changed once its manifest is there.
LEMMA FitStep ==
  ASSUME StoreInv, PayloadsAreBuilt, VectorsFitTheManifest, [Next]_vars
  PROVE  VectorsFitTheManifest'
<1> DEFINE Fits(d) == {[hash |-> d.manifest.hash, docs |-> p.docs] :
                          p \in {d.lex, d.dense} \ {None, EmptyIndex}}
                       \subseteq Corpus
<1> SUFFICES ASSUME NEW g \in Gen, dir'[g] # None, dir'[g].manifest # None
             PROVE  Fits(dir'[g])
  BY DEF VectorsFitTheManifest, HasManifest
<1>t. /\ dir \in [Gen -> DirSet \union {None}]
      /\ writer \in WriterSet \union {None}
  BY DEF StoreInv, TypeOK
<1>f. dir[g] # None /\ dir[g].manifest # None => Fits(dir[g])
  BY DEF VectorsFitTheManifest, HasManifest
<1>w. BuildDense \/ CarryDense \/ WriteManifest =>
          /\ writer # None /\ writer \in WriterSet /\ writer.gen \in Gen
          /\ dir[writer.gen] \in DirSet
          /\ dir[writer.gen] # None
          /\ dir[writer.gen].manifest = None
  BY <1>t DEF BuildDense, CarryDense, WriteManifest, Publishing, StoreInv,
     PublishProtocol, Written, WriterSet
<1>1. CASE BuildDense \/ CarryDense
  <2>1. /\ g # writer.gen => dir'[g] = dir[g]
        /\ dir'[writer.gen].manifest = None
    BY <1>1, <1>t, <1>w DEF BuildDense, CarryDense, DirSet
  <2> QED BY <1>f, <2>1
<1>2. CASE WriteManifest /\ g # writer.gen
  <2>1. dir'[g] = dir[g]
    BY <1>2, <1>t, <1>w DEF WriteManifest
  <2> QED BY <1>f, <2>1
<1>3. CASE WriteManifest /\ g = writer.gen
  <2> DEFINE d == dir[g]
  <2>1. /\ d.lex = [commit |-> writer.gen, docs |-> writer.corpus.docs]
        /\ d.dense # None => d.dense.hash = writer.corpus.hash
    BY <1>3, <1>w DEF WriteManifest, Publishing, StoreInv, PublishProtocol, Written
  <2>2. /\ dir'[g].lex = d.lex /\ dir'[g].dense = d.dense
        /\ dir'[g].manifest = ManifestOf(writer, d.dense)
    BY <1>3, <1>t, <1>w DEF WriteManifest, DirSet
  <2>3. dir'[g].manifest.hash = writer.corpus.hash
    BY <2>2 DEF ManifestOf
  <2>4. /\ writer.corpus \in Corpus
        /\ writer.corpus = [hash |-> writer.corpus.hash, docs |-> writer.corpus.docs]
    BY <1>3, <1>w, CorpusType DEF WriterSet
  <2>5. [hash |-> dir'[g].manifest.hash, docs |-> dir'[g].lex.docs] \in Corpus
    BY <2>1, <2>2, <2>3, <2>4
  <2>6. ASSUME d.dense # None
        PROVE  [hash |-> dir'[g].manifest.hash, docs |-> dir'[g].dense.docs] \in Corpus
    <3>1. d.dense \in Corpus
      BY <1>3, <1>w, <2>6 DEF PayloadsAreBuilt
    <3>2. d.dense = [hash |-> d.dense.hash, docs |-> d.dense.docs]
      BY <3>1, CorpusType
    <3> QED BY <2>1, <2>2, <2>3, <2>6, <3>1, <3>2
  <2> QED BY <2>2, <2>5, <2>6
<1>4. CASE ~(BuildDense \/ CarryDense \/ WriteManifest)
  <2>1. /\ dir[g] # None
        /\ dir'[g].dense \in {dir[g].dense, None}
        /\ dir'[g].manifest = dir[g].manifest
        /\ dir'[g].lex \in {dir[g].lex, None, EmptyIndex}
    BY <1>4, OnlyLess
  <2> QED BY <2>1, <1>f
<1> QED BY <1>1, <1>2, <1>3, <1>4

\* The index and the vectors beside a manifest are of texts built under its
\* fingerprint, however often and past whatever failures they were carried.
THEOREM CarriedVectorsFit == Spec => []VectorsFitTheManifest
<1>1. Init => PayloadsAreBuilt /\ VectorsFitTheManifest
  BY DEF Init, PayloadsAreBuilt, VectorsFitTheManifest, HasManifest
<1>2. /\ StoreInv /\ PayloadsAreBuilt /\ VectorsFitTheManifest /\ [Next]_vars
      => PayloadsAreBuilt' /\ VectorsFitTheManifest'
  BY BuiltStep, FitStep
<1>3. StoreInv /\ DenseIsWhole /\ [Next]_vars => StoreInv' /\ DenseIsWhole'
  BY StoreStep
<1> QED BY <1>1, <1>2, <1>3, StoreInit, PTL DEF Spec

\* A fingerprint stands for one content: no full rescan repaired an extract
\* under the fingerprint it was indexed with.
FingerprintsTell == \A c, d \in Corpus : c.hash = d.hash => c.docs = d.docs

\* What is searched is what the vectors embed.
SameTexts ==
    \A g \in Gen :
        /\ HasManifest(g)
        /\ dir[g].lex \notin {None, EmptyIndex}
        /\ dir[g].dense # None
        => dir[g].dense.docs = dir[g].lex.docs

\* Where fingerprints tell contents apart, the vectors of a generation embed
\* the very texts of its lexical index, built with it or carried into it.
THEOREM VectorsEmbedTheTexts == FingerprintsTell => (Spec => []SameTexts)
<1> SUFFICES ASSUME FingerprintsTell PROVE Spec => []SameTexts
  OBVIOUS
<1>1. TypeOK /\ VectorsFitTheManifest => SameTexts
  <2> SUFFICES ASSUME TypeOK, VectorsFitTheManifest, NEW g \in Gen, HasManifest(g),
                      dir[g].lex \notin {None, EmptyIndex}, dir[g].dense # None
               PROVE  dir[g].dense.docs = dir[g].lex.docs
    BY DEF SameTexts
  <2>1. dir[g].dense \in DenseSet
    BY DEF TypeOK, HasManifest, DirSet
  <2>2. dir[g].dense # EmptyIndex
    BY <2>1 DEF DenseSet, EmptyIndex
  <2>3. /\ [hash |-> dir[g].manifest.hash, docs |-> dir[g].lex.docs] \in Corpus
        /\ [hash |-> dir[g].manifest.hash, docs |-> dir[g].dense.docs] \in Corpus
    BY <2>2 DEF VectorsFitTheManifest
  <2> QED BY <2>3 DEF FingerprintsTell
<1> QED BY <1>1, CarriedVectorsFit, GenerationsTypeOK, PTL
=============================================================================
