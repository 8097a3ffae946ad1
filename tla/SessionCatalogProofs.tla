------------------------ MODULE SessionCatalogProofs ------------------------
(***************************************************************************)
(* Proofs about SessionCatalog, for any sessions, checkouts, processes and *)
(* bounds.                                                                 *)
(***************************************************************************)
EXTENDS SessionCatalog, TLAPS

\* A pass only works on rows that name a checkout, a process between passes has
\* none of them left, and mtimes grow with the moves of the remotes.
Passing == {"fresh", "preview", "merge", "rebuild"}
PassOK ==
    /\ \A p \in Proc : \A s \in todo[p] : rows[p][s].cwd # None
    /\ \A p \in Proc : asked[p] # None => rows[p][asked[p].session].cwd # None
    /\ \A p \in Proc : pc[p] \notin Passing => Attributed(p)
    /\ \A c \in Checkout : stamp[c] <= moves + 1
PassTypes ==
    /\ rows \in [Proc -> [Session -> Row]] /\ todo \in [Proc -> SUBSET Session]
    /\ asked \in [Proc -> [session : Session, stamp : 1..MaxMoves + 1] \cup {None}]
    /\ touched \in [Proc -> BOOLEAN] /\ dirty \in [Proc -> BOOLEAN]
    /\ mem \in [Proc -> Memo]
CatalogInv == TypeOK /\ PassOK

\* No stamp kept anywhere is ahead of the checkout's, and wherever it equals
\* it the origin kept with it is the present one.
Behind(m) == \A c \in Checkout : m[c].stamp <= stamp[c]
MemoInv ==
    /\ Behind(memo) /\ Trusted(memo)
    /\ \A p \in Proc : Behind(mem[p]) /\ Trusted(mem[p])
    /\ \A p \in Proc : asked[p] # None =>
           asked[p].stamp <= stamp[rows[p][asked[p].session].cwd]

\* While a refresh attributes the merged rows, they are those of the catalog on
\* disk and of its delta, but for their projects.
MergeInv == \A p \in Proc : pc[p] = "merge" =>
    \A s \in Session : /\ rows[p][s].version = Merged(p)[s].version
                       /\ rows[p][s].cwd = Merged(p)[s].cwd

-----------------------------------------------------------------------------
LEMMA NoRowIsRow == NoRow \in Row
  BY BoundsType DEF NoRow, Row

\* The tables and memos that the operations build are well formed.
LEMMA TablesAreRows ==
    ASSUME TypeOK, NEW p \in Proc, NEW s \in Session
    PROVE  /\ NoRows \in [Session -> Row] /\ NoMemo \in Memo
           /\ EntryFromSource(s) \in Row /\ EntryFromDiscovery(s) \in Row
           /\ Changed(p) \in [Session -> Row] /\ Merged(p) \in [Session -> Row]
           /\ Persisted(p) \in Memo
<1>1. NoRow \in Row
  BY NoRowIsRow
<1>2. NoRows \in [Session -> Row] /\ NoMemo \in Memo
  BY <1>1, BoundsType DEF NoRows, NoMemo, Memo
<1>3. EntryFromSource(s) \in Row
  BY RepoOfType DEF EntryFromSource, Row, TypeOK
<1>4. EntryFromDiscovery(s) \in Row
  <2>1. RepoOf[s] \in Checkout /\ origin[RepoOf[s]] \in Origin \cup {None}
    BY RepoOfType DEF TypeOK
  <2> QED  BY <2>1 DEF EntryFromDiscovery, Row, TypeOK
<1>5. Changed(p) \in [Session -> Row] /\ Merged(p) \in [Session -> Row]
  BY <1>1 DEF Changed, Merged, TypeOK
<1>6. Persisted(p) \in Memo
  BY DEF Persisted, TypeOK
<1> QED  BY <1>2, <1>3, <1>4, <1>5, <1>6

\* A pass starts well formed on well-formed rows.
LEMMA PassStarts ==
    ASSUME CatalogInv, NEW p \in Proc, NEW table \in [Session -> Row], NEW loaded \in Memo,
           NEW from, NEW to \in Passing, Goto(p, from, to), asked[p] = None,
           Reattribute(p, table, loaded), stamp' = stamp, moves' = moves
    PROVE  /\ PassTypes' /\ PassOK'
<1>1. /\ rows' \in [Proc -> [Session -> Row]] /\ todo' \in [Proc -> SUBSET Session]
      /\ mem' \in [Proc -> Memo]
  BY DEF CatalogInv, TypeOK, Reattribute
<1>2. touched' \in [Proc -> BOOLEAN] /\ dirty' \in [Proc -> BOOLEAN]
  BY DEF CatalogInv, TypeOK, Reattribute
<1>3. asked' \in [Proc -> [session : Session, stamp : 1..MaxMoves + 1] \cup {None}]
  BY DEF CatalogInv, TypeOK, Reattribute
<1>4. ASSUME NEW q \in Proc, NEW s \in todo'[q]  PROVE rows'[q][s].cwd # None
  BY <1>4 DEF CatalogInv, TypeOK, PassOK, Reattribute
<1>5. ASSUME NEW q \in Proc, asked'[q] # None  PROVE rows'[q][asked'[q].session].cwd # None
  BY <1>5 DEF CatalogInv, TypeOK, PassOK, Reattribute
<1>6. \A c \in Checkout : stamp'[c] <= moves' + 1
  BY DEF CatalogInv, PassOK
<1>7. ASSUME NEW q \in Proc, pc'[q] \notin Passing  PROVE Attributed(q)'
  BY <1>7 DEF CatalogInv, TypeOK, PassOK, Reattribute, Goto, Attributed
<1> QED  BY <1>1, <1>2, <1>3, <1>4, <1>5, <1>6, <1>7 DEF PassOK, PassTypes

\* A process that ends leaves nothing behind.
LEMMA FinishIsClean ==
    ASSUME CatalogInv, NEW p \in Proc, Finish(p), stamp' = stamp, moves' = moves
    PROVE  /\ seen' \in [Proc -> [Session -> Row]] /\ delta' \in [Proc -> [Session -> Row]]
           /\ PassTypes' /\ PassOK'
<1>1. NoRow \in Row
  BY NoRowIsRow
<1>2. NoRows \in [Session -> Row] /\ NoMemo \in Memo
  BY <1>1, BoundsType DEF NoRows, NoMemo, Memo
<1>3. /\ seen' \in [Proc -> [Session -> Row]] /\ delta' \in [Proc -> [Session -> Row]]
      /\ rows' \in [Proc -> [Session -> Row]] /\ todo' \in [Proc -> SUBSET Session]
      /\ mem' \in [Proc -> Memo]
  BY <1>2 DEF CatalogInv, TypeOK, Finish
<1>4. touched' \in [Proc -> BOOLEAN] /\ dirty' \in [Proc -> BOOLEAN]
  BY DEF CatalogInv, TypeOK, Finish
<1>5. asked' \in [Proc -> [session : Session, stamp : 1..MaxMoves + 1] \cup {None}]
  BY DEF CatalogInv, TypeOK, Finish
<1>6. ASSUME NEW q \in Proc, NEW s \in todo'[q]  PROVE rows'[q][s].cwd # None
  BY <1>6 DEF CatalogInv, TypeOK, PassOK, Finish
<1>7. ASSUME NEW q \in Proc, asked'[q] # None  PROVE rows'[q][asked'[q].session].cwd # None
  BY <1>7 DEF CatalogInv, TypeOK, PassOK, Finish
<1>8. \A c \in Checkout : stamp'[c] <= moves' + 1
  BY DEF CatalogInv, PassOK
<1>9. ASSUME NEW q \in Proc, pc'[q] \notin Passing  PROVE Attributed(q)'
  BY <1>9 DEF CatalogInv, TypeOK, PassOK, Finish, Attributed
<1> QED  BY <1>3, <1>4, <1>5, <1>6, <1>7, <1>8, <1>9 DEF PassOK, PassTypes

\* Steps of a pass keep the types, and the versions and cwds of the rows.
LEMMA StampKeeps ==
    ASSUME CatalogInv, NEW p \in Proc, NEW s \in Session, Stamp(p, s)
    PROVE  /\ CatalogInv'
           /\ \A q \in Proc, r \in Session : /\ rows'[q][r].version = rows[q][r].version
                                             /\ rows'[q][r].cwd = rows[q][r].cwd
<1> DEFINE c == rows[p][s].cwd
           project == Known(p, s)
<1>1. s \in todo[p] /\ rows[p][s] \in Row /\ c \in Checkout
  <2>1. s \in todo[p]
    BY DEF Stamp
  <2>2. rows[p][s] \in Row
    BY DEF CatalogInv, TypeOK
  <2>3. c # None
    BY <2>1 DEF CatalogInv, PassOK
  <2> QED  BY <2>1, <2>2, <2>3 DEF Row
<1>2. project \in Origin \cup {Guess, None} /\ stamp[c] \in 1..MaxMoves + 1
  BY <1>1 DEF Known, CatalogInv, TypeOK, Memo, Row
<1>3. rows' = [rows EXCEPT ![p] = [rows[p] EXCEPT ![s] = InProject(rows[p][s], project)]]
  BY DEF Stamp
<1>4. InProject(rows[p][s], project) \in Row
  BY <1>1, <1>2 DEF InProject, Row
<1>5. rows' \in [Proc -> [Session -> Row]]
  BY <1>3, <1>4 DEF CatalogInv, TypeOK
<1>6. \A q \in Proc, r \in Session : /\ rows'[q][r].version = rows[q][r].version
                                     /\ rows'[q][r].cwd = rows[q][r].cwd
  BY <1>1, <1>3 DEF InProject, CatalogInv, TypeOK, Row
<1>7. todo' \in [Proc -> SUBSET Session] /\ \A q \in Proc : todo'[q] \subseteq todo[q]
  BY DEF Stamp, CatalogInv, TypeOK
<1>8. /\ asked' \in [Proc -> [session : Session, stamp : 1..MaxMoves + 1] \cup {None}]
      /\ \A q \in Proc : asked'[q] # None => asked'[q] = asked[q] \/ (q = p /\ asked'[q].session = s)
  BY <1>2 DEF Stamp, CatalogInv, TypeOK
<1>9. touched' \in [Proc -> BOOLEAN]
  BY DEF Stamp, CatalogInv, TypeOK
<1>10. PassOK'
  <2>1. ASSUME NEW q \in Proc, NEW r \in todo'[q]  PROVE rows'[q][r].cwd # None
    <3>1. r \in todo[q] /\ r \in Session
      BY <2>1, <1>7
    <3>2. rows[q][r].cwd # None
      BY <3>1 DEF CatalogInv, PassOK
    <3> QED  BY <3>1, <3>2, <1>6
  <2>2. ASSUME NEW q \in Proc, asked'[q] # None  PROVE rows'[q][asked'[q].session].cwd # None
    <3>1. CASE asked'[q] = asked[q]
      <4>1. asked[q].session \in Session
        BY <2>2, <3>1, <1>8
      <4>2. rows[q][asked[q].session].cwd # None
        BY <2>2, <3>1 DEF CatalogInv, PassOK
      <4> QED  BY <3>1, <4>1, <4>2, <1>6
    <3>2. CASE q = p /\ asked'[q].session = s
      BY <3>2, <1>1, <1>6, NoneIsNothing
    <3> QED  BY <2>2, <3>1, <3>2, <1>8
  <2>3. \A d \in Checkout : stamp'[d] <= moves' + 1
    BY DEF Stamp, world, CatalogInv, PassOK
  <2>4. ASSUME NEW q \in Proc, pc'[q] \notin Passing  PROVE Attributed(q)'
    <3>1. Attributed(q)
      BY <2>4 DEF Stamp, CatalogInv, PassOK
    <3>2. q # p
      BY <3>1, <1>1 DEF Attributed
    <3> QED  BY <3>1, <3>2 DEF Stamp, Attributed, CatalogInv, TypeOK
  <2> QED  BY <2>1, <2>2, <2>3, <2>4 DEF PassOK
<1>11. TypeOK'
  BY <1>5, <1>7, <1>8, <1>9 DEF Stamp, world, disk, CatalogInv, TypeOK
<1> QED  BY <1>6, <1>10, <1>11 DEF CatalogInv

LEMMA AnswerKeeps ==
    ASSUME CatalogInv, NEW p \in Proc, NEW answer \in Origin \cup {None},
           asked[p] # None, Answer(p, answer)
    PROVE  /\ CatalogInv'
           /\ \A q \in Proc, r \in Session : /\ rows'[q][r].version = rows[q][r].version
                                             /\ rows'[q][r].cwd = rows[q][r].cwd
<1> DEFINE s == asked[p].session
           project == IF answer # None THEN answer ELSE rows[p][s].project
<1>1. s \in Session /\ asked[p].stamp \in 1..MaxMoves + 1
  BY DEF CatalogInv, TypeOK
<1>2. rows[p][s] \in Row /\ rows[p][s].cwd \in Checkout
  BY <1>1 DEF CatalogInv, TypeOK, PassOK, Row
<1>3. project \in Origin \cup {Guess, None}
  BY <1>2 DEF Row
<1>4. rows' = [rows EXCEPT ![p] = [rows[p] EXCEPT ![s] = InProject(rows[p][s], project)]]
  BY DEF Answer
<1>5. InProject(rows[p][s], project) \in Row
  BY <1>2, <1>3 DEF InProject, Row
<1>6. rows' \in [Proc -> [Session -> Row]]
  BY <1>4, <1>5 DEF CatalogInv, TypeOK
<1>7. \A q \in Proc, r \in Session : /\ rows'[q][r].version = rows[q][r].version
                                     /\ rows'[q][r].cwd = rows[q][r].cwd
  BY <1>2, <1>4 DEF InProject, CatalogInv, TypeOK, Row
<1>8. mem' \in [Proc -> Memo]
  <2>1. Remembered(p, answer) \in [stamp : 0..MaxMoves + 1, project : Origin \cup {None}]
    BY <1>1, BoundsType DEF Remembered
  <2>2. mem[p] \in Memo
    BY DEF CatalogInv, TypeOK
  <2>3. [mem[p] EXCEPT ![rows[p][s].cwd] = Remembered(p, answer)] \in Memo
    BY <2>1, <2>2 DEF Memo
  <2>4. mem' = [mem EXCEPT ![p] = [mem[p] EXCEPT ![rows[p][s].cwd] = Remembered(p, answer)]]
    BY DEF Answer
  <2> QED  BY <2>3, <2>4 DEF CatalogInv, TypeOK
<1>9. touched' \in [Proc -> BOOLEAN] /\ dirty' \in [Proc -> BOOLEAN]
  BY DEF Answer, CatalogInv, TypeOK
<1>10. /\ asked' \in [Proc -> [session : Session, stamp : 1..MaxMoves + 1] \cup {None}]
       /\ \A q \in Proc : asked'[q] # None => asked'[q] = asked[q]
  BY DEF Answer, CatalogInv, TypeOK
<1>11. PassOK'
  <2>1. ASSUME NEW q \in Proc, NEW r \in todo'[q]  PROVE rows'[q][r].cwd # None
    <3>1. r \in todo[q] /\ r \in Session
      BY <2>1 DEF Answer, CatalogInv, TypeOK
    <3>2. rows[q][r].cwd # None
      BY <3>1 DEF CatalogInv, PassOK
    <3> QED  BY <3>1, <3>2, <1>7
  <2>2. ASSUME NEW q \in Proc, asked'[q] # None  PROVE rows'[q][asked'[q].session].cwd # None
    <3>1. asked'[q] = asked[q] /\ asked[q].session \in Session
      BY <2>2, <1>10
    <3>2. rows[q][asked[q].session].cwd # None
      BY <2>2, <3>1 DEF CatalogInv, PassOK
    <3> QED  BY <3>1, <3>2, <1>7
  <2>3. \A d \in Checkout : stamp'[d] <= moves' + 1
    BY DEF Answer, world, CatalogInv, PassOK
  <2>4. ASSUME NEW q \in Proc, pc'[q] \notin Passing  PROVE Attributed(q)'
    <3>1. Attributed(q)
      BY <2>4 DEF Answer, CatalogInv, PassOK
    <3> QED  BY <3>1 DEF Answer, Attributed, CatalogInv, TypeOK
  <2> QED  BY <2>1, <2>2, <2>3, <2>4 DEF PassOK
<1>12. TypeOK'
  BY <1>6, <1>8, <1>9, <1>10 DEF Answer, world, disk, CatalogInv, TypeOK
<1> QED  BY <1>7, <1>11, <1>12 DEF CatalogInv

\* git's answer is a slug or nothing.
LEMMA AskIsAnswer ==
    ASSUME CatalogInv, NEW p \in Proc, Ask(p) \/ AskFails(p)
    PROVE  /\ asked[p] # None
           /\ rows[p][asked[p].session].cwd \in Checkout
           /\ \E answer \in {origin[rows[p][asked[p].session].cwd], None} :
                  answer \in Origin \cup {None} /\ Answer(p, answer)
<1>1. asked[p] # None
  BY DEF Ask, AskFails
<1>2. asked[p].session \in Session
  BY <1>1 DEF CatalogInv, TypeOK
<1>3. rows[p][asked[p].session].cwd \in Checkout
  BY <1>1, <1>2 DEF CatalogInv, TypeOK, PassOK, Row
<1>4. origin[rows[p][asked[p].session].cwd] \in Origin \cup {None}
  BY <1>3 DEF CatalogInv, TypeOK
<1> QED  BY <1>1, <1>3, <1>4 DEF Ask, AskFails

LEMMA InitCatalogInv == Init => CatalogInv
<1> SUFFICES ASSUME Init PROVE CatalogInv
  OBVIOUS
<1>1. NoRow \in Row
  BY NoRowIsRow
<1>2. NoRows \in [Session -> Row] /\ NoMemo \in Memo
  BY <1>1, BoundsType DEF NoRows, NoMemo, Memo
<1>3. census \in BOOLEAN /\ touched \in [Proc -> BOOLEAN] /\ dirty \in [Proc -> BOOLEAN]
  BY DEF Init
<1>4. /\ file \in [Session -> {"none", "hot", "cold"}]
      /\ version \in [Session -> 0..MaxVersion]
      /\ origin \in [Checkout -> Origin \cup {None}]
      /\ stamp \in [Checkout -> 1..MaxMoves + 1]
      /\ catalog \in [Session -> Row] /\ memo \in Memo
      /\ lock \in Proc \cup {None}
  BY <1>2, BoundsType, FirstType DEF Init
<1>5. /\ pc \in [Proc -> {"idle", "fresh", "preview", "lock", "merge", "rebuild", "publish"}]
      /\ seen \in [Proc -> [Session -> Row]] /\ delta \in [Proc -> [Session -> Row]]
      /\ rows \in [Proc -> [Session -> Row]] /\ todo \in [Proc -> SUBSET Session]
      /\ asked \in [Proc -> [session : Session, stamp : 1..MaxMoves + 1] \cup {None}]
      /\ mem \in [Proc -> Memo] /\ moves \in 0..MaxMoves
  BY <1>2, BoundsType DEF Init
<1>6. \A p \in Proc : pc[p] = "merge" <=> lock = p
  BY NoneIsNothing DEF Init
<1>7. TypeOK
  BY <1>3, <1>4, <1>5, <1>6 DEF TypeOK
<1>8. PassOK
  BY DEF Init, PassOK, Attributed
<1> QED  BY <1>7, <1>8 DEF CatalogInv

LEMMA NextCatalogInv == CatalogInv /\ [Next]_vars => CatalogInv'
<1> SUFFICES ASSUME CatalogInv, [Next]_vars PROVE CatalogInv'
  OBVIOUS
<1>1. ASSUME NEW s \in Session, Append(s)  PROVE CatalogInv'
  <2>1. file' \in [Session -> {"none", "hot", "cold"}] /\ version' \in [Session -> 0..MaxVersion]
    BY <1>1, BoundsType DEF Append, CatalogInv, TypeOK
  <2>2. TypeOK'
    BY <1>1, <2>1 DEF Append, disk, pass, CatalogInv, TypeOK
  <2>3. PassOK'
    BY <1>1 DEF Append, pass, CatalogInv, PassOK, Attributed
  <2> QED  BY <2>2, <2>3 DEF CatalogInv
<1>2. ASSUME NEW s \in Session, Age(s)  PROVE CatalogInv'
  <2>1. file' \in [Session -> {"none", "hot", "cold"}]
    BY <1>2 DEF Age, CatalogInv, TypeOK
  <2>2. TypeOK'
    BY <1>2, <2>1 DEF Age, disk, pass, CatalogInv, TypeOK
  <2>3. PassOK'
    BY <1>2 DEF Age, pass, CatalogInv, PassOK, Attributed
  <2> QED  BY <2>2, <2>3 DEF CatalogInv
<1>3. ASSUME NEW c \in Checkout, Repoint(c)  PROVE CatalogInv'
  <2>1. moves' \in 0..MaxMoves /\ moves' = moves + 1
    BY <1>3, BoundsType DEF Repoint, CatalogInv, TypeOK
  <2>2. origin' \in [Checkout -> Origin \cup {None}]
    BY <1>3 DEF Repoint, CatalogInv, TypeOK
  <2>3. stamp' \in [Checkout -> 1..MaxMoves + 1] /\ \A d \in Checkout : stamp'[d] <= moves' + 1
    BY <1>3, <2>1, BoundsType DEF Repoint, CatalogInv, TypeOK, PassOK
  <2>4. TypeOK'
    BY <1>3, <2>1, <2>2, <2>3 DEF Repoint, disk, pass, CatalogInv, TypeOK
  <2>5. PassOK'
    BY <1>3, <2>3 DEF Repoint, pass, CatalogInv, PassOK, Attributed
  <2> QED  BY <2>4, <2>5 DEF CatalogInv
<1>4. ASSUME NEW p \in Proc, NEW s \in Session, Stamp(p, s)  PROVE CatalogInv'
  BY <1>4, StampKeeps
<1>5. ASSUME NEW p \in Proc, Ask(p) \/ AskFails(p)  PROVE CatalogInv'
  BY <1>5, AskIsAnswer, AnswerKeeps
<1>6. ASSUME NEW p \in Proc, RefreshScan(p)  PROVE CatalogInv'
  <2> DEFINE table == [s \in Session |-> IF Fresh(s) THEN EntryFromSource(s) ELSE NoRow]
  <2>1. table \in [Session -> Row]
    BY TablesAreRows, NoRowIsRow DEF CatalogInv
  <2>2. /\ Goto(p, "idle", "fresh") /\ Reattribute(p, table, memo)
        /\ stamp' = stamp /\ moves' = moves /\ asked[p] = None /\ memo \in Memo
    BY <1>6 DEF RefreshScan, world, Goto, CatalogInv, TypeOK, PassOK, Passing, Attributed
  <2>3. /\ PassTypes' /\ PassOK'
    BY <2>1, <2>2, PassStarts DEF Passing
  <2>4. seen' \in [Proc -> [Session -> Row]]
    BY <1>6 DEF RefreshScan, CatalogInv, TypeOK
  <2>5. TypeOK'
    BY <1>6, <2>3, <2>4 DEF RefreshScan, Goto, PassTypes, world, disk, CatalogInv, TypeOK
  <2> QED  BY <2>3, <2>5 DEF CatalogInv
<1>7. ASSUME NEW p \in Proc, RefreshPreview(p)  PROVE CatalogInv'
  <2>1. /\ catalog \in [Session -> Row] /\ Persisted(p) \in Memo /\ Changed(p) \in [Session -> Row]
        /\ NoRows \in [Session -> Row]
    BY TablesAreRows, NoRowIsRow DEF CatalogInv, TypeOK, NoRows, Persisted, Changed
  <2>2. /\ Goto(p, "fresh", "preview") /\ Reattribute(p, catalog, Persisted(p))
        /\ stamp' = stamp /\ moves' = moves /\ asked[p] = None
    BY <1>7 DEF RefreshPreview, world, Attributed
  <2>3. PassTypes' /\ PassOK'
    BY <2>1, <2>2, PassStarts DEF Passing
  <2>4. /\ seen' \in [Proc -> [Session -> Row]] /\ delta' \in [Proc -> [Session -> Row]]
        /\ memo' \in Memo
    BY <1>7, <2>1 DEF RefreshPreview, CatalogInv, TypeOK
  <2>5. TypeOK'
    BY <1>7, <2>3, <2>4 DEF RefreshPreview, Goto, PassTypes, world, CatalogInv, TypeOK
  <2> QED  BY <2>3, <2>5 DEF CatalogInv
<1>8. ASSUME NEW p \in Proc, RefreshUnchanged(p)  PROVE CatalogInv'
  <2>1. /\ Finish(p) /\ stamp' = stamp /\ moves' = moves /\ memo' \in Memo
    BY <1>8 DEF RefreshUnchanged, world, Persisted, CatalogInv, TypeOK
  <2>2. PassTypes' /\ PassOK' /\ seen' \in [Proc -> [Session -> Row]] /\ delta' \in [Proc -> [Session -> Row]]
    BY <2>1, FinishIsClean
  <2>3. TypeOK'
    BY <1>8, <2>1, <2>2 DEF RefreshUnchanged, Finish, PassTypes, world, CatalogInv, TypeOK
  <2> QED  BY <2>2, <2>3 DEF CatalogInv
<1>9. ASSUME NEW p \in Proc, RefreshPending(p)  PROVE CatalogInv'
  <2>1. memo' \in Memo /\ dirty' \in [Proc -> BOOLEAN]
    BY <1>9 DEF RefreshPending, Persisted, CatalogInv, TypeOK
  <2>2. TypeOK'
    BY <1>9, <2>1 DEF RefreshPending, Goto, world, CatalogInv, TypeOK
  <2>3. PassOK'
    BY <1>9 DEF RefreshPending, Goto, world, CatalogInv, TypeOK, PassOK, Attributed
  <2> QED  BY <2>2, <2>3 DEF CatalogInv
<1>10. ASSUME NEW p \in Proc, RefreshLock(p)  PROVE CatalogInv'
  <2>1. /\ Merged(p) \in [Session -> Row] /\ mem[p] \in Memo
    BY DEF CatalogInv, TypeOK, Merged
  <2>2. /\ Goto(p, "lock", "merge") /\ Reattribute(p, Merged(p), mem[p])
        /\ stamp' = stamp /\ moves' = moves /\ asked[p] = None
    BY <1>10 DEF RefreshLock, world, Goto, CatalogInv, PassOK, Passing, Attributed
  <2>3. PassTypes' /\ PassOK'
    BY <2>1, <2>2, PassStarts DEF Passing
  <2>4. \A q \in Proc : pc'[q] = "merge" <=> lock' = q
    BY <1>10, NoneIsNothing DEF RefreshLock, Goto, CatalogInv, TypeOK
  <2>5. TypeOK'
    BY <1>10, <2>3, <2>4 DEF RefreshLock, Goto, PassTypes, world, CatalogInv, TypeOK
  <2> QED  BY <2>3, <2>5 DEF CatalogInv
<1>11. ASSUME NEW p \in Proc, RefreshWrite(p)  PROVE CatalogInv'
  <2>1. /\ Finish(p) /\ stamp' = stamp /\ moves' = moves /\ memo' \in Memo
        /\ catalog' \in [Session -> Row]
    BY <1>11 DEF RefreshWrite, world, Persisted, CatalogInv, TypeOK
  <2>2. PassTypes' /\ PassOK' /\ seen' \in [Proc -> [Session -> Row]] /\ delta' \in [Proc -> [Session -> Row]]
    BY <2>1, FinishIsClean
  <2>3. \A q \in Proc : pc'[q] = "merge" <=> lock' = q
    BY <1>11, NoneIsNothing DEF RefreshWrite, Finish, CatalogInv, TypeOK
  <2>4. TypeOK'
    BY <1>11, <2>1, <2>2, <2>3 DEF RefreshWrite, Finish, PassTypes, world, CatalogInv, TypeOK
  <2> QED  BY <2>2, <2>4 DEF CatalogInv
<1>12. ASSUME NEW p \in Proc, RebuildScan(p)  PROVE CatalogInv'
  <2> DEFINE table == [s \in Session |-> IF file[s] # "none" THEN EntryFromDiscovery(s) ELSE NoRow]
  <2>1. table \in [Session -> Row]
    BY TablesAreRows, NoRowIsRow DEF CatalogInv
  <2>2. /\ Goto(p, "idle", "rebuild") /\ Reattribute(p, table, memo)
        /\ stamp' = stamp /\ moves' = moves /\ asked[p] = None /\ memo \in Memo
    BY <1>12 DEF RebuildScan, world, Goto, CatalogInv, TypeOK, PassOK, Passing, Attributed
  <2>3. /\ PassTypes' /\ PassOK'
    BY <2>1, <2>2, PassStarts DEF Passing
  <2>4. TypeOK'
    BY <1>12, <2>3 DEF RebuildScan, Goto, PassTypes, world, disk, CatalogInv, TypeOK
  <2> QED  BY <2>3, <2>4 DEF CatalogInv
<1>13. ASSUME NEW p \in Proc, RebuildAttributed(p)  PROVE CatalogInv'
  <2>1. memo' \in Memo /\ dirty' \in [Proc -> BOOLEAN]
    BY <1>13 DEF RebuildAttributed, Persisted, CatalogInv, TypeOK
  <2>2. TypeOK'
    BY <1>13, <2>1 DEF RebuildAttributed, Goto, world, CatalogInv, TypeOK
  <2>3. PassOK'
    BY <1>13 DEF RebuildAttributed, Goto, world, CatalogInv, TypeOK, PassOK, Attributed
  <2> QED  BY <2>2, <2>3 DEF CatalogInv
<1>14. ASSUME NEW p \in Proc, RebuildPublish(p)  PROVE CatalogInv'
  <2>1. /\ Finish(p) /\ stamp' = stamp /\ moves' = moves /\ catalog' \in [Session -> Row]
    BY <1>14 DEF RebuildPublish, world, CatalogInv, TypeOK
  <2>2. PassTypes' /\ PassOK' /\ seen' \in [Proc -> [Session -> Row]] /\ delta' \in [Proc -> [Session -> Row]]
    BY <2>1, FinishIsClean
  <2>3. census' \in BOOLEAN
    BY <1>14 DEF RebuildPublish
  <2>4. TypeOK'
    BY <1>14, <2>1, <2>2, <2>3 DEF RebuildPublish, Finish, PassTypes, world, CatalogInv, TypeOK
  <2> QED  BY <2>2, <2>4 DEF CatalogInv
<1>15. ASSUME NEW p \in Proc, Kill(p)  PROVE CatalogInv'
  <2>1. /\ Finish(p) /\ stamp' = stamp /\ moves' = moves
    BY <1>15 DEF Kill, world
  <2>2. PassTypes' /\ PassOK' /\ seen' \in [Proc -> [Session -> Row]] /\ delta' \in [Proc -> [Session -> Row]]
    BY <2>1, FinishIsClean
  <2>3. \A q \in Proc : pc'[q] = "merge" <=> lock' = q
    BY <1>15, NoneIsNothing DEF Kill, Finish, CatalogInv, TypeOK
  <2>4. TypeOK'
    BY <1>15, <2>2, <2>3 DEF Kill, Finish, PassTypes, world, CatalogInv, TypeOK
  <2> QED  BY <2>2, <2>4 DEF CatalogInv
<1>16. CASE UNCHANGED vars
  <2>1. TypeOK'
    BY <1>16 DEF vars, world, disk, pass, CatalogInv, TypeOK
  <2>2. PassOK'
    BY <1>16 DEF vars, world, disk, pass, CatalogInv, PassOK, Attributed
  <2> QED  BY <2>1, <2>2 DEF CatalogInv
<1> QED
  BY <1>1, <1>2, <1>3, <1>4, <1>5, <1>6, <1>7, <1>8, <1>9, <1>10, <1>11, <1>12, <1>13,
     <1>14, <1>15, <1>16
  DEF Next, World, Attribute, Refresh, Rebuild

\* Every state of the catalog, the memo and the processes is well typed, and
\* merging means holding catalog.lock.
THEOREM CatalogTypeOK == Spec => []TypeOK
<1>1. CatalogInv => TypeOK
  BY DEF CatalogInv
<1> QED  BY <1>1, InitCatalogInv, NextCatalogInv, PTL DEF Spec

-----------------------------------------------------------------------------
\* Steps that leave the checkouts alone and ask git nothing keep MemoInv when
\* each process's memo is its own, the file's or a fresh one.
LEMMA MemosMove ==
    ASSUME MemoInv, CatalogInv, stamp' = stamp, origin' = origin,
           NoMemo \in Memo,
           \A q \in Proc : mem'[q] \in {mem[q], memo, NoMemo} \cup {mem[r] : r \in Proc},
           memo' \in {memo} \cup {mem[r] : r \in Proc},
           \A q \in Proc : asked'[q] # None =>
               asked'[q].stamp <= stamp[rows'[q][asked'[q].session].cwd]
    PROVE  MemoInv'
<1>1. Behind(NoMemo) /\ Trusted(NoMemo)
  BY DEF Behind, Trusted, NoMemo, CatalogInv, TypeOK
<1>2. Behind(memo') /\ Trusted(memo')
  BY DEF MemoInv
<1>3. \A q \in Proc : Behind(mem'[q]) /\ Trusted(mem'[q])
  BY <1>1 DEF MemoInv
<1>4. \A m : Behind(m) /\ Trusted(m) =>
          /\ \A c \in Checkout : m[c].stamp <= stamp'[c]
          /\ \A c \in Checkout \ Linked : m[c].stamp = stamp'[c] => m[c].project \in {origin'[c], None}
  BY DEF Behind, Trusted
<1> QED  BY <1>2, <1>3, <1>4 DEF MemoInv, Behind, Trusted

LEMMA NextMemoInv == CatalogInv /\ CatalogInv' /\ MemoInv /\ [Next]_vars => MemoInv'
<1> SUFFICES ASSUME CatalogInv, CatalogInv', MemoInv, [Next]_vars PROVE MemoInv'
  OBVIOUS
<1>0. NoMemo \in Memo
  BY BoundsType DEF NoMemo, Memo
\* A new stamp is ahead of every stamp kept.
<1>1. ASSUME NEW c \in Checkout, Repoint(c)  PROVE MemoInv'
  <2>1. /\ \A d \in Checkout : stamp[d] \in Nat /\ stamp'[d] \in Nat
        /\ \A d \in Checkout : stamp'[d] >= stamp[d]
        /\ \A d \in Checkout \ Linked : stamp'[d] # stamp[d] \/ origin'[d] = origin[d]
    BY <1>1, BoundsType DEF Repoint, CatalogInv, TypeOK
  <2>2. ASSUME NEW m \in Memo, Behind(m), Trusted(m)
        PROVE  Behind(m)' /\ Trusted(m)'
    <3>1. \A d \in Checkout : m[d].stamp \in Nat
      BY BoundsType DEF Memo
    <3>2. \A d \in Checkout : m[d].stamp <= stamp'[d]
      BY <2>1, <2>2, <3>1 DEF Behind
    <3>3. ASSUME NEW d \in Checkout \ Linked, m[d].stamp = stamp'[d]
          PROVE  m[d].project \in {origin'[d], None}
      <4>1. stamp'[d] = stamp[d]
        BY <2>1, <2>2, <3>1, <3>3 DEF Behind
      <4> QED  BY <4>1, <2>1, <2>2, <3>3 DEF Trusted
    <3> QED  BY <3>2, <3>3 DEF Behind, Trusted
  <2>3. /\ memo \in Memo /\ memo' = memo /\ mem' = mem /\ asked' = asked /\ rows' = rows
        /\ \A q \in Proc : mem[q] \in Memo
    BY <1>1 DEF Repoint, disk, pass, CatalogInv, TypeOK
  <2>4. ASSUME NEW q \in Proc, asked'[q] # None
        PROVE  asked'[q].stamp <= stamp'[rows'[q][asked'[q].session].cwd]
    <3>1. asked[q].session \in Session /\ asked[q].stamp \in Nat
      BY <2>3, <2>4 DEF CatalogInv, TypeOK
    <3>2. rows[q][asked[q].session].cwd \in Checkout
      BY <2>3, <2>4, <3>1 DEF CatalogInv, TypeOK, PassOK, Row
    <3>3. asked[q].stamp <= stamp[rows[q][asked[q].session].cwd]
      BY <2>3, <2>4 DEF MemoInv
    <3> QED  BY <2>1, <2>3, <3>1, <3>2, <3>3
  <2>5. Behind(memo)' /\ Trusted(memo)'
    BY <2>2, <2>3 DEF MemoInv, Behind, Trusted
  <2>6. \A q \in Proc : Behind(mem[q])' /\ Trusted(mem[q])'
    BY <2>2, <2>3 DEF MemoInv, Behind, Trusted
  <2> QED  BY <2>4, <2>5, <2>6 DEF MemoInv
\* The stamp of a miss is the present one.
<1>2. ASSUME NEW p \in Proc, NEW s \in Session, Stamp(p, s)  PROVE MemoInv'
  <2>1. \A q \in Proc, r \in Session : rows'[q][r].cwd = rows[q][r].cwd
    BY <1>2, StampKeeps
  <2>2. ASSUME NEW q \in Proc, asked'[q] # None
        PROVE  asked'[q].stamp <= stamp[rows'[q][asked'[q].session].cwd]
    <3>1. asked'[q].session \in Session
      BY <2>2 DEF CatalogInv, TypeOK
    <3>2. CASE asked'[q] = asked[q]
      BY <2>1, <2>2, <3>1, <3>2 DEF MemoInv
    <3>3. CASE asked'[q] # asked[q]
      <4>1. q = p /\ asked'[q] = [session |-> s, stamp |-> stamp[rows[p][s].cwd]]
        <5>1. asked' = [asked EXCEPT ![p] =
                  IF mem[p][rows[p][s].cwd].stamp = stamp[rows[p][s].cwd] THEN None
                  ELSE [session |-> s, stamp |-> stamp[rows[p][s].cwd]]]
          BY <1>2 DEF Stamp, Hit
        <5>2. q = p
          BY <3>3, <5>1 DEF CatalogInv, TypeOK
        <5>3. DOMAIN asked = Proc
          BY DEF CatalogInv, TypeOK
        <5> QED  BY <2>2, <5>1, <5>2, <5>3
      <4>2. rows[p][s].cwd \in Checkout
        <5>1. s \in todo[p] /\ rows[p][s] \in Row
          <6>1. s \in todo[p]
            BY <1>2 DEF Stamp
          <6>2. rows[p][s] \in Row
            BY DEF CatalogInv, TypeOK
          <6> QED  BY <6>1, <6>2
        <5>2. rows[p][s].cwd # None
          BY <5>1 DEF CatalogInv, PassOK
        <5> QED  BY <5>1, <5>2 DEF Row
      <4>3. stamp[rows[p][s].cwd] \in Nat
        BY <4>2, BoundsType DEF CatalogInv, TypeOK
      <4> QED  BY <4>1, <4>3, <2>1
    <3> QED  BY <3>2, <3>3
  <2>3. stamp' = stamp /\ origin' = origin /\ mem' = mem /\ memo' = memo
    BY <1>2 DEF Stamp, world, disk
  <2> QED  BY <1>0, <2>2, <2>3, MemosMove
\* If no move came between the stamp and git, the origin is the present one.
<1>3. ASSUME NEW p \in Proc, Ask(p) \/ AskFails(p)  PROVE MemoInv'
  <2>0. /\ \A d \in Checkout : mem[p][d].stamp <= stamp[d]
        /\ \A d \in Checkout \ Linked :
               mem[p][d].stamp = stamp[d] => mem[p][d].project \in {origin[d], None}
    BY DEF MemoInv, Behind, Trusted
  <2> DEFINE c == rows[p][asked[p].session].cwd
  <2>1. /\ asked[p] # None /\ c \in Checkout
        /\ \E answer \in {origin[c], None} : answer \in Origin \cup {None} /\ Answer(p, answer)
    BY <1>3, AskIsAnswer
  <2>2. PICK answer \in {origin[c], None} : answer \in Origin \cup {None} /\ Answer(p, answer)
    BY <2>1
  <2>3. \A q \in Proc, r \in Session : rows'[q][r].cwd = rows[q][r].cwd
    BY <2>1, <2>2, AnswerKeeps
  <2>4. /\ stamp' = stamp /\ origin' = origin /\ memo' = memo
        /\ mem' = [mem EXCEPT ![p] = [mem[p] EXCEPT ![c] = Remembered(p, answer)]]
    BY <2>2 DEF Answer, world, disk
  <2>5. asked[p].stamp <= stamp[c]
    BY <2>1 DEF MemoInv
  <2>6. ASSUME NEW q \in Proc  PROVE Behind(mem[q])' /\ Trusted(mem[q])'
    <3>1. CASE q # p
      <4>1. mem'[q] = mem[q] /\ Behind(mem[q]) /\ Trusted(mem[q])
        BY <2>4, <3>1 DEF MemoInv, CatalogInv, TypeOK
      <4> QED  BY <2>4, <4>1 DEF Behind, Trusted
    <3>2. CASE q = p
      <4>1. mem'[p] = [mem[p] EXCEPT ![c] = Remembered(p, answer)] /\ mem[p] \in Memo
        BY <2>4 DEF CatalogInv, TypeOK
      <4>2. ASSUME NEW d \in Checkout
            PROVE  mem'[p][d] = IF d = c THEN Remembered(p, answer) ELSE mem[p][d]
        BY <4>1 DEF Memo
      <4>3. ASSUME NEW d \in Checkout
            PROVE  /\ mem'[p][d].stamp <= stamp[d]
                   /\ d \notin Linked /\ mem'[p][d].stamp = stamp[d] =>
                          mem'[p][d].project \in {origin[d], None}
        <5>1. CASE d = c
          <6>1. mem'[p][d].stamp = asked[p].stamp /\ mem'[p][d].project = answer
            <7>1. mem'[p][d] = Remembered(p, answer)
              BY <4>2, <5>1
            <7> QED  BY <7>1 DEF Remembered
          <6> QED  BY <2>2, <2>5, <5>1, <6>1
        <5>2. CASE d # c
          <6>1. mem'[p][d] = mem[p][d]
            BY <4>2, <5>2
          <6> QED  BY <2>0, <6>1
        <5> QED  BY <5>1, <5>2
      <4>4. Behind(mem[p])'
        BY <2>4, <4>3 DEF Behind
      <4>5. Trusted(mem[p])'
        BY <2>4, <4>3 DEF Trusted
      <4> QED  BY <3>2, <4>4, <4>5
    <3> QED  BY <3>1, <3>2
  <2>7. ASSUME NEW q \in Proc, asked'[q] # None
        PROVE  asked'[q].stamp <= stamp'[rows'[q][asked'[q].session].cwd]
    <3>1. asked'[q] = asked[q] /\ asked[q].session \in Session
      <4>1. asked'[q] = asked[q]
        <5>1. asked' = [asked EXCEPT ![p] = None]
          BY <2>2 DEF Answer
        <5> QED  BY <2>7, <5>1 DEF CatalogInv, TypeOK
      <4> QED  BY <2>7, <4>1 DEF CatalogInv, TypeOK
    <3> QED  BY <2>3, <2>4, <2>7, <3>1 DEF MemoInv
  <2>8. Behind(memo)' /\ Trusted(memo)'
    BY <2>4 DEF MemoInv, Behind, Trusted
  <2> QED  BY <2>6, <2>7, <2>8 DEF MemoInv
<1>4. ASSUME NEW p \in Proc, RefreshScan(p)  PROVE MemoInv'
  <2>1. /\ stamp' = stamp /\ origin' = origin /\ asked[p] = None /\ asked' = asked
        /\ rows' = [rows EXCEPT ![p] = rows'[p]] /\ memo' \in {memo, mem[p]}
        /\ mem' = [mem EXCEPT ![p] = memo]
    <3>1. pc[p] = "idle"
      BY <1>4 DEF RefreshScan, Goto
    <3>2. asked[p] = None
      BY <3>1 DEF CatalogInv, PassOK, Passing, Attributed
    <3> QED  BY <1>4, <3>2 DEF RefreshScan, Reattribute, world, disk
  <2>2. \A q \in Proc : asked'[q] # None => asked'[q] = asked[q] /\ rows'[q] = rows[q]
    BY <2>1 DEF CatalogInv, TypeOK
  <2>3. \A q \in Proc : asked'[q] # None =>
            asked'[q].stamp <= stamp[rows'[q][asked'[q].session].cwd]
    BY <2>2 DEF MemoInv
  <2>4. \A q \in Proc : mem'[q] \in {mem[q], memo, NoMemo} \cup {mem[r] : r \in Proc}
    BY <2>1 DEF Persisted, CatalogInv, TypeOK
  <2> QED  BY <1>0, <2>1, <2>3, <2>4, MemosMove
<1>5. ASSUME NEW p \in Proc, RefreshPreview(p)  PROVE MemoInv'
  <2>1. /\ stamp' = stamp /\ origin' = origin /\ asked[p] = None /\ asked' = asked
        /\ rows' = [rows EXCEPT ![p] = rows'[p]] /\ memo' \in {memo, mem[p]}
        /\ mem' = [mem EXCEPT ![p] = Persisted(p)]
    <3>1. asked[p] = None
      BY <1>5 DEF RefreshPreview, Goto, Attributed, CatalogInv, PassOK, Passing
    <3> QED  BY <1>5, <3>1 DEF RefreshPreview, Reattribute, world, disk, Persisted
  <2>2. \A q \in Proc : asked'[q] # None => asked'[q] = asked[q] /\ rows'[q] = rows[q]
    BY <2>1 DEF CatalogInv, TypeOK
  <2>3. \A q \in Proc : asked'[q] # None =>
            asked'[q].stamp <= stamp[rows'[q][asked'[q].session].cwd]
    BY <2>2 DEF MemoInv
  <2>4. \A q \in Proc : mem'[q] \in {mem[q], memo, NoMemo} \cup {mem[r] : r \in Proc}
    BY <2>1 DEF Persisted, CatalogInv, TypeOK
  <2> QED  BY <1>0, <2>1, <2>3, <2>4, MemosMove
<1>6. ASSUME NEW p \in Proc, RefreshLock(p)  PROVE MemoInv'
  <2>1. /\ stamp' = stamp /\ origin' = origin /\ asked[p] = None /\ asked' = asked
        /\ rows' = [rows EXCEPT ![p] = rows'[p]] /\ memo' \in {memo, mem[p]}
        /\ mem' = [mem EXCEPT ![p] = mem[p]]
    <3>1. pc[p] = "lock"
      BY <1>6 DEF RefreshLock, Goto
    <3>2. asked[p] = None
      BY <3>1 DEF CatalogInv, PassOK, Passing, Attributed
    <3> QED  BY <1>6, <3>2 DEF RefreshLock, Reattribute, world
  <2>2. \A q \in Proc : asked'[q] # None => asked'[q] = asked[q] /\ rows'[q] = rows[q]
    BY <2>1 DEF CatalogInv, TypeOK
  <2>3. \A q \in Proc : asked'[q] # None =>
            asked'[q].stamp <= stamp[rows'[q][asked'[q].session].cwd]
    BY <2>2 DEF MemoInv
  <2>4. \A q \in Proc : mem'[q] \in {mem[q], memo, NoMemo} \cup {mem[r] : r \in Proc}
    BY <2>1 DEF Persisted, CatalogInv, TypeOK
  <2> QED  BY <1>0, <2>1, <2>3, <2>4, MemosMove
<1>7. ASSUME NEW p \in Proc, RebuildScan(p)  PROVE MemoInv'
  <2>1. /\ stamp' = stamp /\ origin' = origin /\ asked[p] = None /\ asked' = asked
        /\ rows' = [rows EXCEPT ![p] = rows'[p]] /\ memo' \in {memo, mem[p]}
        /\ mem' = [mem EXCEPT ![p] = memo]
    <3>1. pc[p] = "idle"
      BY <1>7 DEF RebuildScan, Goto
    <3>2. asked[p] = None
      BY <3>1 DEF CatalogInv, PassOK, Passing, Attributed
    <3> QED  BY <1>7, <3>2 DEF RebuildScan, Reattribute, world, disk
  <2>2. \A q \in Proc : asked'[q] # None => asked'[q] = asked[q] /\ rows'[q] = rows[q]
    BY <2>1 DEF CatalogInv, TypeOK
  <2>3. \A q \in Proc : asked'[q] # None =>
            asked'[q].stamp <= stamp[rows'[q][asked'[q].session].cwd]
    BY <2>2 DEF MemoInv
  <2>4. \A q \in Proc : mem'[q] \in {mem[q], memo, NoMemo} \cup {mem[r] : r \in Proc}
    BY <2>1 DEF Persisted, CatalogInv, TypeOK
  <2> QED  BY <1>0, <2>1, <2>3, <2>4, MemosMove
<1>8. ASSUME NEW p \in Proc, RefreshUnchanged(p)  PROVE MemoInv'
  <2>1. /\ stamp' = stamp /\ origin' = origin /\ memo' \in {memo, mem[p]}
        /\ Finish(p)
    BY <1>8 DEF RefreshUnchanged, world, Persisted
  <2>2. \A q \in Proc : asked'[q] # None => asked'[q] = asked[q] /\ rows'[q] = rows[q]
    BY <2>1 DEF Finish, CatalogInv, TypeOK
  <2>3. \A q \in Proc : asked'[q] # None =>
            asked'[q].stamp <= stamp[rows'[q][asked'[q].session].cwd]
    BY <2>2 DEF MemoInv
  <2>4. \A q \in Proc : mem'[q] \in {mem[q], NoMemo}
    BY <2>1 DEF Finish, CatalogInv, TypeOK
  <2> QED  BY <1>0, <2>1, <2>3, <2>4, MemosMove
<1>9. ASSUME NEW p \in Proc, RefreshWrite(p)  PROVE MemoInv'
  <2>1. /\ stamp' = stamp /\ origin' = origin /\ memo' \in {memo, mem[p]}
        /\ Finish(p)
    BY <1>9 DEF RefreshWrite, world, Persisted
  <2>2. \A q \in Proc : asked'[q] # None => asked'[q] = asked[q] /\ rows'[q] = rows[q]
    BY <2>1 DEF Finish, CatalogInv, TypeOK
  <2>3. \A q \in Proc : asked'[q] # None =>
            asked'[q].stamp <= stamp[rows'[q][asked'[q].session].cwd]
    BY <2>2 DEF MemoInv
  <2>4. \A q \in Proc : mem'[q] \in {mem[q], NoMemo}
    BY <2>1 DEF Finish, CatalogInv, TypeOK
  <2> QED  BY <1>0, <2>1, <2>3, <2>4, MemosMove
<1>10. ASSUME NEW p \in Proc, RebuildPublish(p)  PROVE MemoInv'
  <2>1. /\ stamp' = stamp /\ origin' = origin /\ memo' \in {memo, mem[p]}
        /\ Finish(p)
    BY <1>10 DEF RebuildPublish, world, Persisted
  <2>2. \A q \in Proc : asked'[q] # None => asked'[q] = asked[q] /\ rows'[q] = rows[q]
    BY <2>1 DEF Finish, CatalogInv, TypeOK
  <2>3. \A q \in Proc : asked'[q] # None =>
            asked'[q].stamp <= stamp[rows'[q][asked'[q].session].cwd]
    BY <2>2 DEF MemoInv
  <2>4. \A q \in Proc : mem'[q] \in {mem[q], NoMemo}
    BY <2>1 DEF Finish, CatalogInv, TypeOK
  <2> QED  BY <1>0, <2>1, <2>3, <2>4, MemosMove
<1>11. ASSUME NEW p \in Proc, Kill(p)  PROVE MemoInv'
  <2>1. /\ stamp' = stamp /\ origin' = origin /\ memo' \in {memo, mem[p]}
        /\ Finish(p)
    BY <1>11 DEF Kill, world, Persisted
  <2>2. \A q \in Proc : asked'[q] # None => asked'[q] = asked[q] /\ rows'[q] = rows[q]
    BY <2>1 DEF Finish, CatalogInv, TypeOK
  <2>3. \A q \in Proc : asked'[q] # None =>
            asked'[q].stamp <= stamp[rows'[q][asked'[q].session].cwd]
    BY <2>2 DEF MemoInv
  <2>4. \A q \in Proc : mem'[q] \in {mem[q], NoMemo}
    BY <2>1 DEF Finish, CatalogInv, TypeOK
  <2> QED  BY <1>0, <2>1, <2>3, <2>4, MemosMove
<1>12. ASSUME NEW p \in Proc, RefreshPending(p) \/ RebuildAttributed(p)  PROVE MemoInv'
  <2>1. /\ stamp' = stamp /\ origin' = origin /\ mem' = mem /\ asked' = asked /\ rows' = rows
        /\ memo' \in {memo} \cup {mem[r] : r \in Proc}
    BY <1>12 DEF RefreshPending, RebuildAttributed, world, Persisted
  <2>2. \A q \in Proc : asked'[q] # None =>
            asked'[q].stamp <= stamp[rows'[q][asked'[q].session].cwd]
    BY <2>1 DEF MemoInv
  <2> QED  BY <1>0, <2>1, <2>2, MemosMove
<1>13. ASSUME NEW s \in Session, Append(s) \/ Age(s)  PROVE MemoInv'
  <2>1. /\ stamp' = stamp /\ origin' = origin /\ mem' = mem /\ asked' = asked /\ rows' = rows
        /\ memo' \in {memo} \cup {mem[r] : r \in Proc}
    BY <1>13 DEF Append, Age, disk, pass
  <2>2. \A q \in Proc : asked'[q] # None =>
            asked'[q].stamp <= stamp[rows'[q][asked'[q].session].cwd]
    BY <2>1 DEF MemoInv
  <2> QED  BY <1>0, <2>1, <2>2, MemosMove
<1>14. CASE UNCHANGED vars
  <2>1. /\ stamp' = stamp /\ origin' = origin /\ mem' = mem /\ asked' = asked /\ rows' = rows
        /\ memo' \in {memo} \cup {mem[r] : r \in Proc}
    BY <1>14 DEF vars, world, disk, pass
  <2>2. \A q \in Proc : asked'[q] # None =>
            asked'[q].stamp <= stamp[rows'[q][asked'[q].session].cwd]
    BY <2>1 DEF MemoInv
  <2> QED  BY <1>0, <2>1, <2>2, MemosMove
<1> QED
  BY <1>1, <1>2, <1>3, <1>4, <1>5, <1>6, <1>7, <1>8, <1>9, <1>10, <1>11, <1>12, <1>13, <1>14
  DEF Next, World, Attribute, Refresh, Rebuild

\* RemoteMemo: an entry with the present stamp never names a superseded
\* origin, although any number of processes write the memo file unlocked.
THEOREM MemoIsTrustworthy == Spec => []MemoNamesOrigin
<1>1. Init => MemoInv
  BY BoundsType DEF Init, MemoInv, Behind, Trusted, NoMemo
<1>2. MemoInv => MemoNamesOrigin
  BY DEF MemoInv, MemoNamesOrigin
<1> QED  BY <1>1, <1>2, InitCatalogInv, NextCatalogInv, NextMemoInv, PTL DEF Spec

-----------------------------------------------------------------------------
\* A merge in progress is not disturbed by what leaves the catalog, its delta,
\* and the versions and cwds of its rows alone.
LEMMA MergeStays ==
    ASSUME MergeInv, catalog' = catalog,
           \A q \in Proc : pc'[q] = "merge" =>
               /\ pc[q] = "merge" /\ delta'[q] = delta[q]
               /\ \A s \in Session : /\ rows'[q][s].version = rows[q][s].version
                                     /\ rows'[q][s].cwd = rows[q][s].cwd
    PROVE  MergeInv'
  BY DEF MergeInv, Merged, Has

LEMMA NextMergeInv == CatalogInv /\ CatalogInv' /\ MergeInv /\ [Next]_vars => MergeInv'
<1> SUFFICES ASSUME CatalogInv, CatalogInv', MergeInv, [Next]_vars PROVE MergeInv'
  OBVIOUS
<1>1. ASSUME NEW p \in Proc, NEW s \in Session, Stamp(p, s)  PROVE MergeInv'
  <2>1. catalog' = catalog /\ pc' = pc /\ delta' = delta
    BY <1>1 DEF Stamp, disk
  <2> QED  BY <1>1, <2>1, StampKeeps, MergeStays
<1>2. ASSUME NEW p \in Proc, Ask(p) \/ AskFails(p)  PROVE MergeInv'
  <2>1. PICK answer \in Origin \cup {None} : asked[p] # None /\ Answer(p, answer)
    BY <1>2, AskIsAnswer
  <2>2. catalog' = catalog /\ pc' = pc /\ delta' = delta
    BY <2>1 DEF Answer, disk
  <2> QED  BY <2>1, <2>2, AnswerKeeps, MergeStays
\* The merge starts with those rows.
<1>3. ASSUME NEW p \in Proc, RefreshLock(p)  PROVE MergeInv'
  <2>1. /\ catalog' = catalog /\ delta' = delta /\ rows'[p] = Merged(p)
        /\ \A q \in Proc \ {p} : pc'[q] = pc[q] /\ rows'[q] = rows[q]
    BY <1>3 DEF RefreshLock, Reattribute, Goto, CatalogInv, TypeOK
  <2>2. \A q \in Proc : Merged(q)' = Merged(q)
    BY <2>1 DEF Merged, Has
  <2> QED  BY <2>1, <2>2 DEF MergeInv
\* The catalog is replaced by a process that holds the lock: nobody else is
\* merging.
<1>4. ASSUME NEW p \in Proc, RefreshWrite(p) \/ RebuildPublish(p)  PROVE MergeInv'
  <2>1. \A q \in Proc : pc'[q] # "merge"
    BY <1>4, NoneIsNothing DEF RefreshWrite, RebuildPublish, Finish, CatalogInv, TypeOK
  <2> QED  BY <2>1 DEF MergeInv
<1>5. ASSUME NEW p \in Proc, RefreshScan(p) \/ RefreshPreview(p) \/ RebuildScan(p)  PROVE MergeInv'
  <2>1. /\ catalog' = catalog /\ pc'[p] # "merge"
        /\ \A q \in Proc \ {p} : pc'[q] = pc[q] /\ rows'[q] = rows[q] /\ delta'[q] = delta[q]
    BY <1>5 DEF RefreshScan, RefreshPreview, RebuildScan, Reattribute, Goto, disk, CatalogInv, TypeOK
  <2> QED  BY <2>1, MergeStays
<1>6. ASSUME NEW p \in Proc, RefreshPending(p) \/ RebuildAttributed(p)  PROVE MergeInv'
  <2>1. /\ catalog' = catalog /\ rows' = rows /\ delta' = delta /\ pc'[p] # "merge"
        /\ \A q \in Proc \ {p} : pc'[q] = pc[q]
    BY <1>6 DEF RefreshPending, RebuildAttributed, Goto, CatalogInv, TypeOK
  <2> QED  BY <2>1, MergeStays
<1>7. ASSUME NEW p \in Proc, RefreshUnchanged(p) \/ Kill(p)  PROVE MergeInv'
  <2>1. /\ catalog' = catalog /\ pc'[p] # "merge"
        /\ \A q \in Proc \ {p} : pc'[q] = pc[q] /\ rows'[q] = rows[q] /\ delta'[q] = delta[q]
    BY <1>7 DEF RefreshUnchanged, Kill, Finish, CatalogInv, TypeOK
  <2> QED  BY <2>1, MergeStays
<1>8. ASSUME World \/ UNCHANGED vars  PROVE MergeInv'
  <2>1. catalog' = catalog /\ pc' = pc /\ rows' = rows /\ delta' = delta
    BY <1>8 DEF World, Append, Age, Repoint, vars, disk, pass
  <2> QED  BY <2>1, MergeStays
<1> QED
  BY <1>1, <1>2, <1>3, <1>4, <1>5, <1>6, <1>7, <1>8 DEF Next, Attribute, Refresh, Rebuild

\* While a process merges, the only step that changes the catalog is its write.
LEMMA MergerWrites ==
    ASSUME CatalogInv, [Next]_vars, NEW p \in Proc, pc[p] = "merge", catalog' # catalog
    PROVE  catalog' = rows[p]
<1>1. lock = p /\ lock # None
  BY NoneIsNothing DEF CatalogInv, TypeOK
<1>2. ASSUME NEW q \in Proc, RefreshWrite(q)  PROVE catalog' = rows[p]
  <2>1. q = p
    BY <1>1, <1>2 DEF RefreshWrite, CatalogInv, TypeOK
  <2> QED  BY <1>2, <2>1 DEF RefreshWrite
<1>3. ASSUME NEW q \in Proc, RebuildPublish(q)  PROVE FALSE
  BY <1>1, <1>3 DEF RebuildPublish
<1>4. ASSUME NEW q \in Proc, Attribute(q) \/ AskFails(q)  PROVE catalog' = catalog
  BY <1>4 DEF Attribute, Stamp, Ask, AskFails, Answer, disk
<1>5. ASSUME NEW q \in Proc,
             \/ RefreshScan(q) \/ RefreshPreview(q) \/ RefreshUnchanged(q) \/ RefreshPending(q)
             \/ RefreshLock(q) \/ RebuildScan(q) \/ RebuildAttributed(q) \/ Kill(q)
      PROVE  catalog' = catalog
  BY <1>5 DEF RefreshScan, RefreshPreview, RefreshUnchanged, RefreshPending, RefreshLock,
              RebuildScan, RebuildAttributed, Kill, disk
<1>6. ASSUME World \/ UNCHANGED vars  PROVE catalog' = catalog
  BY <1>6 DEF World, Append, Age, Repoint, vars, disk
<1> QED  BY <1>2, <1>3, <1>4, <1>5, <1>6 DEF Next, Refresh, Rebuild

\* refresh_hot's write keeps every row outside its delta as it is on disk at
\* that moment, but for its project.
THEOREM ColdRowsSurviveRefresh == Spec => RefreshKeepsColdRows
<1> DEFINE Kept ==
      \A p \in Proc : pc[p] = "merge" /\ catalog' # catalog =>
        \A s \in Session : Has(catalog, s) =>
            /\ Has(catalog', s)
            /\ ~Has(delta[p], s) => /\ catalog'[s].version = catalog[s].version
                                    /\ catalog'[s].cwd = catalog[s].cwd
<1>1. Init => MergeInv
  BY DEF Init, MergeInv
<1>2. CatalogInv /\ MergeInv /\ [Next]_vars => [Kept]_vars
  <2> SUFFICES ASSUME CatalogInv, MergeInv, [Next]_vars,
                      NEW p \in Proc, pc[p] = "merge", catalog' # catalog,
                      NEW s \in Session, Has(catalog, s)
               PROVE  /\ Has(catalog', s)
                      /\ ~Has(delta[p], s) => /\ catalog'[s].version = catalog[s].version
                                              /\ catalog'[s].cwd = catalog[s].cwd
    OBVIOUS
  <2>1. catalog' = rows[p]
    BY MergerWrites
  <2>2. rows[p][s].version = Merged(p)[s].version /\ rows[p][s].cwd = Merged(p)[s].cwd
    BY DEF MergeInv
  <2> QED  BY <2>1, <2>2 DEF Merged, Has
<1>3. RefreshKeepsColdRows <=> [][Kept]_vars
  BY PTL DEF RefreshKeepsColdRows
<1> QED  BY <1>1, <1>2, <1>3, InitCatalogInv, NextCatalogInv, NextMergeInv, PTL DEF Spec

-----------------------------------------------------------------------------
\* A step of p that changes neither file leaves nothing to do when it leaves
\* p itself with nothing.
LEMMA OthersFoundNothing ==
    ASSUME UpToDate, NEW p \in Proc,
           UNCHANGED <<file, version, stamp, census, catalog, memo>>,
           \A q \in Proc : q # p => /\ pc'[q] = pc[q] /\ delta'[q] = delta[q]
                                    /\ asked'[q] = asked[q] /\ touched'[q] = touched[q]
                                    /\ dirty'[q] = dirty[q] /\ rows'[q] = rows[q]
                                    /\ mem'[q] = mem[q],
           FoundNothing(p)'
    PROVE  UpToDate'
<1>1. ASSUME NEW q \in Proc  PROVE FoundNothing(q)'
  <2>1. CASE q = p
    BY <2>1
  <2>2. CASE q # p
    BY <2>2 DEF UpToDate, FoundNothing
  <2> QED  BY <2>1, <2>2
<1> QED  BY <1>1 DEF UpToDate

\* The process that ends has nothing.
LEMMA FinishFoundNothing ==
    ASSUME CatalogInv, UpToDate, NEW p \in Proc, Finish(p),
           UNCHANGED <<file, version, stamp, census, catalog, memo>>
    PROVE  UpToDate'
<1>1. FoundNothing(p)'
  BY DEF Finish, FoundNothing, CatalogInv, TypeOK
<1> QED  BY <1>1, OthersFoundNothing DEF Finish, CatalogInv, TypeOK

\* No step finds anything to do.
LEMMA UpToDateStays ==
    ASSUME CatalogInv, rebuilds \in Nat, UpToDate, [Next]_vars,
           UNCHANGED <<version, stamp, rebuilds>>
    PROVE  UpToDate' /\ UNCHANGED <<catalog, memo>>
<1> DEFINE P == UpToDate' /\ UNCHANGED <<catalog, memo>>
<1>t. /\ TypeOK /\ PassOK /\ census
      /\ \A q \in Proc : FoundNothing(q)
  BY DEF CatalogInv, UpToDate
<1>n. \A q \in Proc : pc[q] \in {"idle", "fresh", "preview"}
  BY <1>t DEF FoundNothing
<1>1. ASSUME NEW s \in Session, Append(s)  PROVE P
  BY <1>1, <1>t DEF Append, TypeOK
<1>2. ASSUME NEW s \in Session, Age(s)  PROVE P
  <2>1. /\ UNCHANGED <<version, stamp, disk, pc, delta, pass>>
        /\ \A u \in Session : file'[u] = "hot" => file[u] = "hot"
    BY <1>2, <1>t DEF Age, TypeOK
  <2> QED  BY <2>1 DEF UpToDate, FoundNothing, disk, pass
<1>3. ASSUME NEW c \in Checkout, Repoint(c)  PROVE P
  BY <1>3 DEF Repoint, UpToDate, FoundNothing, disk, pass
<1>4. ASSUME NEW p \in Proc, NEW s \in Session, Stamp(p, s)  PROVE P
  <2>1. /\ s \in todo[p] /\ rows[p][s].cwd # None /\ pc[p] \in {"fresh", "preview"}
    BY <1>4, <1>t, <1>n DEF Stamp, PassOK, Passing, Attributed
  <2>2. rows[p] = catalog /\ mem[p] = memo /\ pc[p] = "preview"
    BY <1>t, <2>1 DEF FoundNothing, NoRows, NoRow
  <2>3. Hit(p, s) /\ Known(p, s) = rows[p][s].project
    BY <2>1, <2>2 DEF UpToDate, Hit, Known
  <2>4. InProject(rows[p][s], rows[p][s].project) = rows[p][s]
    BY <1>t DEF InProject, TypeOK, Row
  <2>5. rows' = [rows EXCEPT ![p] = [rows[p] EXCEPT ![s] = rows[p][s]]]
    BY <1>4, <2>3, <2>4 DEF Stamp
  <2>6. rows'[p] = rows[p]
    BY <1>t, <2>5 DEF TypeOK
  <2>7. /\ touched'[p] = touched[p] /\ asked'[p] = None
        /\ UNCHANGED <<world, disk, pc, delta, mem, dirty>>
    BY <1>4, <1>t, <2>3 DEF Stamp, TypeOK
  <2>8. FoundNothing(p)'
    BY <1>t, <2>6, <2>7 DEF FoundNothing, disk
  <2> QED
    BY <1>4, <1>t, <2>5, <2>7, <2>8, OthersFoundNothing
       DEF Stamp, TypeOK, world, disk
<1>5. ASSUME NEW p \in Proc, Ask(p) \/ AskFails(p)  PROVE P
  BY <1>5, <1>t DEF Ask, AskFails, FoundNothing
<1>6. ASSUME NEW p \in Proc, RefreshScan(p)  PROVE P
  <2>1. [s \in Session |-> IF Fresh(s) THEN EntryFromSource(s) ELSE NoRow] = NoRows
    BY DEF UpToDate, Fresh, NoRows
  <2>2. /\ rows'[p] = NoRows /\ mem'[p] = memo /\ pc'[p] = "fresh"
        /\ ~touched'[p] /\ ~dirty'[p]
        /\ UNCHANGED <<world, disk, delta, asked>>
    BY <1>6, <1>t, <2>1 DEF RefreshScan, Goto, Reattribute, TypeOK
  <2>3. FoundNothing(p)'
    BY <1>t, <2>2 DEF FoundNothing, disk
  <2> QED
    BY <1>6, <1>t, <2>2, <2>3, OthersFoundNothing
       DEF RefreshScan, Goto, Reattribute, TypeOK, world, disk
<1>7. ASSUME NEW p \in Proc, RefreshPreview(p)  PROVE P
  <2>1. pc[p] = "fresh" /\ rows[p] = NoRows /\ Persisted(p) = memo
    BY <1>7, <1>t DEF RefreshPreview, Goto, FoundNothing, Persisted
  <2>2. Changed(p) = NoRows
    BY <2>1 DEF Changed, Has, NoRows, NoRow
  <2>3. /\ rows'[p] = catalog /\ mem'[p] = memo /\ pc'[p] = "preview"
        /\ ~touched'[p] /\ ~dirty'[p] /\ delta'[p] = NoRows
        /\ UNCHANGED <<world, census, catalog, memo, asked>>
    BY <1>7, <1>t, <2>1, <2>2 DEF RefreshPreview, Goto, Reattribute, TypeOK
  <2>4. FoundNothing(p)'
    BY <1>t, <2>3 DEF FoundNothing
  <2> QED
    BY <1>7, <1>t, <2>3, <2>4, OthersFoundNothing
       DEF RefreshPreview, Goto, Reattribute, TypeOK, world
<1>8. ASSUME NEW p \in Proc, RefreshUnchanged(p)  PROVE P
  BY <1>8, <1>t, FinishFoundNothing
     DEF RefreshUnchanged, FoundNothing, Persisted, world
<1>9. ASSUME NEW p \in Proc, RefreshPending(p)  PROVE P
  BY <1>9, <1>t DEF RefreshPending, NothingToDo, FoundNothing
<1>10. ASSUME NEW p \in Proc,
              RefreshLock(p) \/ RefreshWrite(p) \/ RebuildAttributed(p) \/ RebuildPublish(p)
       PROVE  P
  BY <1>10, <1>n DEF RefreshLock, RefreshWrite, RebuildAttributed, RebuildPublish, Goto
<1>11. ASSUME NEW p \in Proc, RebuildScan(p)  PROVE P
  BY <1>11 DEF RebuildScan
<1>12. ASSUME NEW p \in Proc, Kill(p)  PROVE P
  BY <1>12, FinishFoundNothing DEF Kill, world
<1>13. CASE UNCHANGED vars
  BY <1>13 DEF vars, world, disk, pass, UpToDate, FoundNothing
<1> QED
  BY <1>1, <1>2, <1>3, <1>4, <1>5, <1>6, <1>7, <1>8, <1>9, <1>10, <1>11, <1>12, <1>13
     DEF Next, World, Attribute, Refresh, Rebuild

\* refresh_hot has a fixed point and stays there: however many processes
\* refresh at once and whichever of them dies, an up-to-date catalog and its
\* memo are not replaced before a transcript, a stamp or a rebuild gives reason.
THEOREM UpToDateCatalogStays == Spec => RefreshesLeaveItAlone
<1> DEFINE Alone == UpToDate /\ UNCHANGED <<version, stamp, rebuilds>> =>
                      UpToDate' /\ UNCHANGED <<catalog, memo>>
       Counted == rebuilds \in Nat
<1>1. Init => Counted
  BY DEF Init
<1>2. Counted /\ [Next]_vars => Counted'
  <2> SUFFICES ASSUME rebuilds \in Nat, [Next]_vars  PROVE rebuilds' = rebuilds \/ rebuilds' = rebuilds + 1
    OBVIOUS
  <2>1. CASE \E p \in Proc : Attribute(p) \/ AskFails(p)
    BY <2>1 DEF Attribute, Stamp, Ask, AskFails, Answer
  <2>2. CASE \E p \in Proc : Refresh(p) \/ Rebuild(p)
    BY <2>2 DEF Refresh, RefreshScan, RefreshPreview, RefreshUnchanged, RefreshPending,
       RefreshLock, RefreshWrite, Rebuild, RebuildAttributed, RebuildPublish
  <2> QED
    BY <2>1, <2>2 DEF Next, vars, World, Append, Age, Repoint, RebuildScan, Kill
<1>3. CatalogInv /\ Counted /\ [Next]_vars => [Alone]_vars
  BY UpToDateStays
<1>4. RefreshesLeaveItAlone <=> [][Alone]_vars
  BY PTL DEF RefreshesLeaveItAlone
<1> QED
  <2> HIDE DEF Alone, Counted
  <2> QED  BY InitCatalogInv, NextCatalogInv, <1>1, <1>2, <1>3, <1>4, PTL DEF Spec
=============================================================================
