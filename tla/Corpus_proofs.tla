----------------------------- MODULE Corpus_proofs -----------------------------
(***************************************************************************)
(* Proofs about Catalog and Corpus: the pointer and its history, what      *)
(* imports keep of one another, and that what a boundary reads stays, for  *)
(* any number of snapshots, profiles, bundles, operators and moves.        *)
(***************************************************************************)
EXTENDS CorpusReads, AnnIndex, FiniteSetTheorems, TLAPS

-----------------------------------------------------------------------------
(* The transactions of the catalog *)

(* The tables start empty and consistent. *)
LEMMA CatalogInitInv == CatalogInit => CatalogInv
<1> SUFFICES ASSUME CatalogInit PROVE CatalogInv
    OBVIOUS
<1>1. CatalogTypeOK
  BY DEF CatalogInit, CatalogTypeOK, NoPointer, Pointer
<1>2. PointerIsLastMove /\ HistoryIsAChain
  BY NullIsNoSnapshot DEF CatalogInit, PointerIsLastMove, HistoryIsAChain, NoPointer
<1> QED
  BY <1>1, <1>2 DEF CatalogInv

(* A step that leaves pointer and history alone keeps the invariant, if it  *)
(* keeps the types, the active snapshot and what was imported.              *)
LEMMA QuietStep ==
  ASSUME CatalogInv, UNCHANGED <<pointer, history>>, CatalogTypeOK',
         \A s \in Snapshot : /\ (snapshots'[s] = "active") <=> (snapshots[s] = "active")
                             /\ snapshots'[s] # "absent" <=> imports'[s] # {}
  PROVE  CatalogInv'
BY DEF CatalogInv, PointerIsLastMove, HistoryIsAChain

LEMMA ReadKeeps ==
  ASSUME CatalogInv, NEW o \in Reader, ReadPointer(o)
  PROVE  CatalogInv'
<1>1. CatalogTypeOK'
  BY DEF CatalogInv, CatalogTypeOK, ReadPointer, catalogRows
<1> QED
  BY <1>1, QuietStep DEF CatalogInv, PointerIsLastMove, ReadPointer, catalogRows

LEMMA ImportKeeps ==
  ASSUME CatalogInv, NEW s \in Snapshot, NEW p \in Profile, Import(s, p)
  PROVE  CatalogInv'
<1>1. CatalogTypeOK'
  BY DEF CatalogInv, CatalogTypeOK, Import
<1>2. \A t \in Snapshot : /\ (snapshots'[t] = "active") <=> (snapshots[t] = "active")
                          /\ snapshots'[t] # "absent" <=> imports'[t] # {}
  BY DEF CatalogInv, CatalogTypeOK, PointerIsLastMove, Import
<1> QED
  BY <1>1, <1>2, QuietStep DEF Import

(* Moving the pointer to a snapshot that is ready, under an operation that  *)
(* fits, keeps the three tables in agreement.                               *)
LEMMA PointKeeps ==
  ASSUME CatalogInv, NEW s \in Snapshot, snapshots[s] = "validated",
         NEW a \in Actor,
         NEW operation \in {"initial_activate", "replace", "rollback"},
         (operation = "initial_activate") <=> (pointer = NoPointer),
         operation = "rollback" => WasActive(s),
         Point(s, operation, a)
  PROVE  CatalogInv'
<1> DEFINE event == [operation |-> operation, previous |-> pointer.snapshot,
                     target |-> s, actor |-> a]
<1>1. /\ pointer.snapshot \in Snapshot \cup {None} /\ pointer.revision \in Nat
      /\ history \in Seq(Event) /\ event \in Event
  BY DEF CatalogInv, CatalogTypeOK, Pointer, Event
<1>2. /\ history' = Append(history, event) /\ Len(history') = Len(history) + 1
      /\ history'[Len(history) + 1] = event
      /\ \A n \in 1..Len(history) : history'[n] = history[n]
      /\ history' \in Seq(Event)
  BY <1>1 DEF Point
<1>3. pointer' = [snapshot |-> s, revision |-> pointer.revision + 1]
  BY DEF Point
<1>4. pointer.snapshot # s
  BY DEF CatalogInv, PointerIsLastMove
<1>5. CatalogTypeOK'
  BY <1>1, <1>2, <1>3 DEF CatalogInv, CatalogTypeOK, Point, Pointer
<1>6. PointerIsLastMove'
  <2>1. pointer'.revision = Len(history') /\ pointer'.snapshot = s /\ history' # <<>>
    BY <1>1, <1>2, <1>3 DEF CatalogInv, PointerIsLastMove
  <2>2. pointer'.snapshot = history'[Len(history')].target
    BY <1>1, <1>2, <2>1
  <2>3. \A t \in Snapshot : (snapshots'[t] = "active") <=> (t = s)
    BY <1>4 DEF CatalogInv, CatalogTypeOK, PointerIsLastMove, Point
  <2>4. \A t \in Snapshot : snapshots'[t] # "absent" <=> imports'[t] # {}
    BY DEF CatalogInv, CatalogTypeOK, PointerIsLastMove, Point
  <2> QED
    BY <2>1, <2>2, <2>3, <2>4 DEF PointerIsLastMove
<1>7. HistoryIsAChain'
  <2> SUFFICES ASSUME NEW n \in DOMAIN history'
               PROVE  /\ history'[n].previous = IF n = 1 THEN None ELSE history'[n - 1].target
                      /\ history'[n].target # history'[n].previous
                      /\ (history'[n].operation = "initial_activate") <=> (n = 1)
                      /\ history'[n].operation = "rollback" =>
                           \E m \in 1..(n - 1) : history'[m].target = history'[n].target
    BY DEF HistoryIsAChain
  <2>1. DOMAIN history = 1..Len(history) /\ DOMAIN history' = 1..(Len(history) + 1)
        /\ Len(history) \in Nat
    BY <1>1, <1>2
  <2>2. CASE n \in 1..Len(history)
    <3>1. history'[n] = history[n] /\ (n # 1 => history'[n - 1] = history[n - 1])
      BY <1>2, <2>1, <2>2
    <3>2. \A m \in 1..(n - 1) : history'[m] = history[m]
      BY <1>2, <2>1, <2>2
    <3> QED
      BY <2>1, <2>2, <3>1, <3>2 DEF CatalogInv, HistoryIsAChain
  <2>3. CASE n = Len(history) + 1
    <3>1. history'[n] = event
      BY <1>2, <2>3
    <3>2. n = 1 <=> history = <<>>
      BY <1>1, <2>1, <2>3
    <3>3. event.previous = IF n = 1 THEN None ELSE history'[n - 1].target
      <4>1. CASE n = 1
        BY <3>2, <4>1 DEF CatalogInv, PointerIsLastMove
      <4>2. CASE n # 1
        <5>1. n - 1 = Len(history) /\ n - 1 \in 1..Len(history)
          BY <2>1, <2>3, <4>2
        <5>2. history'[n - 1] = history[Len(history)]
          BY <1>2, <5>1
        <5>3. pointer.snapshot = history[Len(history)].target
          BY <3>2, <4>2 DEF CatalogInv, PointerIsLastMove
        <5> QED
          BY <4>2, <5>2, <5>3
      <4> QED
        BY <4>1, <4>2
    <3>4. event.target # event.previous
      BY <1>4
    <3>5. pointer = NoPointer <=> n = 1
      <4>1. pointer.revision = Len(history) /\ pointer = [snapshot |-> pointer.snapshot,
                                                         revision |-> pointer.revision]
        BY DEF CatalogInv, CatalogTypeOK, PointerIsLastMove, Pointer
      <4>2. n = 1 => pointer.snapshot = None
        BY <3>2 DEF CatalogInv, PointerIsLastMove
      <4> QED
        BY <2>1, <2>3, <4>1, <4>2 DEF NoPointer
    <3>6. event.operation = "rollback" => \E m \in 1..(n - 1) : history'[m].target = s
      BY <1>2, <2>1, <2>3 DEF WasActive
    <3> QED
      BY <3>1, <3>3, <3>4, <3>5, <3>6
  <2> QED
    BY <2>1, <2>2, <2>3
<1> QED
  BY <1>5, <1>6, <1>7 DEF CatalogInv

LEMMA ActivateKeeps ==
  ASSUME CatalogInv, NEW o \in Reader, NEW s \in Snapshot, NEW p, Activate(seen[o], s, p, o)
  PROVE  CatalogInv'
<1> DEFINE operation == IF pointer = NoPointer THEN "initial_activate" ELSE "replace"
<1>1. Point(s, operation, o) /\ snapshots[s] = "validated" /\ o \in Actor
  BY ReadersAct DEF Activate, Ready
<1>2. operation \in {"initial_activate", "replace", "rollback"}
      /\ ((operation = "initial_activate") <=> (pointer = NoPointer))
      /\ operation # "rollback"
  OBVIOUS
<1> HIDE DEF operation
<1> QED
  BY <1>1, <1>2, PointKeeps

LEMMA RollbackKeeps ==
  ASSUME CatalogInv, NEW o \in Reader, NEW s \in Snapshot, NEW p, Rollback(seen[o], s, p, o)
  PROVE  CatalogInv'
<1>1. /\ Point(s, "rollback", o) /\ snapshots[s] = "validated" /\ o \in Actor
      /\ WasActive(s) /\ pointer # NoPointer
  BY ReadersAct DEF Rollback, Ready
<1> QED
  BY <1>1, PointKeeps

LEMMA CatalogStepInv == CatalogInv /\ [CatalogNext]_catalogVars => CatalogInv'
<1> SUFFICES ASSUME CatalogInv, [CatalogNext]_catalogVars PROVE CatalogInv'
    OBVIOUS
<1>1. CASE UNCHANGED catalogVars
  BY <1>1 DEF catalogVars, catalogRows, CatalogInv, CatalogTypeOK, PointerIsLastMove,
              HistoryIsAChain
<1>2. CASE CatalogNext
  BY <1>2, ReadKeeps, ImportKeeps, ActivateKeeps, RollbackKeeps DEF CatalogNext, Operate
<1> QED
  BY <1>1, <1>2

(* Types, agreement of pointer, statuses and history, and the chain of      *)
(* events are one inductive invariant of the catalog's transactions.        *)
THEOREM CatalogInvariance == CatalogSpec => []CatalogInv
BY CatalogInitInv, CatalogStepInv, PTL DEF CatalogSpec

(* The pointer, the statuses and the history always agree.                  *)
THEOREM PointerAgrees == CatalogSpec => []PointerIsLastMove
<1>1. CatalogInv => PointerIsLastMove
  BY DEF CatalogInv
<1> QED
  BY <1>1, CatalogInvariance, PTL

(* The events of a scope form one chain, and a rollback goes back on it.    *)
THEOREM EventsAreAChain == CatalogSpec => []HistoryIsAChain
<1>1. CatalogInv => HistoryIsAChain
  BY DEF CatalogInv
<1> QED
  BY <1>1, CatalogInvariance, PTL

(* Whoever moves the pointer has seen it as it is.                          *)
LEMMA MoverSawThePointer ==
  ASSUME NEW o \in Reader,
         \/ \E s \in Snapshot, p \in Profile : Rollback(seen[o], s, p, o)
         \/ \E s \in Snapshot, p \in Profile \cup {None} : Activate(seen[o], s, p, o)
  PROVE  \E s \in Snapshot, operation \in {"initial_activate", "replace", "rollback"} :
           seen[o] = pointer /\ Point(s, operation, o)
BY DEF Rollback, Activate, Current

(* The last event of a move names the mover, who had seen the revision.     *)
LEMMA MoverIsRecorded ==
  ASSUME CatalogInv, NEW s, NEW operation, NEW o, seen[o] = pointer, Point(s, operation, o)
  PROVE  seen[history'[Len(history')].actor].revision = Len(history)
<1>1. history \in Seq(Event) /\ pointer.revision = Len(history)
  BY DEF CatalogInv, CatalogTypeOK, PointerIsLastMove
<1>2. history'[Len(history')].actor = o
  BY <1>1 DEF Point
<1> QED
  BY <1>1, <1>2

(* No move is made on an outdated view: the mover saw the last revision.    *)
THEOREM MovesAreCurrent == CatalogSpec => NoStaleMove
<1> DEFINE Fresh == history' # history =>
                      seen[history'[Len(history')].actor].revision = Len(history)
<1>1. CatalogInv /\ [CatalogNext]_catalogVars => [Fresh]_catalogVars
  <2> SUFFICES ASSUME CatalogInv, CatalogNext, history' # history
               PROVE  seen[history'[Len(history')].actor].revision = Len(history)
    BY DEF catalogVars, catalogRows
  <2>1. PICK o \in Reader : Operate(o)
    BY DEF CatalogNext
  <2>2. PICK s \in Snapshot, operation \in {"initial_activate", "replace", "rollback"} :
          seen[o] = pointer /\ Point(s, operation, o)
    BY <2>1, MoverSawThePointer DEF Operate, ReadPointer, catalogRows, Import
  <2> QED
    BY <2>2, MoverIsRecorded
<1> QED
  BY <1>1, CatalogInvariance, PTL DEF CatalogSpec, NoStaleMove

-----------------------------------------------------------------------------
(* Rows and what is stored *)

(* Every row of the old table is a row of the new one. *)
Kept(old, new) == \A k \in DOMAIN old : k \in DOMAIN new /\ new[k] = old[k]

LEMMA EnsureKeeps ==
  ASSUME NEW table, NEW rows
  PROVE  /\ DOMAIN EnsureRows(table, rows) = DOMAIN table \cup DOMAIN rows
         /\ Kept(table, EnsureRows(table, rows))
BY DEF EnsureRows, Kept

(* What agrees with a table is in it once the missing rows are inserted. *)
LEMMA EnsureStores ==
  ASSUME NEW table, NEW rows, Agree(table, rows)
  PROVE  Stored(EnsureRows(table, rows), rows)
BY DEF EnsureRows, Agree, Stored

LEMMA StoredStays ==
  ASSUME NEW old, NEW new, NEW rows, Stored(old, rows), Kept(old, new)
  PROVE  Stored(new, rows)
BY DEF Stored, Agree, Kept

Columns == {"law_versions", "law_articles", "chunks", "chunk_articles", "corpus_snapshots",
            "snapshot_chunks", "embedding_profiles", "chunk_embeddings", "embedding_imports"}

LEMMA WithSnapshotWrites ==
  ASSUME NEW t, DOMAIN t = Columns, NEW b
  PROVE  LET u == WithSnapshot(t, b) IN
         /\ DOMAIN u = Columns
         /\ u.law_versions = EnsureRows(t.law_versions, LawRows[b])
         /\ u.law_articles = EnsureRows(t.law_articles, ArticleRows[b])
         /\ u.chunks = EnsureRows(t.chunks, ChunkRows[b])
         /\ u.chunk_articles = EnsureRows(t.chunk_articles, RelationRows[b])
         /\ u.corpus_snapshots = EnsureRows(t.corpus_snapshots, Row(SnapshotOf(b), CorpusHash[b]))
         /\ u.snapshot_chunks = EnsureRows(t.snapshot_chunks,
                                            Row(SnapshotOf(b), Content[b].members))
         /\ u.embedding_profiles = t.embedding_profiles
         /\ u.chunk_embeddings = t.chunk_embeddings
         /\ u.embedding_imports = t.embedding_imports
BY DEF WithSnapshot, Columns

LEMMA WithImportWrites ==
  ASSUME NEW t, DOMAIN t = Columns, NEW b
  PROVE  LET u == WithImport(t, b) IN
         /\ DOMAIN u = Columns
         /\ u.law_versions = t.law_versions
         /\ u.law_articles = t.law_articles
         /\ u.chunks = t.chunks
         /\ u.chunk_articles = t.chunk_articles
         /\ u.corpus_snapshots = t.corpus_snapshots
         /\ u.snapshot_chunks = t.snapshot_chunks
         /\ u.embedding_profiles = t.embedding_profiles \cup {ProfileOf(b)}
         /\ u.chunk_embeddings = EnsureRows(t.chunk_embeddings, EmbeddingRows[b])
         /\ u.embedding_imports = EnsureRows(t.embedding_imports, Row(ImportKey(b), b))
BY DEF WithImport, Columns

(* Nothing that is stored or served is taken back by the step. *)
RowsStay ==
  /\ Kept(tables.law_versions, tables'.law_versions)
  /\ Kept(tables.law_articles, tables'.law_articles)
  /\ Kept(tables.chunks, tables'.chunks)
  /\ Kept(tables.chunk_articles, tables'.chunk_articles)
  /\ Kept(tables.corpus_snapshots, tables'.corpus_snapshots)
  /\ Kept(tables.snapshot_chunks, tables'.snapshot_chunks)
  /\ tables.embedding_profiles \subseteq tables'.embedding_profiles
  /\ Kept(tables.chunk_embeddings, tables'.chunk_embeddings)
  /\ Kept(tables.embedding_imports, tables'.embedding_imports)

ServiceStays == \A s \in Snapshot : Serviceable(s) => Serviceable(s)'

-----------------------------------------------------------------------------
(* The inductive invariant of the corpus *)

(* The tables agree on their keys: an import is filed under its snapshot   *)
(* and profile, and the catalog knows the snapshots of the corpus.         *)
KeysAgree ==
  /\ DOMAIN tables = Columns
  /\ DOMAIN tables.snapshot_chunks = DOMAIN tables.corpus_snapshots
  /\ \A s \in Snapshot : s \in DOMAIN tables.corpus_snapshots <=> snapshots[s] # "absent"
  /\ \A k \in DOMAIN tables.embedding_imports :
       tables.embedding_imports[k] \in ValidBundles /\ k = ImportKey(tables.embedding_imports[k])

(* The operators' own state: what is prepared is what was planned. *)
PreparedAsPlanned ==
  /\ plan \in [Importer -> Bundle \cup {None}]
  /\ DOMAIN applied = Importer
  /\ \A i \in Importer :
       /\ applied[i].stage \in {"idle", "prepared", "imported", "receipt", "refused"}
       /\ applied[i].stage = "prepared" => applied[i].bundle \in Bundle
                                           /\ plan[i] = applied[i].bundle

CorpusInv == CatalogInv /\ KeysAgree /\ PreparedAsPlanned /\ ImportsStayValid

LEMMA CorpusInitInv == CorpusInit => CorpusInv
<1> SUFFICES ASSUME CorpusInit PROVE CorpusInv
    OBVIOUS
<1>1. CatalogInv
  BY CatalogInitInv DEF CorpusInit
<1>2. KeysAgree
  BY DEF CorpusInit, CatalogInit, KeysAgree, Columns, NoRows
<1>3. PreparedAsPlanned
  BY DEF CorpusInit, PreparedAsPlanned, Idle
<1>4. ImportsStayValid
  BY DEF CorpusInit, CatalogInit, ImportsStayValid, Idle, NoRows
<1> QED
  BY <1>1, <1>2, <1>3, <1>4 DEF CorpusInv

(* An import that reads back does so for good. *)
LEMMA ReadsBackStays ==
  ASSUME NEW b, ReadsBack(b), RowsStay, ServiceStays, KeysAgree
  PROVE  ReadsBack(b)'
<1> USE DEF RowsStay
<1>1. b \in ValidBundles /\ b \in Bundle
  BY DEF ReadsBack, ValidBundles
<1>2. SnapshotOf(b) \in Snapshot
  BY <1>1, BundlesAreBuilt DEF SnapshotOf
<1>3. SnapshotExists(b)'
  BY DEF ReadsBack, SnapshotExists, Kept
<1>4. CorpusStored(b)'
  <2>1. CorpusStored(b)
    BY DEF ReadsBack, SnapshotMatches
  <2>2. /\ Stored(tables'.law_versions, LawRows[b])
        /\ Stored(tables'.law_articles, ArticleRows[b])
        /\ Stored(tables'.chunks, ChunkRows[b])
        /\ Stored(tables'.chunk_articles, RelationRows[b])
    BY <2>1, StoredStays DEF CorpusStored
  <2>3. SnapshotOf(b) \in DOMAIN tables.snapshot_chunks
    BY DEF ReadsBack, SnapshotExists, KeysAgree
  <2>4. tables'.snapshot_chunks[SnapshotOf(b)] = Content[b].members
    BY <2>1, <2>3 DEF CorpusStored, Kept
  <2> QED
    BY <2>2, <2>4 DEF CorpusStored
<1>5. SnapshotMatches(b)'
  <2>1. tables'.corpus_snapshots[SnapshotOf(b)] = CorpusHash[b]
    BY DEF ReadsBack, SnapshotExists, SnapshotMatches, Kept
  <2>2. Serviceable(SnapshotOf(b))'
    BY <1>2 DEF ReadsBack, SnapshotMatches, ServiceStays
  <2> QED
    BY <1>4, <2>1, <2>2 DEF SnapshotMatches
<1>6. ImportExists(b)' /\ tables'.embedding_imports[ImportKey(b)] = b
  BY DEF ReadsBack, ImportExists, Kept
<1>7. EmbeddingsStored(b)'
  BY StoredStays DEF ReadsBack, EmbeddingsStored
<1> QED
  BY <1>1, <1>3, <1>5, <1>6, <1>7 DEF ReadsBack

(* What reads back is accepted again. *)
LEMMA ReadBackIsAcceptedNext ==
  ASSUME NEW b, ReadsBack(b)'
  PROVE  ImportAccepts(b)'
BY DEF ReadsBack, ImportAccepts

LEMMA KeptIsReflexive == ASSUME NEW table PROVE Kept(table, table)
BY DEF Kept

LEMMA KeptIsTransitive ==
  ASSUME NEW t, NEW u, NEW v, Kept(t, u), Kept(u, v)
  PROVE  Kept(t, v)
BY DEF Kept

(* An import that is not there yet: every row stays, the import is filed,  *)
(* and it reads back.                                                      *)
LEMMA NewImport ==
  ASSUME CorpusInv, NEW b \in Bundle, ImportBundle(b), ~ImportExists(b)
  PROVE  /\ RowsStay /\ ServiceStays /\ CatalogInv' /\ KeysAgree' /\ ReadsBack(b)'
         /\ tables'.embedding_imports = EnsureRows(tables.embedding_imports, Row(ImportKey(b), b))
         /\ imports' = [imports EXCEPT ![SnapshotOf(b)] = @ \cup {ProfileOf(b)}]
         /\ imports \in [Snapshot -> SUBSET Profile]
<1> DEFINE s == SnapshotOf(b)
           base == IF SnapshotExists(b) THEN tables ELSE WithSnapshot(tables, b)
<1>1. s \in Snapshot /\ ProfileOf(b) \in Profile
  BY BundlesAreBuilt DEF SnapshotOf, ProfileOf
<1>2. /\ b \in ValidBundles /\ ImportAccepts(b) /\ Import(s, ProfileOf(b))
      /\ tables' = WithImport(base, b)
      /\ DOMAIN tables = Columns
      /\ Agree(tables.chunk_embeddings, EmbeddingRows[b])
  BY DEF ImportBundle, ImportAccepts, CorpusInv, KeysAgree
<1>3. CatalogInv' /\ CatalogInv
  BY <1>1, <1>2, ImportKeeps DEF CorpusInv
<1>4. /\ imports' = [imports EXCEPT ![s] = @ \cup {ProfileOf(b)}]
      /\ snapshots' = [snapshots EXCEPT ![s] = IF @ = "absent" THEN "validated" ELSE @]
      /\ snapshots \in [Snapshot -> {"absent", "validated", "active"}]
      /\ imports \in [Snapshot -> SUBSET Profile]
  BY <1>2, <1>3 DEF Import, CatalogInv, CatalogTypeOK
<1>5. ServiceStays
  BY <1>1, <1>4 DEF ServiceStays, Serviceable
<1>6. SnapshotExists(b) <=> s \in DOMAIN tables.corpus_snapshots
  BY DEF SnapshotExists
<1>7. /\ DOMAIN base = Columns
      /\ Kept(tables.law_versions, base.law_versions)
      /\ Kept(tables.law_articles, base.law_articles)
      /\ Kept(tables.chunks, base.chunks)
      /\ Kept(tables.chunk_articles, base.chunk_articles)
      /\ Kept(tables.corpus_snapshots, base.corpus_snapshots)
      /\ Kept(tables.snapshot_chunks, base.snapshot_chunks)
      /\ base.embedding_profiles = tables.embedding_profiles
      /\ base.chunk_embeddings = tables.chunk_embeddings
      /\ base.embedding_imports = tables.embedding_imports
      /\ DOMAIN base.corpus_snapshots = DOMAIN tables.corpus_snapshots \cup {s}
      /\ DOMAIN base.snapshot_chunks = DOMAIN tables.snapshot_chunks \cup {s}
      /\ Stored(base.law_versions, LawRows[b])
      /\ Stored(base.law_articles, ArticleRows[b])
      /\ Stored(base.chunks, ChunkRows[b])
      /\ Stored(base.chunk_articles, RelationRows[b])
      /\ base.corpus_snapshots[s] = CorpusHash[b]
      /\ base.snapshot_chunks[s] = Content[b].members
  <2>1. DOMAIN tables.snapshot_chunks = DOMAIN tables.corpus_snapshots
    BY DEF CorpusInv, KeysAgree
  <2>2. CASE SnapshotExists(b)
    <3>1. base = tables /\ SnapshotMatches(b) /\ s \in DOMAIN tables.corpus_snapshots
      BY <1>2, <1>6, <2>2 DEF ImportAccepts
    <3> HIDE DEF base
    <3> QED
      BY <1>2, <2>1, <3>1, KeptIsReflexive DEF SnapshotMatches, CorpusStored
  <2>3. CASE ~SnapshotExists(b)
    <3>1. base = WithSnapshot(tables, b) /\ CorpusAgrees(b) /\ s \notin DOMAIN tables.corpus_snapshots
      BY <1>2, <1>6, <2>3 DEF ImportAccepts
    <3> HIDE DEF base
    <3>2. /\ DOMAIN base = Columns
          /\ base.law_versions = EnsureRows(tables.law_versions, LawRows[b])
          /\ base.law_articles = EnsureRows(tables.law_articles, ArticleRows[b])
          /\ base.chunks = EnsureRows(tables.chunks, ChunkRows[b])
          /\ base.chunk_articles = EnsureRows(tables.chunk_articles, RelationRows[b])
          /\ base.corpus_snapshots = EnsureRows(tables.corpus_snapshots, Row(s, CorpusHash[b]))
          /\ base.snapshot_chunks = EnsureRows(tables.snapshot_chunks, Row(s, Content[b].members))
          /\ base.embedding_profiles = tables.embedding_profiles
          /\ base.chunk_embeddings = tables.chunk_embeddings
          /\ base.embedding_imports = tables.embedding_imports
      BY <1>2, <3>1, WithSnapshotWrites
    <3>3. /\ Stored(base.law_versions, LawRows[b])
          /\ Stored(base.law_articles, ArticleRows[b])
          /\ Stored(base.chunks, ChunkRows[b])
          /\ Stored(base.chunk_articles, RelationRows[b])
      BY <3>1, <3>2, EnsureStores DEF CorpusAgrees
    <3>4. /\ Kept(tables.law_versions, base.law_versions)
          /\ Kept(tables.law_articles, base.law_articles)
          /\ Kept(tables.chunks, base.chunks)
          /\ Kept(tables.chunk_articles, base.chunk_articles)
      BY <3>2, EnsureKeeps
    <3>5. /\ DOMAIN base.corpus_snapshots = DOMAIN tables.corpus_snapshots \cup {s}
          /\ base.corpus_snapshots[s] = CorpusHash[b]
          /\ Kept(tables.corpus_snapshots, base.corpus_snapshots)
      BY <3>1, <3>2 DEF EnsureRows, Row, Kept
    <3>6. /\ DOMAIN base.snapshot_chunks = DOMAIN tables.snapshot_chunks \cup {s}
          /\ base.snapshot_chunks[s] = Content[b].members
          /\ Kept(tables.snapshot_chunks, base.snapshot_chunks)
      BY <2>1, <3>1, <3>2 DEF EnsureRows, Row, Kept
    <3> QED
      BY <3>2, <3>3, <3>4, <3>5, <3>6
  <2> QED
    BY <2>2, <2>3
<1> HIDE DEF base
<1>8. /\ DOMAIN tables' = Columns
      /\ tables'.law_versions = base.law_versions
      /\ tables'.law_articles = base.law_articles
      /\ tables'.chunks = base.chunks
      /\ tables'.chunk_articles = base.chunk_articles
      /\ tables'.corpus_snapshots = base.corpus_snapshots
      /\ tables'.snapshot_chunks = base.snapshot_chunks
      /\ tables'.embedding_profiles = tables.embedding_profiles \cup {ProfileOf(b)}
      /\ tables'.chunk_embeddings = EnsureRows(tables.chunk_embeddings, EmbeddingRows[b])
      /\ tables'.embedding_imports = EnsureRows(tables.embedding_imports, Row(ImportKey(b), b))
  BY <1>2, <1>7, WithImportWrites
<1>9. ImportKey(b) \notin DOMAIN tables.embedding_imports
  BY DEF ImportExists
<1>10. /\ Kept(tables.chunk_embeddings, tables'.chunk_embeddings)
       /\ Stored(tables'.chunk_embeddings, EmbeddingRows[b])
  BY <1>2, <1>8 DEF EnsureRows, Kept, Stored, Agree
<1>11. /\ Kept(tables.embedding_imports, tables'.embedding_imports)
       /\ DOMAIN tables'.embedding_imports = DOMAIN tables.embedding_imports \cup {ImportKey(b)}
       /\ tables'.embedding_imports[ImportKey(b)] = b
  BY <1>8, <1>9 DEF EnsureRows, Row, Kept
<1>12. RowsStay
  BY <1>7, <1>8, <1>10, <1>11 DEF RowsStay
<1>13. KeysAgree'
  <2>1. DOMAIN tables'.snapshot_chunks = DOMAIN tables'.corpus_snapshots
    BY <1>7, <1>8 DEF CorpusInv, KeysAgree
  <2>2. ASSUME NEW t \in Snapshot
        PROVE  t \in DOMAIN tables'.corpus_snapshots <=> snapshots'[t] # "absent"
    <3>1. t \in DOMAIN tables.corpus_snapshots <=> snapshots[t] # "absent"
      BY DEF CorpusInv, KeysAgree
    <3>2. snapshots'[t] # "absent" <=> (t = s \/ snapshots[t] # "absent")
      BY <1>1, <1>4
    <3> QED
      BY <1>7, <1>8, <3>1, <3>2
  <2>3. ASSUME NEW k \in DOMAIN tables'.embedding_imports
        PROVE  /\ tables'.embedding_imports[k] \in ValidBundles
               /\ k = ImportKey(tables'.embedding_imports[k])
    <3>1. CASE k = ImportKey(b)
      BY <1>2, <1>11, <3>1
    <3>2. CASE k \in DOMAIN tables.embedding_imports
      <4>1. tables'.embedding_imports[k] = tables.embedding_imports[k]
        BY <1>11, <3>2 DEF Kept
      <4> QED
        BY <3>2, <4>1 DEF CorpusInv, KeysAgree
    <3> QED
      BY <1>11, <3>1, <3>2
  <2> QED
    BY <1>8, <2>1, <2>2, <2>3 DEF KeysAgree
<1>14. ReadsBack(b)'
  <2>1. CorpusStored(b)'
    BY <1>7, <1>8 DEF CorpusStored
  <2>2. Serviceable(s)'
    BY <1>1, <1>4 DEF Serviceable
  <2>3. SnapshotExists(b)' /\ SnapshotMatches(b)'
    BY <1>7, <1>8, <2>1, <2>2 DEF SnapshotExists, SnapshotMatches
  <2>4. ImportExists(b)' /\ EmbeddingsStored(b)'
    BY <1>8, <1>10, <1>11 DEF ImportExists, EmbeddingsStored
  <2> QED
    BY <1>2, <1>11, <2>3, <2>4 DEF ReadsBack
<1> QED
  BY <1>3, <1>4, <1>5, <1>8, <1>12, <1>13, <1>14

(* After a step that keeps every row, what was on record is on record as   *)
(* it should be.                                                           *)
LEMMA RecordStays ==
  ASSUME CorpusInv, RowsStay, ServiceStays, NEW k \in DOMAIN tables.embedding_imports
  PROVE  \E b \in Bundle : /\ b = tables'.embedding_imports[k]
                           /\ ReadsBack(b)' /\ ImportAccepts(b)'
<1>1. PICK b \in Bundle : b = tables.embedding_imports[k] /\ ReadsBack(b)
  BY DEF CorpusInv, ImportsStayValid
<1>2. ReadsBack(b)' /\ ImportAccepts(b)'
  BY <1>1, ReadsBackStays, ReadBackIsAcceptedNext DEF CorpusInv
<1>3. b = tables'.embedding_imports[k]
  BY <1>1 DEF RowsStay, Kept
<1> QED
  BY <1>2, <1>3

(* So is the import of an operator who has not read it back yet.           *)
LEMMA AppliedStays ==
  ASSUME CorpusInv, RowsStay, ServiceStays,
         NEW i \in Importer, applied[i].stage = "imported"
  PROVE  \E b \in Bundle : b = applied[i].bundle /\ ReadsBack(b)'
<1>1. PICK b \in Bundle : b = applied[i].bundle /\ ReadsBack(b)
  BY DEF CorpusInv, ImportsStayValid
<1>2. ReadsBack(b)'
  BY <1>1, ReadsBackStays DEF CorpusInv
<1> QED
  BY <1>1, <1>2

(* A step that writes no row of the corpus and takes no snapshot out of    *)
(* service, once what it does to the operators is known.                   *)
LEMMA QuietCorpusStep ==
  ASSUME CorpusInv, UNCHANGED <<tables, imports>>, CatalogInv', PreparedAsPlanned',
         \A s \in Snapshot : snapshots[s] # "absent" <=> snapshots'[s] # "absent",
         \A i \in Importer : applied'[i].stage = "imported" => applied'[i] = applied[i]
  PROVE  CorpusInv'
<1>1. RowsStay
  BY KeptIsReflexive DEF RowsStay
<1>2. ServiceStays
  BY DEF CorpusInv, CatalogInv, CatalogTypeOK, ServiceStays, Serviceable
<1>3. KeysAgree'
  BY DEF CorpusInv, KeysAgree
<1>4. ImportsStayValid'
  <2>1. \A k \in DOMAIN tables'.embedding_imports :
          \E b \in Bundle : /\ b = tables'.embedding_imports[k]
                            /\ ReadsBack(b)' /\ ImportAccepts(b)'
    BY <1>1, <1>2, RecordStays
  <2>2. \A s \in Snapshot, p \in Profile :
          p \in imports'[s] <=> <<s, p>> \in DOMAIN tables'.embedding_imports
    BY DEF CorpusInv, ImportsStayValid
  <2>3. \A i \in Importer : applied'[i].stage = "imported" =>
          \E b \in Bundle : b = applied'[i].bundle /\ ReadsBack(b)'
    BY <1>1, <1>2, AppliedStays
  <2> QED
    BY <2>1, <2>2, <2>3 DEF ImportsStayValid
<1> QED
  BY <1>3, <1>4 DEF CorpusInv

LEMMA WritePlanKeeps ==
  ASSUME CorpusInv, NEW i \in Importer, NEW b \in Bundle, WritePlan(i, b)
  PROVE  CorpusInv'
<1>1. /\ plan[i] = None /\ plan' = [plan EXCEPT ![i] = b]
      /\ UNCHANGED <<snapshots, imports, pointer, history, seen, tables, applied>>
  BY DEF WritePlan, catalogVars, catalogRows
<1>2. CatalogInv'
  BY <1>1 DEF CorpusInv, CatalogInv, CatalogTypeOK, PointerIsLastMove, HistoryIsAChain
<1>3. PreparedAsPlanned'
  BY <1>1, HashesIdentify DEF CorpusInv, PreparedAsPlanned
<1> QED
  BY <1>1, <1>2, <1>3, QuietCorpusStep

LEMMA RevalidateKeeps ==
  ASSUME CorpusInv, NEW i \in Importer, NEW b \in Bundle, Revalidate(i, b)
  PROVE  CorpusInv'
<1>1. /\ plan[i] = b /\ applied' = [applied EXCEPT ![i] = [stage |-> "prepared", bundle |-> b]]
      /\ UNCHANGED <<snapshots, imports, pointer, history, seen, tables, plan>>
  BY DEF Revalidate, ApplyStage, catalogVars, catalogRows
<1>2. CatalogInv'
  BY <1>1 DEF CorpusInv, CatalogInv, CatalogTypeOK, PointerIsLastMove, HistoryIsAChain
<1>3. PreparedAsPlanned'
  BY <1>1 DEF CorpusInv, PreparedAsPlanned
<1>4. \A j \in Importer : applied'[j].stage = "imported" => applied'[j] = applied[j]
  BY <1>1 DEF CorpusInv, PreparedAsPlanned
<1> QED
  BY <1>1, <1>2, <1>3, <1>4, QuietCorpusStep

LEMMA ReadBackKeeps ==
  ASSUME CorpusInv, NEW i \in Importer, ApplyReadBack(i)
  PROVE  CorpusInv'
<1>1. /\ \E stage \in {"receipt", "refused"} :
           applied' = [applied EXCEPT ![i] = [stage |-> stage, bundle |-> None]]
      /\ UNCHANGED <<snapshots, imports, pointer, history, seen, tables, plan>>
  BY DEF ApplyReadBack, ApplyStage, catalogVars, catalogRows
<1>2. CatalogInv'
  BY <1>1 DEF CorpusInv, CatalogInv, CatalogTypeOK, PointerIsLastMove, HistoryIsAChain
<1>3. PreparedAsPlanned'
  BY <1>1 DEF CorpusInv, PreparedAsPlanned
<1>4. \A j \in Importer : applied'[j].stage = "imported" => applied'[j] = applied[j]
  BY <1>1 DEF CorpusInv, PreparedAsPlanned
<1> QED
  BY <1>1, <1>2, <1>3, <1>4, QuietCorpusStep

LEMMA EndApplyKeeps ==
  ASSUME CorpusInv, NEW i \in Importer, EndApply(i)
  PROVE  CorpusInv'
<1>1. /\ applied' = [applied EXCEPT ![i] = [stage |-> "idle", bundle |-> None]]
      /\ plan' = plan \/ plan' = [plan EXCEPT ![i] = None]
      /\ UNCHANGED <<snapshots, imports, pointer, history, seen, tables>>
  BY DEF EndApply, Idle, catalogVars, catalogRows
<1>2. CatalogInv'
  BY <1>1 DEF CorpusInv, CatalogInv, CatalogTypeOK, PointerIsLastMove, HistoryIsAChain
<1>3. PreparedAsPlanned'
  BY <1>1 DEF CorpusInv, PreparedAsPlanned
<1>4. \A j \in Importer : applied'[j].stage = "imported" => applied'[j] = applied[j]
  BY <1>1 DEF CorpusInv, PreparedAsPlanned
<1> QED
  BY <1>1, <1>2, <1>3, <1>4, QuietCorpusStep

(* The pointer moves between snapshots that are there.                     *)
LEMMA PointKeepsSnapshots ==
  ASSUME CorpusInv, NEW s \in Snapshot, NEW operation, NEW actor,
         snapshots[s] = "validated", Point(s, operation, actor)
  PROVE  /\ \A t \in Snapshot : snapshots[t] # "absent" <=> snapshots'[t] # "absent"
         /\ UNCHANGED <<imports, seen>>
<1>1. \A t \in Snapshot : snapshots'[t] = IF t = s THEN "active"
                                          ELSE IF t = pointer.snapshot THEN "validated"
                                          ELSE snapshots[t]
  BY DEF Point
<1>2. \A t \in Snapshot : t = pointer.snapshot => snapshots[t] = "active"
  BY DEF CorpusInv, CatalogInv, PointerIsLastMove
<1> QED
  BY <1>1, <1>2 DEF Point

LEMMA MoveKeeps ==
  ASSUME CorpusInv, NEW o \in Reader, MovePointer(o)
  PROVE  CorpusInv'
<1>1. UNCHANGED <<tables, plan, applied>>
  BY DEF MovePointer
<1>2. CatalogInv /\ PreparedAsPlanned'
  BY <1>1 DEF CorpusInv, PreparedAsPlanned
<1>3. ASSUME CatalogInv', UNCHANGED imports,
             \A s \in Snapshot : snapshots[s] # "absent" <=> snapshots'[s] # "absent"
      PROVE  CorpusInv'
  BY <1>1, <1>2, <1>3, QuietCorpusStep
<1>4. ASSUME ReadPointer(o) PROVE CorpusInv'
  <2>1. CatalogInv' /\ UNCHANGED <<imports, snapshots>>
    BY <1>2, <1>4, ReadKeeps DEF ReadPointer, catalogRows
  <2> QED
    BY <1>3, <2>1
<1>5. ASSUME NEW s \in Snapshot, NEW p, Activate(seen[o], s, p, o) PROVE CorpusInv'
  <2>1. CatalogInv'
    BY <1>2, <1>5, ActivateKeeps
  <2>2. PICK operation : Point(s, operation, o) /\ snapshots[s] = "validated"
    BY <1>5 DEF Activate, Ready
  <2> QED
    BY <1>3, <2>1, <2>2, PointKeepsSnapshots
<1>6. ASSUME NEW s \in Snapshot, NEW p, Rollback(seen[o], s, p, o) PROVE CorpusInv'
  <2>1. CatalogInv'
    BY <1>2, <1>6, RollbackKeeps
  <2>2. Point(s, "rollback", o) /\ snapshots[s] = "validated"
    BY <1>6 DEF Rollback, Ready
  <2> QED
    BY <1>3, <2>1, <2>2, PointKeepsSnapshots
<1> QED
  BY <1>4, <1>5, <1>6 DEF MovePointer

LEMMA ApplyImportKeeps ==
  ASSUME CorpusInv, NEW i \in Importer, ApplyImport(i)
  PROVE  CorpusInv'
<1>1. applied[i].stage = "prepared" /\ UNCHANGED plan
  BY DEF ApplyImport
<1>2. PICK b \in Bundle : b = applied[i].bundle /\ plan[i] = b
  BY <1>1 DEF CorpusInv, PreparedAsPlanned
<1>3. \/ ImportBundle(b) /\ ApplyStage(i, "imported", b)
      \/ ApplyStage(i, "refused", b) /\ UNCHANGED <<catalogVars, tables>>
  BY <1>2 DEF ApplyImport
<1>4. ASSUME NEW stage \in {"imported", "refused"}, ApplyStage(i, stage, b)
      PROVE  /\ PreparedAsPlanned'
             /\ applied'[i] = [stage |-> stage, bundle |-> b]
             /\ \A j \in Importer : j # i => applied'[j] = applied[j]
  BY <1>1, <1>4 DEF ApplyStage, CorpusInv, PreparedAsPlanned
<1>5. CASE ApplyStage(i, "refused", b) /\ UNCHANGED <<catalogVars, tables>>
  <2>1. UNCHANGED <<snapshots, imports, pointer, history, seen, tables>>
    BY <1>5 DEF catalogVars, catalogRows
  <2>2. CatalogInv'
    BY <2>1 DEF CorpusInv, CatalogInv, CatalogTypeOK, PointerIsLastMove, HistoryIsAChain
  <2>3. /\ PreparedAsPlanned' /\ applied'[i].stage = "refused"
        /\ \A j \in Importer : j # i => applied'[j] = applied[j]
    BY <1>4, <1>5
  <2> QED
    BY <2>1, <2>2, <2>3, QuietCorpusStep
<1>6. CASE ImportBundle(b) /\ ApplyStage(i, "imported", b)
  <2>1. /\ RowsStay /\ ServiceStays /\ CatalogInv' /\ KeysAgree' /\ ReadsBack(b)'
        /\ \/ UNCHANGED <<tables, imports>>
           \/ /\ tables'.embedding_imports =
                   EnsureRows(tables.embedding_imports, Row(ImportKey(b), b))
              /\ imports' = [imports EXCEPT ![SnapshotOf(b)] = @ \cup {ProfileOf(b)}]
        /\ imports \in [Snapshot -> SUBSET Profile]
    <3>1. CASE ImportExists(b)
      <4>1. UNCHANGED <<snapshots, imports, pointer, history, seen, tables>>
        BY <1>6, <3>1 DEF ImportBundle, catalogVars, catalogRows
      <4>2. CatalogInv' /\ imports \in [Snapshot -> SUBSET Profile]
        BY <4>1 DEF CorpusInv, CatalogInv, CatalogTypeOK, PointerIsLastMove, HistoryIsAChain
      <4>3. KeysAgree'
        BY <4>1 DEF CorpusInv, KeysAgree
      <4>4. RowsStay /\ ServiceStays
        BY <4>1, KeptIsReflexive DEF RowsStay, ServiceStays, Serviceable
      <4>5. tables.embedding_imports[ImportKey(b)] = b
        BY <1>6, <3>1 DEF ImportBundle, ImportAccepts
      <4>6. ReadsBack(b)
        BY <3>1, <4>5 DEF ImportExists, CorpusInv, ImportsStayValid
      <4>7. ReadsBack(b)'
        BY <4>4, <4>6, ReadsBackStays DEF CorpusInv
      <4> QED
        BY <4>1, <4>2, <4>3, <4>4, <4>7
    <3>2. CASE ~ImportExists(b)
      BY <1>6, <3>2, NewImport
    <3> QED
      BY <3>1, <3>2
  <2>2. /\ PreparedAsPlanned' /\ applied'[i].bundle = b
        /\ \A j \in Importer : j # i => applied'[j] = applied[j]
    BY <1>4, <1>6
  <2>3. ImportAccepts(b)'
    BY <2>1, ReadBackIsAcceptedNext
  <2>4. \A k \in DOMAIN tables'.embedding_imports :
          \E c \in Bundle : /\ c = tables'.embedding_imports[k]
                            /\ ReadsBack(c)' /\ ImportAccepts(c)'
    <3>1. \A k \in DOMAIN tables.embedding_imports :
            \E c \in Bundle : /\ c = tables'.embedding_imports[k]
                              /\ ReadsBack(c)' /\ ImportAccepts(c)'
      BY <2>1, RecordStays
    <3>2. CASE UNCHANGED <<tables, imports>>
      BY <3>1, <3>2
    <3>3. CASE tables'.embedding_imports =
                 EnsureRows(tables.embedding_imports, Row(ImportKey(b), b))
      <4>1. DOMAIN tables'.embedding_imports
              = DOMAIN tables.embedding_imports \cup {ImportKey(b)}
        BY <3>3 DEF EnsureRows, Row
      <4>2. tables'.embedding_imports[ImportKey(b)] = b
        BY <2>1 DEF ReadsBack
      <4> QED
        BY <2>1, <2>3, <3>1, <4>1, <4>2
    <3> QED
      BY <2>1, <3>2, <3>3
  <2>5. ASSUME NEW s \in Snapshot, NEW p \in Profile
        PROVE  p \in imports'[s] <=> <<s, p>> \in DOMAIN tables'.embedding_imports
    <3>1. p \in imports[s] <=> <<s, p>> \in DOMAIN tables.embedding_imports
      BY DEF CorpusInv, ImportsStayValid
    <3>2. CASE UNCHANGED <<tables, imports>>
      BY <3>1, <3>2
    <3>3. CASE /\ tables'.embedding_imports =
                    EnsureRows(tables.embedding_imports, Row(ImportKey(b), b))
               /\ imports' = [imports EXCEPT ![SnapshotOf(b)] = @ \cup {ProfileOf(b)}]
      <4>1. DOMAIN tables'.embedding_imports
              = DOMAIN tables.embedding_imports \cup {ImportKey(b)}
        BY <3>3 DEF EnsureRows, Row
      <4>2. p \in imports'[s] <=> p \in imports[s] \/ (s = SnapshotOf(b) /\ p = ProfileOf(b))
        BY <2>1, <3>3
      <4> QED
        BY <3>1, <4>1, <4>2 DEF ImportKey
    <3> QED
      BY <2>1, <3>2, <3>3
  <2>6. ASSUME NEW j \in Importer, applied'[j].stage = "imported"
        PROVE  \E c \in Bundle : c = applied'[j].bundle /\ ReadsBack(c)'
    BY <2>1, <2>2, <2>6, AppliedStays
  <2>7. ImportsStayValid'
    BY <2>4, <2>5, <2>6 DEF ImportsStayValid
  <2> QED
    BY <2>1, <2>2, <2>7 DEF CorpusInv
<1> QED
  BY <1>3, <1>5, <1>6

LEMMA CorpusStepInv == CorpusInv /\ [CorpusNext]_corpusVars => CorpusInv'
<1> SUFFICES ASSUME CorpusInv, [CorpusNext]_corpusVars PROVE CorpusInv'
    OBVIOUS
<1>1. CASE UNCHANGED corpusVars
  <2>1. UNCHANGED <<snapshots, imports, pointer, history, seen, tables, plan, applied>>
    BY <1>1 DEF corpusVars, catalogVars, catalogRows
  <2>2. CatalogInv' /\ PreparedAsPlanned'
    BY <2>1 DEF CorpusInv, CatalogInv, CatalogTypeOK, PointerIsLastMove, HistoryIsAChain,
                PreparedAsPlanned
  <2> QED
    BY <2>1, <2>2, QuietCorpusStep
<1>2. CASE CorpusNext
  BY <1>2, WritePlanKeeps, RevalidateKeeps, ApplyImportKeeps, ReadBackKeeps, EndApplyKeeps,
     MoveKeeps DEF CorpusNext
<1> QED
  BY <1>1, <1>2

(* The catalog's invariants, the keys of the tables, what the operators    *)
(* have planned and what is on record are one inductive invariant of every *)
(* plan, import, read back and move.                                       *)
THEOREM CorpusInvariance == CorpusSpec => []CorpusInv
BY CorpusInitInv, CorpusStepInv, PTL DEF CorpusSpec

(* Every import on record reads back for good and is accepted again, and   *)
(* the catalog knows exactly the imports on record: no later import, which *)
(* shares rows with it, changes what it meant.                             *)
THEOREM ImportsStayOnRecord == CorpusSpec => []ImportsStayValid
<1>1. CorpusInv => ImportsStayValid
  BY DEF CorpusInv
<1> QED
  BY <1>1, CorpusInvariance, PTL

(* The pointer, its history and the statuses agree while imports go on.    *)
THEOREM CatalogStaysSound == CorpusSpec => []CatalogInv
<1>1. CorpusInv => CatalogInv
  BY DEF CorpusInv
<1> QED
  BY <1>1, CorpusInvariance, PTL

(* Only what its importer has planned is ever imported.                    *)
THEOREM OnlyPlansAreImported == CorpusSpec => PlannedIsImported
<1> DEFINE Planned == \A k \in DOMAIN tables'.embedding_imports \ DOMAIN tables.embedding_imports :
                        \E i \in Importer : plan[i] = tables'.embedding_imports[k]
<1>1. CorpusInv /\ [CorpusNext]_corpusVars => [Planned]_corpusVars
  <2> SUFFICES ASSUME CorpusInv, CorpusNext,
                      NEW k \in DOMAIN tables'.embedding_imports \ DOMAIN tables.embedding_imports
               PROVE  \E i \in Importer : plan[i] = tables'.embedding_imports[k]
    OBVIOUS
  <2>1. tables' # tables
    OBVIOUS
  <2>2. PICK i \in Importer : ApplyImport(i)
    BY <2>1 DEF CorpusNext, WritePlan, Revalidate, ApplyReadBack, EndApply, MovePointer
  <2>3. PICK b \in Bundle : b = applied[i].bundle /\ plan[i] = b
    BY <2>2 DEF ApplyImport, CorpusInv, PreparedAsPlanned
  <2>4. ImportBundle(b) /\ ~ImportExists(b)
    BY <2>1, <2>2, <2>3 DEF ApplyImport, ImportBundle
  <2>5. tables'.embedding_imports = EnsureRows(tables.embedding_imports, Row(ImportKey(b), b))
    BY <2>4, NewImport
  <2>6. k = ImportKey(b) /\ tables'.embedding_imports[k] = b
    BY <2>4, <2>5 DEF EnsureRows, Row, ImportExists
  <2> QED
    BY <2>3, <2>6
<1> QED
  BY <1>1, CorpusInvariance, PTL DEF CorpusSpec, PlannedIsImported

(* No move is made on an outdated view while imports go on.                 *)
THEOREM MovesStayCurrent == CorpusSpec => NoStaleMove
<1> DEFINE Fresh == history' # history =>
                      seen[history'[Len(history')].actor].revision = Len(history)
<1>1. CorpusInv /\ [CorpusNext]_corpusVars => [Fresh]_catalogVars
  <2> SUFFICES ASSUME CorpusInv, CorpusNext, history' # history
               PROVE  seen[history'[Len(history')].actor].revision = Len(history)
    BY DEF corpusVars, catalogVars, catalogRows
  <2>1. PICK o \in Reader : MovePointer(o)
    BY DEF CorpusNext, WritePlan, Revalidate, ApplyImport, ImportBundle, Import, ApplyReadBack,
           EndApply, catalogVars, catalogRows
  <2>2. PICK s \in Snapshot, operation \in {"initial_activate", "replace", "rollback"} :
          seen[o] = pointer /\ Point(s, operation, o)
    BY <2>1, MoverSawThePointer DEF MovePointer, ReadPointer, catalogRows
  <2> QED
    BY <2>2, MoverIsRecorded DEF CorpusInv
<1> QED
  BY <1>1, CorpusInvariance, PTL DEF CorpusSpec, NoStaleMove

-----------------------------------------------------------------------------
(* What a boundary reads *)

(* The rows behind a snapshot that is served: those of a bundle on record. *)
LEMMA ServedRows ==
  ASSUME CorpusInv, NEW s \in Snapshot, Serviceable(s)
  PROVE  /\ \E b \in Bundle : ReadsBack(b) /\ SnapshotOf(b) = s
         /\ s \in DOMAIN tables.snapshot_chunks /\ s \in DOMAIN tables.corpus_snapshots
<1>1. imports[s] # {} /\ imports[s] \subseteq Profile
  BY DEF CorpusInv, CatalogInv, CatalogTypeOK, PointerIsLastMove, Serviceable
<1>2. PICK p \in Profile : <<s, p>> \in DOMAIN tables.embedding_imports
  BY <1>1 DEF CorpusInv, ImportsStayValid
<1>3. PICK b \in Bundle : b = tables.embedding_imports[<<s, p>>] /\ ReadsBack(b)
  BY <1>2 DEF CorpusInv, ImportsStayValid
<1>4. <<s, p>> = ImportKey(b)
  BY <1>2, <1>3 DEF CorpusInv, KeysAgree
<1>5. SnapshotOf(b) = s
  BY <1>4 DEF ImportKey
<1>6. s \in DOMAIN tables.corpus_snapshots
  BY <1>3, <1>5 DEF ReadsBack, SnapshotExists
<1> QED
  BY <1>3, <1>5, <1>6 DEF CorpusInv, KeysAgree

(* A chunk of a bundle that is stored, its articles and their versions.    *)
LEMMA StoredChunk ==
  ASSUME NEW b \in Bundle, ReadsBack(b), NEW c \in ToSet(tables.snapshot_chunks[SnapshotOf(b)])
  PROVE  /\ c \in DOMAIN tables.chunks /\ c \in DOMAIN tables.chunk_articles
         /\ \A a \in ToSet(tables.chunk_articles[c]) :
              /\ a \in DOMAIN tables.law_articles
              /\ tables.law_articles[a].version_id \in DOMAIN tables.law_versions
         /\ <<c, ProfileOf(b)>> \in DOMAIN tables.chunk_embeddings
<1>1. Valid(Content[b]) /\ CorpusStored(b) /\ EmbeddingsStored(b)
  BY DEF ReadsBack, SnapshotMatches, ValidBundles
<1>2. c \in DOMAIN Content[b].chunks
  BY <1>1 DEF CorpusStored, Valid
<1>3. /\ DOMAIN ChunkRows[b] = DOMAIN Content[b].chunks
      /\ DOMAIN RelationRows[b] = DOMAIN Content[b].chunks
      /\ RelationRows[b][c] = Content[b].chunks[c].article_ids
      /\ ArticleRows[b] = Content[b].articles
      /\ DOMAIN LawRows[b] = DOMAIN Content[b].law_versions
      /\ DOMAIN EmbeddingRows[b] = (DOMAIN Content[b].chunks) \X {ProfileOf(b)}
  BY <1>2 DEF ChunkRows, RelationRows, ArticleRows, LawRows, EmbeddingRows
<1>4. c \in DOMAIN tables.chunks /\ c \in DOMAIN tables.chunk_articles
      /\ tables.chunk_articles[c] = Content[b].chunks[c].article_ids
  BY <1>1, <1>2, <1>3 DEF CorpusStored, Stored, Agree
<1>5. ASSUME NEW a \in ToSet(tables.chunk_articles[c])
      PROVE  /\ a \in DOMAIN tables.law_articles
             /\ tables.law_articles[a].version_id \in DOMAIN tables.law_versions
  <2>1. a \in DOMAIN Content[b].articles
    BY <1>1, <1>2, <1>4 DEF Valid
  <2>2. a \in DOMAIN tables.law_articles /\ tables.law_articles[a] = Content[b].articles[a]
    BY <1>1, <1>3, <2>1 DEF CorpusStored, Stored, Agree
  <2>3. Content[b].articles[a].version_id \in DOMAIN Content[b].law_versions
    BY <1>1, <2>1 DEF Valid
  <2> QED
    BY <1>1, <1>3, <2>2, <2>3 DEF CorpusStored, Stored
<1>6. <<c, ProfileOf(b)>> \in DOMAIN tables.chunk_embeddings
  BY <1>1, <1>2, <1>3 DEF EmbeddingsStored, Stored
<1> QED
  BY <1>4, <1>5, <1>6

(* The members of a snapshot that is served keep everything that is read   *)
(* of them.                                                                *)
LEMMA MembersStay ==
  ASSUME CorpusInv, RowsStay, NEW s \in Snapshot, Serviceable(s)
  PROVE  /\ Members(s)' = Members(s)
         /\ tables'.snapshot_chunks[s] = tables.snapshot_chunks[s]
         /\ Members(s) = ToSet(tables.snapshot_chunks[s])
         /\ \A c \in Members(s) :
              /\ tables'.chunks[c] = tables.chunks[c]
              /\ tables'.chunk_articles[c] = tables.chunk_articles[c]
              /\ \A a \in ToSet(tables.chunk_articles[c]) :
                   tables'.law_articles[a] = tables.law_articles[a] /\ LawOf(a)' = LawOf(a)
<1>1. PICK b \in Bundle : ReadsBack(b) /\ SnapshotOf(b) = s
  BY ServedRows
<1>2. s \in DOMAIN tables.snapshot_chunks
  BY ServedRows
<1>3. /\ s \in DOMAIN tables'.snapshot_chunks
      /\ tables'.snapshot_chunks[s] = tables.snapshot_chunks[s]
  BY <1>2 DEF RowsStay, Kept
<1>4. Members(s)' = Members(s) /\ Members(s) = ToSet(tables.snapshot_chunks[s])
  BY <1>2, <1>3 DEF Members
<1>5. ASSUME NEW c \in Members(s)
      PROVE  /\ tables'.chunks[c] = tables.chunks[c]
             /\ tables'.chunk_articles[c] = tables.chunk_articles[c]
             /\ \A a \in ToSet(tables.chunk_articles[c]) :
                  tables'.law_articles[a] = tables.law_articles[a] /\ LawOf(a)' = LawOf(a)
  <2>1. /\ c \in DOMAIN tables.chunks /\ c \in DOMAIN tables.chunk_articles
        /\ \A a \in ToSet(tables.chunk_articles[c]) :
             /\ a \in DOMAIN tables.law_articles
             /\ tables.law_articles[a].version_id \in DOMAIN tables.law_versions
    BY <1>1, <1>4, StoredChunk
  <2> QED
    BY <2>1 DEF RowsStay, Kept, LawOf
<1> QED
  BY <1>3, <1>4, <1>5

(* A lookup that is answered is answered alike after an import.            *)
LEMMA LookupStays ==
  ASSUME CorpusInv, RowsStay, ServiceStays, UNCHANGED history,
         NEW r \in Request, LookupArticle(r) # Unavailable
  PROVE  LookupArticle(r)' = LookupArticle(r)
<1> DEFINE s == r.boundary.snapshot_id
<1>1. CASE LookupDeniesAll(r.boundary)
  BY <1>1 DEF LookupArticle
<1>2. CASE ~LookupDeniesAll(r.boundary)
  <2>1. SnapshotServed(r.boundary) /\ s \in Snapshot
    BY <1>2, SnapshotsAreAsked DEF LookupArticle
  <2>2. SnapshotServed(r.boundary)' /\ Serviceable(s)
    BY <2>1 DEF SnapshotServed, ServiceStays
  <2>3. /\ Members(s)' = Members(s)
        /\ \A c \in Members(s) :
             /\ tables'.chunk_articles[c] = tables.chunk_articles[c]
             /\ \A a \in ToSet(tables.chunk_articles[c]) :
                  tables'.law_articles[a] = tables.law_articles[a] /\ LawOf(a)' = LawOf(a)
    BY <2>1, <2>2, MembersStay
  <2> DEFINE all == UNION {ToSet(tables.chunk_articles[c]) : c \in Members(s)}
  <2>4. UNION {ToSet(tables'.chunk_articles[c]) : c \in Members(s)'} = all
    BY <2>3
  <2>5. \A a \in all : tables'.law_articles[a] = tables.law_articles[a] /\ LawOf(a)' = LawOf(a)
    BY <2>3
  <2>6. ArticleGroups(r)' = ArticleGroups(r) /\ ArticleGroups(r) \subseteq all
    <3> HIDE DEF all
    <3> QED
      BY <2>4, <2>5 DEF ArticleGroups, all
  <2>7. PICK groups : groups = ArticleGroups(r)
    OBVIOUS
  <2>8. \A a \in groups : tables'.law_articles[a] = tables.law_articles[a] /\ LawOf(a)' = LawOf(a)
    BY <2>5, <2>6, <2>7
  <2>9. \A a \in groups : /\ Uncertain(a)' <=> Uncertain(a)
                          /\ Effective(a, r.effective_on)' <=> Effective(a, r.effective_on)
    BY <2>8 DEF Uncertain, Effective
  <2>10. /\ LawIds(groups)' = LawIds(groups)
         /\ {a \in groups : Uncertain(a)}' = {a \in groups : Uncertain(a)}
         /\ {a \in groups : Effective(a, r.effective_on)}'
              = {a \in groups : Effective(a, r.effective_on)}
    BY <2>8, <2>9 DEF LawIds
  <2>11. ResolveArticleGroup(r, groups)' = ResolveArticleGroup(r, groups)
    BY <2>10 DEF ResolveArticleGroup
  <2> QED
    BY <1>2, <2>1, <2>2, <2>6, <2>7, <2>11 DEF LookupArticle
<1> QED
  BY <1>1, <1>2

(* A boundary that is served stays served.                                 *)
LEMMA ContextStays ==
  ASSUME RowsStay, ServiceStays, NEW f, f.snapshot_id \in Snapshot, ContextValidated(f)
  PROVE  ContextValidated(f)'
BY DEF ContextValidated, RowsStay, Kept, ServiceStays

(* The corpus of a boundary that is served is the same after an import.    *)
LEMMA BoundCorpusStays ==
  ASSUME CorpusInv, RowsStay, NEW f, f.snapshot_id \in Snapshot, ContextValidated(f)
  PROVE  BoundCorpus(f)' = BoundCorpus(f)
<1> DEFINE s == f.snapshot_id
           members == tables.snapshot_chunks[s]
<1>1. Serviceable(s) /\ s \in Snapshot
  BY DEF ContextValidated
<1>2. /\ tables'.snapshot_chunks[s] = members
      /\ Members(s) = ToSet(members)
      /\ \A c \in Members(s) :
           /\ tables'.chunks[c] = tables.chunks[c]
           /\ tables'.chunk_articles[c] = tables.chunk_articles[c]
           /\ \A a \in ToSet(tables.chunk_articles[c]) :
                tables'.law_articles[a] = tables.law_articles[a] /\ LawOf(a)' = LawOf(a)
  BY <1>1, MembersStay
<1>3. \A n \in DOMAIN members : members[n] \in Members(s)
  BY <1>2 DEF ToSet
<1>4. ASSUME NEW c \in Members(s)
      PROVE  /\ <<c, f.profile_id>> \in DOMAIN tables.chunk_embeddings
             /\ BoundRow(f, c)' <=> BoundRow(f, c)
             /\ Entry(f, c)' = Entry(f, c)
  <2>1. PICK b \in Bundle : ReadsBack(b) /\ ImportKey(b) = <<s, f.profile_id>>
    BY DEF ContextValidated, CorpusInv, ImportsStayValid, KeysAgree
  <2>2. SnapshotOf(b) = s /\ ProfileOf(b) = f.profile_id
    BY <2>1 DEF ImportKey
  <2>3. <<c, f.profile_id>> \in DOMAIN tables.chunk_embeddings
    BY <1>2, <2>1, <2>2, StoredChunk
  <2>4. /\ <<c, f.profile_id>> \in DOMAIN tables'.chunk_embeddings
        /\ tables'.chunk_embeddings[<<c, f.profile_id>>]
             = tables.chunk_embeddings[<<c, f.profile_id>>]
    BY <2>3 DEF RowsStay, Kept
  <2>5. \A a \in ToSet(tables.chunk_articles[c]) :
          AllowsArticle(f, a)' <=> AllowsArticle(f, a)
    BY <1>2 DEF AllowsArticle
  <2>6. RelationFilter(f, c)' <=> RelationFilter(f, c)
    BY <1>2, <2>5 DEF RelationFilter
  <2>7. Entry(f, c)' = Entry(f, c)
    BY <1>2, <2>4 DEF Entry
  <2> QED
    BY <2>3, <2>4, <2>6, <2>7 DEF BoundRow
<1>5. Members(s)' = Members(s)
  BY <1>1, MembersStay
<1>6. {m \in Members(s) : ~FilterDeniesAll(f) /\ BoundRow(f, m)}'
        = {m \in Members(s) : ~FilterDeniesAll(f) /\ BoundRow(f, m)}
  BY <1>4, <1>5
<1>7. BoundEntries(f)' = BoundEntries(f)
  BY <1>4, <1>6 DEF BoundEntries
<1> QED
  BY <1>2, <1>7 DEF BoundCorpus

(* No step takes back a row, an event or the service of a snapshot, and    *)
(* the pointer is not moved by an import.                                  *)
LEMMA StepKeepsRows ==
  ASSUME CorpusInv, CorpusNext
  PROVE  /\ RowsStay /\ ServiceStays
         /\ \A n \in DOMAIN history : n \in DOMAIN history' /\ history'[n] = history[n]
         /\ imports' # imports => UNCHANGED history
         /\ pointer' # pointer => pointer'.snapshot \in Snapshot
<1>1. ASSUME UNCHANGED <<catalogRows, tables>>
      PROVE  /\ RowsStay /\ ServiceStays
             /\ UNCHANGED <<history, imports, pointer>>
  BY <1>1, KeptIsReflexive DEF catalogRows, RowsStay, ServiceStays, Serviceable
<1>2. ASSUME NEW i \in Importer, ApplyImport(i) PROVE RowsStay /\ ServiceStays /\ UNCHANGED <<history, pointer>>
  <2>1. PICK b \in Bundle : b = applied[i].bundle
    BY <1>2 DEF ApplyImport, CorpusInv, PreparedAsPlanned
  <2>2. CASE UNCHANGED <<catalogVars, tables>>
    BY <1>1, <2>2 DEF catalogVars
  <2>3. CASE ImportBundle(b) /\ ~ImportExists(b)
    BY <2>3, NewImport DEF ImportBundle, Import
  <2> QED
    BY <1>2, <2>1, <2>2, <2>3 DEF ApplyImport, ImportBundle
<1>3. ASSUME NEW o \in Reader, MovePointer(o)
      PROVE  /\ RowsStay /\ ServiceStays /\ UNCHANGED imports
             /\ \A n \in DOMAIN history : n \in DOMAIN history' /\ history'[n] = history[n]
             /\ pointer' # pointer => pointer'.snapshot \in Snapshot
  <2>1. CASE ReadPointer(o)
    BY <1>1, <1>3, <2>1 DEF ReadPointer, MovePointer
  <2>2. ASSUME NEW s \in Snapshot, NEW operation, Point(s, operation, o), snapshots[s] = "validated"
        PROVE  /\ RowsStay /\ ServiceStays /\ UNCHANGED imports
               /\ \A n \in DOMAIN history : n \in DOMAIN history' /\ history'[n] = history[n]
               /\ pointer'.snapshot \in Snapshot
    <3>1. /\ \A t \in Snapshot : snapshots'[t] = IF t = s THEN "active"
                                                 ELSE IF t = pointer.snapshot THEN "validated"
                                                 ELSE snapshots[t]
          /\ UNCHANGED <<imports, tables>> /\ pointer'.snapshot = s
          /\ \E event : history' = Append(history, event)
      BY <1>3, <2>2 DEF Point, MovePointer
    <3>2. ServiceStays
      BY <3>1 DEF ServiceStays, Serviceable
    <3>3. RowsStay
      BY <3>1, KeptIsReflexive DEF RowsStay
    <3>4. history \in Seq(Event)
      BY DEF CorpusInv, CatalogInv, CatalogTypeOK
    <3>5. \A n \in DOMAIN history : n \in DOMAIN history' /\ history'[n] = history[n]
      BY <3>1, <3>4
    <3> QED
      BY <3>1, <3>2, <3>3, <3>5
  <2> QED
    BY <1>3, <2>1, <2>2 DEF MovePointer, Activate, Rollback, Ready
<1>4. CASE \E i \in Importer, b \in Bundle : WritePlan(i, b) \/ Revalidate(i, b)
  BY <1>1, <1>4 DEF WritePlan, Revalidate, catalogVars
<1>5. CASE \E i \in Importer : ApplyReadBack(i) \/ EndApply(i)
  BY <1>1, <1>5 DEF ApplyReadBack, EndApply, catalogVars
<1> QED
  BY <1>2, <1>3, <1>4, <1>5 DEF CorpusNext

(* What is active can be looked up, and a run bound to it can search.      *)
ActiveFound ==
  pointer # NoPointer => \A r \in Request : LookupActiveArticle(r) # Unavailable

BoundFound ==
  \A s \in Snapshot, p \in Profile : FrozenBinding(p) = s => AssistantCorpus(s, p) # NoCorpus

LEMMA ActiveIsFound == CorpusInv => ActiveFound
<1> SUFFICES ASSUME CorpusInv, pointer # NoPointer, NEW r \in Request
             PROVE  LookupActiveArticle(r) # Unavailable
    BY DEF ActiveFound
<1>1. /\ pointer.snapshot \in Snapshot \cup {None} /\ pointer.revision \in Nat
      /\ pointer = [snapshot |-> pointer.snapshot, revision |-> pointer.revision]
      /\ history \in Seq(Event)
      /\ pointer.revision = Len(history)
      /\ pointer.snapshot = IF history = <<>> THEN None ELSE history[Len(history)].target
      /\ \A s \in Snapshot : (snapshots[s] = "active") <=> (s = pointer.snapshot)
  BY DEF CorpusInv, CatalogInv, CatalogTypeOK, PointerIsLastMove, Pointer
<1>2. history # <<>>
  BY <1>1 DEF NoPointer
<1>3. pointer.revision \in DOMAIN history /\ history[pointer.revision].target = pointer.snapshot
  BY <1>1, <1>2
<1>4. pointer.snapshot \in Snapshot
  <2>1. history[pointer.revision] \in Event
    BY <1>1, <1>3
  <2>2. history[pointer.revision].target \in Snapshot
    BY <2>1 DEF Event
  <2> QED
    BY <1>3, <2>2
<1>5. SnapshotServed(ActiveBoundary)
  BY <1>1, <1>3, <1>4 DEF SnapshotServed, ActiveBoundary, Serviceable
<1> DEFINE q == [r EXCEPT !.boundary = ActiveBoundary]
<1>6. q.boundary = ActiveBoundary
  BY SnapshotsAreAsked
<1> HIDE DEF q
<1>7. LookupArticle(q) # Unavailable
  BY <1>5, <1>6 DEF LookupArticle, ResolveArticleGroup, Answer, Unavailable
<1> QED
  BY <1>7 DEF LookupActiveArticle, q

LEMMA BoundRunHasACorpus == CorpusInv => BoundFound
<1> SUFFICES ASSUME CorpusInv, NEW s \in Snapshot, NEW p \in Profile, FrozenBinding(p) = s
             PROVE  AssistantCorpus(s, p) # NoCorpus
    BY DEF BoundFound
<1> DEFINE f == RunBoundary(s, p)
<1>1. s = pointer.snapshot /\ snapshots[s] = "active" /\ <<s, p>> \in DOMAIN tables.embedding_imports
  BY NullIsNoSnapshot DEF FrozenBinding
<1>2. PICK b \in Bundle : ReadsBack(b) /\ <<s, p>> = ImportKey(b)
  BY <1>1 DEF CorpusInv, ImportsStayValid, KeysAgree
<1>3. SnapshotOf(b) = s /\ ProfileOf(b) = p
  BY <1>2 DEF ImportKey
<1>4. /\ f.snapshot_id = s /\ f.profile_id = p
      /\ ~FilterDeniesAll(f) /\ ~Selects(f)
  BY NullIsNoSelector DEF RunBoundary, FilterDeniesAll, Selects
<1> HIDE DEF f
<1>5. Serviceable(s)
  BY <1>1 DEF Serviceable
<1>6. ContextValidated(f)
  BY <1>1, <1>2, <1>3, <1>4, <1>5 DEF ContextValidated, ReadsBack, EmbeddingsStored
<1>7. /\ tables.snapshot_chunks[s] = Content[b].members
      /\ s \in DOMAIN tables.snapshot_chunks
  BY <1>2, <1>3, <1>5, ServedRows DEF ReadsBack, SnapshotMatches, CorpusStored
<1>8. PICK n \in DOMAIN Content[b].members : TRUE
  BY BundlesAreBuilt DEF ToSet
<1> DEFINE c == Content[b].members[n]
<1>9. c \in Members(s) /\ c \in ToSet(tables.snapshot_chunks[s])
  BY <1>7, <1>8 DEF Members, ToSet
<1>10. <<c, p>> \in DOMAIN tables.chunk_embeddings
  BY <1>2, <1>3, <1>9, StoredChunk
<1>11. c \in DOMAIN BoundEntries(f)
  BY <1>4, <1>9, <1>10 DEF BoundEntries, BoundRow, RelationFilter
<1>12. n \in DOMAIN BoundCorpus(f)
  BY <1>4, <1>7, <1>8, <1>11 DEF BoundCorpus
<1>13. BoundCorpus(f) # NoCorpus
  BY <1>12 DEF NoCorpus
<1> QED
  BY <1>6, <1>13 DEF AssistantCorpus, f

(* A boundary once served is served for good and with the same answers,    *)
(* whatever is imported or activated meanwhile; what is active can be      *)
(* looked up, and a run bound to it has a corpus to search.                *)
THEOREM ReadsStayReproducible == CorpusSpec => ReadsAreReproducible
<1> DEFINE Served == /\ \A b \in Boundaries : SnapshotServed(b) => SnapshotServed(b)'
                     /\ \A f \in Filter : ContextValidated(f) => ContextValidated(f)'
           Same == imports' # imports =>
             /\ \A r \in Request :
                  LookupArticle(r) # Unavailable => LookupArticle(r)' = LookupArticle(r)
             /\ \A f \in Filter : ContextValidated(f) => BoundCorpus(f)' = BoundCorpus(f)
           Found == pointer' # pointer =>
             /\ \E r \in Request : LookupActiveArticle(r)' # Unavailable
             /\ \A s \in Snapshot, p \in Profile :
                  FrozenBinding(p)' = s => AssistantCorpus(s, p)' # NoCorpus
           Runs == \A s \in Snapshot, p \in Profile :
             ContextValidated(RunBoundary(s, p)) => ContextValidated(RunBoundary(s, p))'
<1>1. CorpusInv' => ActiveFound'
  BY ActiveIsFound, PTL
<1>2. CorpusInv' => BoundFound'
  BY BoundRunHasACorpus, PTL
<1>3. CorpusInv /\ CorpusInv' /\ [CorpusNext]_corpusVars
        => [Served /\ Same /\ Found /\ Runs]_catalogRows
  <2> SUFFICES ASSUME CorpusInv, CorpusInv', CorpusNext
               PROVE  Served /\ Same /\ Found /\ Runs
    BY DEF corpusVars, catalogVars
  <2>1. /\ RowsStay /\ ServiceStays
        /\ \A n \in DOMAIN history : n \in DOMAIN history' /\ history'[n] = history[n]
        /\ imports' # imports => UNCHANGED history
        /\ pointer' # pointer => pointer'.snapshot \in Snapshot
    BY StepKeepsRows
  <2>2. Served
    <3>1. ASSUME NEW r \in Request, SnapshotServed(r.boundary) PROVE SnapshotServed(r.boundary)'
      BY <2>1, <3>1, SnapshotsAreAsked DEF SnapshotServed, ServiceStays
    <3>2. ASSUME NEW f \in Filter, ContextValidated(f) PROVE ContextValidated(f)'
      BY <2>1, <3>2, SnapshotsAreAsked, ContextStays
    <3> QED
      BY <3>1, <3>2 DEF Boundaries
  <2>3. Same
    BY <2>1, SnapshotsAreAsked, LookupStays, BoundCorpusStays
  <2>4. Found
    <3>1. pointer' # pointer => pointer' # NoPointer
      BY <2>1, NullIsNoSnapshot DEF NoPointer
    <3> QED
      BY <1>1, <1>2, <3>1, SnapshotsAreAsked DEF ActiveFound, BoundFound
  <2>5. Runs
    <3> SUFFICES ASSUME NEW s \in Snapshot, NEW p \in Profile,
                        ContextValidated(RunBoundary(s, p))
                 PROVE  ContextValidated(RunBoundary(s, p))'
      OBVIOUS
    <3>1. RunBoundary(s, p).snapshot_id \in Snapshot
      BY DEF RunBoundary
    <3> QED
      BY <2>1, <3>1, ContextStays
  <2> QED
    BY <2>2, <2>3, <2>4, <2>5
<1> QED
  BY <1>3, CorpusInvariance, PTL DEF CorpusSpec, ReadsAreReproducible

-----------------------------------------------------------------------------
(* The ANN generations: generations, receipts and physical graphs account  *)
(* for each other, and searches are complete.                              *)


BuildRow ==
  {AtRest} \cup [pc: {"advisory"}, snapshot: Snapshot, profile: Profile, server: Nat]
    \cup [pc: {"share"}, snapshot: Snapshot, profile: Profile, server: Nat,
          manifest: SUBSET Chunk]

SearchRow ==
  {AtRest} \cup [pc: {"underfilled", "ann_complete", "exact_fallback_complete",
                    "exact_fallback_exhausted"},
               snapshot: Snapshot, profile: Profile, results: Nat]

Typed ==
  /\ AnnTypeOK
  /\ binding \in [Profile -> Params \cup {None}]
  /\ guarded \in BOOLEAN
  /\ server \in Nat
  /\ build \in [Builder -> BuildRow]
  /\ search \in [Searcher -> SearchRow]
  /\ instances \in [Profile -> 0..MaxInstances]

(* A build holds the advisory lock of its profile, and an identifier is     *)
(* left for its index.                                                      *)
OneBuildPerProfile ==
  /\ \A b, c \in Builder : build[b] # AtRest /\ build[c] # AtRest
       /\ build[b].profile = build[c].profile => b = c
  /\ \A b \in Builder : build[b] # AtRest => instances[build[b].profile] < MaxInstances

(* While a build holds SHARE no import holds rows, so that the manifest it  *)
(* has computed stays that of the table.                                    *)
SharedManifest ==
  \A b \in Builder : build[b].pc = "share" =>
    ~HoldsRows /\ build[b].manifest = embedded[build[b].profile]

(* What was imported has its rows. *)
ImportsHaveRows == \A s \in Snapshot, p \in Profile : Searchable(s, p) => ChunksOf[s] \subseteq embedded[p]

(* No receipt is both in force and archived. *)
ReceiptsOnce ==
  \A r, t \in receipts : r.snapshot = t.snapshot /\ r.params = t.params => r.status = t.status

(* OneGraphPerBoundary without its cardinalities. *)
GraphsOnRecord ==
  \A p \in Profile : \A i \in Boundary(p) \ {Foreign(p)} :
    /\ i \in {r.params : r \in Live(p)}
    /\ \A j \in Boundary(p) \ {Foreign(p)} : j = i

(* A search is about a snapshot that was imported. *)
SearchesServed ==
  \A q \in Searcher : search[q] # AtRest =>
    /\ Searchable(search[q].snapshot, search[q].profile)
    /\ search[q].pc # "underfilled" =>
         \/ search[q].results = TopK
         \/ search[q].results = Cardinality(ChunksOf[search[q].snapshot])

AnnInv ==
  /\ Typed /\ OneBuildPerProfile /\ SharedManifest /\ ImportsHaveRows
  /\ ReceiptsOnce /\ BindingIsBacked /\ GraphsOnRecord /\ SearchesServed

-----------------------------------------------------------------------------
(* Steps of one table *)

(* The tables of generations, receipts and indexes, and the rows they are  *)
(* about, are left alone.                                                  *)
LEMMA SameTables ==
  ASSUME BindingIsBacked, GraphsOnRecord, ReceiptsOnce, ImportsHaveRows,
         UNCHANGED <<rowVars, annRows>>
  PROVE  BindingIsBacked' /\ GraphsOnRecord' /\ ReceiptsOnce' /\ ImportsHaveRows'
  <1> USE DEF rowVars, annRows
  <1>1. \A p : Live(p)' = Live(p) /\ Boundary(p)' = Boundary(p)
    BY DEF Live, Boundary
  <1>2. AnnTypeOK'
    BY DEF BindingIsBacked, AnnTypeOK
  <1>3. BindingIsBacked'
    BY <1>1, <1>2 DEF BindingIsBacked
  <1>4. GraphsOnRecord'
    BY <1>1 DEF GraphsOnRecord
  <1>5. ReceiptsOnce' /\ ImportsHaveRows'
    BY DEF ReceiptsOnce, ImportsHaveRows, Searchable
  <1> QED BY <1>3, <1>4, <1>5

(* A build that holds SHARE knows the rows, as long as they are the same. *)
LEMMA SameBuilds ==
  ASSUME OneBuildPerProfile, SharedManifest, UNCHANGED <<rowVars, build, instances>>
  PROVE  OneBuildPerProfile' /\ SharedManifest'
  BY DEF OneBuildPerProfile, SharedManifest, HoldsRows, rowVars

(* Searches are not disturbed, because the rows of an import stay. *)
LEMMA SameSearches ==
  ASSUME SearchesServed, UNCHANGED search, imported \subseteq imported'
  PROVE  SearchesServed'
  BY DEF SearchesServed, Searchable

LEMMA BuildRows ==
  ASSUME NEW row \in BuildRow
  PROVE  /\ row.pc \in {"idle", "advisory", "share"}
         /\ row = AtRest <=> row.pc = "idle"
         /\ row # AtRest => row.snapshot \in Snapshot /\ row.profile \in Profile /\ row.server \in Nat
         /\ row.pc = "share" => row.manifest \in SUBSET Chunk
  BY DEF BuildRow, AtRest

-----------------------------------------------------------------------------
(* Imports *)

LEMMA ImportBeginKeeps ==
  ASSUME AnnInv, NEW s \in Snapshot, NEW p \in Profile, ImportBegin(s, p)
  PROVE  AnnInv'
  <1>0. /\ UNCHANGED <<imported, embedded, annRows, server, build, search, instances>>
        /\ writing' = [snapshot |-> s, profile |-> p]
        /\ ChunksOf[s] \subseteq embedded[p] \/ \A b \in Builder : build[b].pc # "share"
    BY DEF ImportBegin
  <1>1. Typed'
    BY <1>0 DEF AnnInv, Typed, AnnTypeOK, annRows
  <1>2. OneBuildPerProfile' /\ SharedManifest'
    BY <1>0 DEF AnnInv, OneBuildPerProfile, SharedManifest, HoldsRows
  <1>3. \A q : Live(q)' = Live(q) /\ Boundary(q)' = Boundary(q)
    BY <1>0 DEF Live, Boundary, annRows
  <1>4. BindingIsBacked' /\ GraphsOnRecord'
    BY <1>0, <1>1, <1>3 DEF AnnInv, BindingIsBacked, GraphsOnRecord, Typed, annRows
  <1>5. ReceiptsOnce' /\ ImportsHaveRows' /\ SearchesServed'
    BY <1>0, SameSearches DEF AnnInv, ReceiptsOnce, ImportsHaveRows, Searchable, annRows
  <1> QED BY <1>1, <1>2, <1>4, <1>5 DEF AnnInv

LEMMA ImportFailKeeps ==
  ASSUME AnnInv, ImportFail
  PROVE  AnnInv'
  <1>0. /\ UNCHANGED <<imported, embedded, annRows, server, build, search, instances>>
        /\ writing' = None
    BY DEF ImportFail
  <1>1. Typed'
    BY <1>0 DEF AnnInv, Typed, AnnTypeOK, annRows
  <1>2. OneBuildPerProfile' /\ SharedManifest'
    BY <1>0 DEF AnnInv, OneBuildPerProfile, SharedManifest, HoldsRows
  <1>3. \A q : Live(q)' = Live(q) /\ Boundary(q)' = Boundary(q)
    BY <1>0 DEF Live, Boundary, annRows
  <1>4. BindingIsBacked' /\ GraphsOnRecord'
    BY <1>0, <1>1, <1>3 DEF AnnInv, BindingIsBacked, GraphsOnRecord, Typed, annRows
  <1>5. ReceiptsOnce' /\ ImportsHaveRows' /\ SearchesServed'
    BY <1>0, SameSearches DEF AnnInv, ReceiptsOnce, ImportsHaveRows, Searchable, annRows
  <1> QED BY <1>1, <1>2, <1>4, <1>5 DEF AnnInv

(* New rows unbind the generation of their profile, and there are none      *)
(* while a build holds SHARE.                                               *)
LEMMA ImportCommitKeeps ==
  ASSUME AnnInv, ImportCommit
  PROVE  AnnInv'
  <1> DEFINE s == writing.snapshot
             p == writing.profile
             new == ChunksOf[s] \ embedded[p]
  <1>0. /\ UNCHANGED <<guarded, receipts, indexes, server, build, search, instances>>
        /\ writing # None /\ writing' = None
        /\ embedded' = [embedded EXCEPT ![p] = @ \cup new]
        /\ imported' = imported \cup {<<s, p>>}
        /\ binding' = IF guarded /\ new # {} THEN [binding EXCEPT ![p] = None] ELSE binding
    BY DEF ImportCommit, Track
  <1>1. s \in Snapshot /\ p \in Profile /\ ChunksOf[s] \subseteq Chunk
    BY <1>0, SnapshotsHaveChunks DEF AnnInv, Typed, AnnTypeOK
  <1>2. /\ embedded \in [Profile -> SUBSET Chunk] /\ binding \in [Profile -> Params \cup {None}]
        /\ embedded' \in [Profile -> SUBSET Chunk] /\ binding' \in [Profile -> Params \cup {None}]
    BY <1>0, <1>1 DEF AnnInv, Typed, AnnTypeOK
  <1>3. new # {} => \A b \in Builder : build[b].pc # "share"
    BY <1>0 DEF AnnInv, SharedManifest, HoldsRows
  <1>4. /\ \A q \in Profile : embedded[q] \subseteq embedded'[q]
        /\ ChunksOf[s] \subseteq embedded'[p]
        /\ \A q \in Profile : embedded'[q] # embedded[q] => new # {} /\ q = p
        /\ \A q \in Profile : binding'[q] = binding[q] \/ binding'[q] = None
        /\ guarded /\ new # {} => binding'[p] = None
    BY <1>0, <1>1, <1>2
  <1> HIDE DEF new
  <1>5. AnnTypeOK'
    BY <1>0, <1>1, <1>2 DEF AnnInv, Typed, AnnTypeOK
  <1>6. Typed'
    BY <1>0, <1>2, <1>5 DEF AnnInv, Typed
  <1>7. OneBuildPerProfile' /\ SharedManifest'
    <2>1. \A b \in Builder : build[b].pc = "share" => build[b].profile \in Profile
      BY BuildRows DEF AnnInv, Typed
    <2> QED BY <1>0, <1>3, <1>4, <2>1 DEF AnnInv, OneBuildPerProfile, SharedManifest, HoldsRows
  <1>8. \A q : Live(q)' = Live(q) /\ Boundary(q)' = Boundary(q)
    BY <1>0 DEF Live, Boundary
  <1>9. BindingIsBacked'
    <2>1. ASSUME NEW q \in Profile, binding'[q] # None
          PROVE  binding'[q] = binding[q] /\ embedded'[q] = embedded[q] /\ guarded
      <3>1. binding'[q] = binding[q] /\ guarded
        BY <1>4, <2>1 DEF AnnInv, BindingIsBacked
      <3> QED BY <1>4, <2>1, <3>1
    <2> QED BY <1>0, <1>5, <1>8, <2>1 DEF AnnInv, BindingIsBacked
  <1>10. GraphsOnRecord' /\ ReceiptsOnce'
    BY <1>0, <1>8 DEF AnnInv, GraphsOnRecord, ReceiptsOnce
  <1>11. ImportsHaveRows'
    <2> SUFFICES ASSUME NEW t \in Snapshot, NEW q \in Profile, <<t, q>> \in imported'
                 PROVE  ChunksOf[t] \subseteq embedded'[q]
      BY DEF ImportsHaveRows, Searchable
    <2>1. CASE <<t, q>> \in imported
      BY <1>4, <2>1 DEF AnnInv, ImportsHaveRows, Searchable
    <2>2. CASE <<t, q>> = <<s, p>>
      BY <1>4, <2>2
    <2> QED BY <1>0, <2>1, <2>2
  <1>12. SearchesServed'
    BY <1>0, SameSearches DEF AnnInv
  <1> QED BY <1>6, <1>7, <1>9, <1>10, <1>11, <1>12 DEF AnnInv

-----------------------------------------------------------------------------
(* Builds before they write, and searches *)

LEMMA BuildBeginKeeps ==
  ASSUME AnnInv, NEW b \in Builder, NEW s \in Snapshot, NEW p \in Profile, BuildBegin(b, s, p)
  PROVE  AnnInv'
  <1> DEFINE row == [pc |-> "advisory", snapshot |-> s, profile |-> p, server |-> server]
  <1>0. /\ UNCHANGED <<rowVars, annRows, server, search, instances>>
        /\ build' = [build EXCEPT ![b] = row]
        /\ instances[p] < MaxInstances
        /\ \A c \in Builder : build[c] # AtRest => build[c].profile # p
    BY DEF BuildBegin, AdvisoryFree
  <1>1. row \in BuildRow /\ row.pc = "advisory" /\ row.profile = p
    BY DEF AnnInv, Typed, BuildRow
  <1>2. build' \in [Builder -> BuildRow] /\ build'[b] = row
        /\ \A c \in Builder \ {b} : build'[c] = build[c]
    BY <1>0, <1>1 DEF AnnInv, Typed
  <1> HIDE DEF row
  <1>3. Typed'
    BY <1>0, <1>2 DEF AnnInv, Typed, AnnTypeOK, rowVars, annRows
  <1>4. OneBuildPerProfile'
    BY <1>0, <1>1, <1>2 DEF AnnInv, OneBuildPerProfile
  <1>5. SharedManifest'
    BY <1>0, <1>1, <1>2 DEF AnnInv, SharedManifest, HoldsRows, rowVars
  <1>6. SearchesServed'
    BY <1>0, SameSearches DEF AnnInv, rowVars
  <1> QED BY <1>0, <1>3, <1>4, <1>5, <1>6, SameTables DEF AnnInv

(* A build that gets SHARE sees no import at work. *)
LEMMA BuildShareKeeps ==
  ASSUME AnnInv, NEW b \in Builder, BuildShare(b)
  PROVE  AnnInv'
  <1> DEFINE row == [pc |-> "share", snapshot |-> build[b].snapshot,
                     profile |-> build[b].profile, server |-> build[b].server,
                     manifest |-> embedded[build[b].profile]]
  <1>0. /\ UNCHANGED <<rowVars, annRows, server, search, instances>>
        /\ build' = [build EXCEPT ![b] = row]
        /\ build[b].pc = "advisory" /\ ~HoldsRows
    BY DEF BuildShare, ShareFree
  <1>1. /\ build[b] # AtRest /\ build[b].snapshot \in Snapshot /\ build[b].profile \in Profile
        /\ build[b].server \in Nat
    BY <1>0, BuildRows DEF AnnInv, Typed
  <1>2. /\ row \in BuildRow /\ row.pc = "share" /\ row # AtRest /\ row.profile = build[b].profile
        /\ row.manifest = embedded[row.profile]
    BY <1>1 DEF AnnInv, Typed, AnnTypeOK, BuildRow, AtRest
  <1> HIDE DEF row
  <1>3. build' \in [Builder -> BuildRow] /\ build'[b] = row
        /\ \A c \in Builder \ {b} : build'[c] = build[c]
    BY <1>0, <1>2 DEF AnnInv, Typed
  <1>4. Typed'
    BY <1>0, <1>3 DEF AnnInv, Typed, AnnTypeOK, rowVars, annRows
  <1>5. OneBuildPerProfile'
    BY <1>0, <1>1, <1>2, <1>3 DEF AnnInv, OneBuildPerProfile
  <1>6. SharedManifest'
    BY <1>0, <1>2, <1>3 DEF AnnInv, SharedManifest, HoldsRows, rowVars
  <1>7. SearchesServed'
    BY <1>0, SameSearches DEF AnnInv, rowVars
  <1> QED BY <1>0, <1>4, <1>5, <1>6, <1>7, SameTables DEF AnnInv

LEMMA BuildFailKeeps ==
  ASSUME AnnInv, NEW b \in Builder, BuildFail(b)
  PROVE  AnnInv'
  <1>0. /\ UNCHANGED <<rowVars, annRows, server, search, instances>>
        /\ build' = [build EXCEPT ![b] = AtRest]
    BY DEF BuildFail
  <1>1. build' \in [Builder -> BuildRow] /\ build'[b] = AtRest /\ AtRest.pc = "idle"
        /\ \A c \in Builder \ {b} : build'[c] = build[c]
    BY <1>0 DEF AnnInv, Typed, BuildRow, AtRest
  <1>2. Typed'
    BY <1>0, <1>1 DEF AnnInv, Typed, AnnTypeOK, rowVars, annRows
  <1>3. OneBuildPerProfile'
    BY <1>0, <1>1 DEF AnnInv, OneBuildPerProfile
  <1>4. SharedManifest'
    BY <1>0, <1>1 DEF AnnInv, SharedManifest, HoldsRows, rowVars
  <1>5. SearchesServed'
    BY <1>0, SameSearches DEF AnnInv, rowVars
  <1> QED BY <1>0, <1>2, <1>3, <1>4, <1>5, SameTables DEF AnnInv

(* The members of a snapshot that was imported are all eligible, for good.  *)
LEMMA WholeSnapshotEligible ==
  ASSUME Typed, ImportsHaveRows, NEW s \in Snapshot, NEW p \in Profile, Searchable(s, p)
  PROVE  Eligible(s, p) = ChunksOf[s] /\ Cardinality(ChunksOf[s]) \in Nat
  BY SnapshotsHaveChunks, FS_CardinalityType DEF ImportsHaveRows, Eligible

(* A search that changes its row to an answer, or to none. *)
LEMMA SearchKeeps ==
  ASSUME AnnInv, NEW q \in Searcher, NEW row \in SearchRow,
         search' = [search EXCEPT ![q] = row],
         UNCHANGED <<rowVars, annRows, server, build, instances>>,
         row # AtRest =>
           /\ Searchable(row.snapshot, row.profile)
           /\ row.pc # "underfilled" =>
                row.results = TopK \/ row.results = Cardinality(ChunksOf[row.snapshot])
  PROVE  AnnInv'
  <1>1. search' \in [Searcher -> SearchRow] /\ search'[q] = row
        /\ \A o \in Searcher \ {q} : search'[o] = search[o]
    BY DEF AnnInv, Typed
  <1>2. Typed'
    BY <1>1 DEF AnnInv, Typed, AnnTypeOK, rowVars, annRows
  <1>3. OneBuildPerProfile' /\ SharedManifest'
    BY SameBuilds DEF AnnInv
  <1>4. SearchesServed'
    BY <1>1 DEF AnnInv, SearchesServed, Searchable, rowVars
  <1> QED BY <1>2, <1>3, <1>4, SameTables DEF AnnInv

LEMMA SearchesKeep ==
  ASSUME AnnInv, NEW q \in Searcher,
         (\E r \in receipts : SearchAnn(q, r)) \/ SearchFallback(q) \/ SearchUnderfilled(q)
  PROVE  AnnInv'
  <1>0. /\ TopK \in Nat /\ search[q] \in SearchRow
        /\ search[q] # AtRest => search[q].snapshot \in Snapshot /\ search[q].profile \in Profile
        /\ search \in [Searcher -> SearchRow]
    BY AnnBounds DEF AnnInv, Typed, SearchRow
  <1>1. ASSUME NEW r \in receipts, SearchAnn(q, r) PROVE AnnInv'
    <2> DEFINE s == r.snapshot
               p == r.params.profile
               NewRow(n) == [pc |-> IF n >= TopK THEN "ann_complete" ELSE "underfilled",
                          snapshot |-> s, profile |-> p,
                          results |-> IF n >= TopK THEN TopK ELSE n]
    <2>1. s \in Snapshot /\ p \in Profile
      BY DEF AnnInv, Typed, AnnTypeOK, Params
    <2>2. Searchable(s, p) /\ Cardinality(Eligible(s, p)) \in Nat
      BY <1>1, <2>1, WholeSnapshotEligible DEF SearchAnn, AnnInv
    <2>3. PICK n \in 0..Cardinality(Eligible(s, p)) : search' = [search EXCEPT ![q] = NewRow(n)]
      BY <1>1 DEF SearchAnn
    <2>4. n \in Nat
      BY <2>2
    <2>5. /\ NewRow(n) \in SearchRow
          /\ NewRow(n).snapshot = s /\ NewRow(n).profile = p
          /\ NewRow(n).pc # "underfilled" => NewRow(n).results = TopK
      BY <1>0, <2>1, <2>4 DEF SearchRow
    <2>6. UNCHANGED <<rowVars, annRows, server, build, instances>>
      BY <1>1 DEF SearchAnn
    <2> HIDE DEF NewRow, s, p
    <2> QED BY <2>2, <2>3, <2>5, <2>6, SearchKeeps
  <1>2. CASE SearchFallback(q)
    <2> DEFINE s == search[q].snapshot
               p == search[q].profile
               n == Cardinality(Eligible(s, p))
               row == [search[q] EXCEPT !.pc = IF n >= TopK THEN "exact_fallback_complete"
                                                ELSE "exact_fallback_exhausted",
                                        !.results = IF n >= TopK THEN TopK ELSE n]
    <2>1. /\ search[q].pc = "underfilled" /\ Searchable(s, p)
          /\ search' = [search EXCEPT ![q] = row]
          /\ UNCHANGED <<rowVars, annRows, server, build, instances>>
      BY <1>0, <1>2 DEF SearchFallback
    <2>2. search[q] # AtRest
      BY <2>1 DEF AtRest
    <2>3. n = Cardinality(ChunksOf[s]) /\ n \in Nat
      BY <1>0, <2>1, <2>2, WholeSnapshotEligible DEF AnnInv
    <2> HIDE DEF n
    <2>4. /\ row \in SearchRow /\ row.snapshot = s /\ row.profile = p
          /\ row.results = TopK \/ row.results = n
      BY <1>0, <2>2, <2>3 DEF SearchRow
    <2> HIDE DEF row
    <2> QED BY <2>1, <2>3, <2>4, SearchKeeps
  <1>3. CASE SearchUnderfilled(q)
    <2>1. AtRest \in SearchRow
      BY DEF SearchRow
    <2> QED BY <1>3, <2>1, SearchKeeps DEF SearchUnderfilled
  <1> QED BY <1>1, <1>2, <1>3

-----------------------------------------------------------------------------
(* The database under the code *)

LEMMA DowngradeKeeps ==
  ASSUME AnnInv, Downgrade
  PROVE  AnnInv'
  <1>0. /\ UNCHANGED <<rowVars, receipts, indexes, server, build, search, instances>>
        /\ guarded' = FALSE /\ binding' = [p \in Profile |-> None]
    BY DEF Downgrade
  <1>1. Typed'
    BY <1>0 DEF AnnInv, Typed, AnnTypeOK, rowVars
  <1>2. \A q : Live(q)' = Live(q) /\ Boundary(q)' = Boundary(q)
    BY <1>0 DEF Live, Boundary
  <1>3. BindingIsBacked' /\ GraphsOnRecord' /\ ReceiptsOnce' /\ ImportsHaveRows'
    BY <1>0, <1>1, <1>2
       DEF AnnInv, Typed, BindingIsBacked, GraphsOnRecord, ReceiptsOnce, ImportsHaveRows,
           Searchable, rowVars
  <1>4. OneBuildPerProfile' /\ SharedManifest' /\ SearchesServed'
    BY <1>0, SameBuilds, SameSearches DEF AnnInv, rowVars
  <1> QED BY <1>1, <1>3, <1>4 DEF AnnInv

LEMMA UpgradeKeeps ==
  ASSUME AnnInv, Upgrade
  PROVE  AnnInv'
  <1>0. /\ UNCHANGED <<rowVars, binding, receipts, indexes, server, build, search, instances>>
        /\ guarded' = TRUE
    BY DEF Upgrade
  <1>1. Typed'
    BY <1>0 DEF AnnInv, Typed, AnnTypeOK, rowVars
  <1>2. \A q : Live(q)' = Live(q) /\ Boundary(q)' = Boundary(q)
    BY <1>0 DEF Live, Boundary
  <1>3. BindingIsBacked' /\ GraphsOnRecord' /\ ReceiptsOnce' /\ ImportsHaveRows'
    BY <1>0, <1>1, <1>2
       DEF AnnInv, Typed, BindingIsBacked, GraphsOnRecord, ReceiptsOnce, ImportsHaveRows,
           Searchable, rowVars
  <1>4. OneBuildPerProfile' /\ SharedManifest' /\ SearchesServed'
    BY <1>0, SameBuilds, SameSearches DEF AnnInv, rowVars
  <1> QED BY <1>1, <1>3, <1>4 DEF AnnInv

(* An operator adds no graph to those the code made. *)
LEMMA OperateKeeps ==
  ASSUME AnnInv, Administer
  PROVE  AnnInv'
  <1>0. /\ UNCHANGED <<rowVars, binding, guarded, receipts, build, search, instances>>
        /\ server' \in {server, server + 1}
        /\ indexes' \subseteq indexes \cup {Foreign(p) : p \in Profile}
    BY DEF Administer
  <1>1. Typed'
    BY <1>0 DEF AnnInv, Typed, AnnTypeOK, rowVars
  <1>2. \A q \in Profile : /\ Live(q)' = Live(q)
                           /\ Boundary(q)' \ {Foreign(q)} \subseteq Boundary(q) \ {Foreign(q)}
    BY <1>0 DEF Live, Boundary, Foreign
  <1>3. BindingIsBacked' /\ GraphsOnRecord' /\ ReceiptsOnce' /\ ImportsHaveRows'
    BY <1>0, <1>1, <1>2
       DEF AnnInv, Typed, BindingIsBacked, GraphsOnRecord, ReceiptsOnce, ImportsHaveRows,
           Searchable, rowVars
  <1>4. OneBuildPerProfile' /\ SharedManifest' /\ SearchesServed'
    BY <1>0, SameBuilds, SameSearches DEF AnnInv, rowVars
  <1> QED BY <1>1, <1>3, <1>4 DEF AnnInv

-----------------------------------------------------------------------------
(* Builds that write *)

(* A build that is not refused writes about its own profile, and about the  *)
(* rows of the moment.                                                      *)
LEMMA Resolves ==
  ASSUME AnnInv, NEW b \in Builder, build[b].pc = "share", ~Refused(b)
  PROVE  /\ build[b] # AtRest /\ build[b].snapshot \in Snapshot /\ build[b].profile \in Profile
         /\ Resolved(b) \in Params
         /\ Resolved(b).profile = build[b].profile
         /\ Resolved(b).manifest = embedded[build[b].profile]
         /\ ~Unbound(b) => Resolved(b) = binding[build[b].profile]
  <1> DEFINE p == build[b].profile
             own == [profile |-> p, manifest |-> build[b].manifest, instance |-> instances[p] + 1,
                     spec |-> SpecOf[b], server |-> build[b].server]
  <1>0. /\ build[b] # AtRest /\ build[b].snapshot \in Snapshot /\ p \in Profile
        /\ build[b].server \in Nat /\ build[b].manifest \in SUBSET Chunk
        /\ build[b].manifest = embedded[p]
    BY BuildRows DEF AnnInv, Typed, SharedManifest
  <1>1. CASE ~Unbound(b)
    <2>1. Resolved(b) = binding[p] /\ binding[p] # None
      BY <1>1 DEF Refused, Unbound
    <2>2. binding[p] \in Params /\ binding[p].profile = p /\ binding[p].manifest = embedded[p]
      BY <1>0, <2>1 DEF AnnInv, Typed, BindingIsBacked
    <2> QED BY <1>0, <2>1, <2>2
  <1>2. CASE Unbound(b) /\ Adoptable(b) # {}
    <2>1. Resolved(b) = CHOOSE par \in Adoptable(b) : TRUE
      BY <1>2 DEF Resolved
    <2>2. Resolved(b) \in Adoptable(b)
      BY <1>2, <2>1
    <2>3. PICK r \in Live(p) : Resolved(b) = r.params
      BY <2>2 DEF Adoptable
    <2>4. r.params \in Params /\ r.params.profile = p
      BY DEF AnnInv, Typed, AnnTypeOK, Live
    <2> QED BY <1>0, <1>2, <2>2, <2>3, <2>4 DEF Adoptable
  <1>3. CASE Unbound(b) /\ Adoptable(b) = {}
    <2>1. Resolved(b) = own
      BY <1>3 DEF Resolved
    <2>2. instances[p] \in 0..MaxInstances /\ instances[p] < MaxInstances /\ MaxInstances \in Nat
      BY <1>0, AnnBounds DEF AnnInv, Typed, OneBuildPerProfile
    <2>3. instances[p] + 1 \in 1..MaxInstances /\ SpecOf[b] \in HnswSpec
      BY <2>2, BuildersHaveSpecs
    <2>4. own \in Params
      BY <1>0, <2>3 DEF Params
    <2> QED BY <1>0, <1>3, <2>1, <2>4
  <1> QED BY <1>1, <1>2, <1>3

(* What is left of the receipts: the new one, those the build leaves in     *)
(* force, and those it archives.                                            *)
LEMMA ReceiptsWritten ==
  ASSUME AnnInv, NEW b \in Builder, build[b].pc = "share", ~Refused(b), BuildDone(b)
  PROVE  LET p == build[b].profile
             par == Resolved(b)
             Retires(r) == Unbound(b) /\ r \in Live(p) /\ r.params # par
         IN  /\ Receipt(build[b].snapshot, par) \in receipts'
             /\ \A r \in receipts : ~Retires(r) => r \in receipts'
             /\ \A t \in receipts' :
                  \/ t = Receipt(build[b].snapshot, par)
                  \/ t \in receipts /\ ~Retires(t)
                  \/ \E r \in receipts : Retires(r) /\ t = [r EXCEPT !.status = "archived"]
  <1>1. receipts' = Retired(b) \cup {Receipt(build[b].snapshot, Resolved(b))}
    BY DEF BuildDone
  <1> QED BY <1>1 DEF Retired

LEMMA BuildDoneKeeps ==
  ASSUME AnnInv, NEW b \in Builder, BuildDone(b)
  PROVE  AnnInv'
  <1> DEFINE s == build[b].snapshot
             p == build[b].profile
             par == Resolved(b)
             Retires(r) == Unbound(b) /\ r \in Live(p) /\ r.params # par
  <1>0. /\ build[b].pc = "share" /\ ~Refused(b)
        /\ indexes' = (indexes \ Dropped(b)) \cup {par}
        /\ binding' = [binding EXCEPT ![p] = par]
        /\ instances' = [instances EXCEPT ![par.profile] =
                           IF par.instance > @ THEN par.instance ELSE @]
        /\ build' = [build EXCEPT ![b] = AtRest]
        /\ UNCHANGED <<rowVars, guarded, server, search>>
    BY DEF BuildDone, Reindexed, Bound
  <1>1. /\ build[b] # AtRest /\ s \in Snapshot /\ p \in Profile
        /\ par \in Params /\ par.profile = p /\ par.manifest = embedded[p]
        /\ ~Unbound(b) => par = binding[p]
    BY <1>0, Resolves
  <1>2. /\ Receipt(s, par) \in receipts'
        /\ \A r \in receipts : ~Retires(r) => r \in receipts'
        /\ \A t \in receipts' : \/ t = Receipt(s, par)
                                \/ t \in receipts /\ ~Retires(t)
                                \/ \E r \in receipts : Retires(r) /\ t = [r EXCEPT !.status = "archived"]
    BY <1>0, ReceiptsWritten
  <1>3. receipts \subseteq [snapshot: Snapshot, params: Params, status: {"validated", "archived"}]
    BY DEF AnnInv, Typed, AnnTypeOK
  <1>4. /\ Receipt(s, par).snapshot = s /\ Receipt(s, par).params = par
        /\ Receipt(s, par).status = "validated"
        /\ Receipt(s, par) \in [snapshot: Snapshot, params: Params, status: {"validated", "archived"}]
    BY <1>1 DEF Receipt
  <1>5. guarded /\ [Receipt(s, par) EXCEPT !.status = "archived"] \notin receipts
        /\ Boundary(p) \ (Dropped(b) \cup {par}) = {}
    BY <1>0 DEF Refused
  <1>6. ASSUME NEW r \in receipts
        PROVE  LET t == [r EXCEPT !.status = "archived"] IN
               /\ t \in [snapshot: Snapshot, params: Params, status: {"validated", "archived"}]
               /\ t.snapshot = r.snapshot /\ t.params = r.params /\ t.status = "archived"
    BY <1>3
  <1> HIDE DEF s, p, par
  <1>7. receipts' \subseteq [snapshot: Snapshot, params: Params, status: {"validated", "archived"}]
    BY <1>2, <1>3, <1>4, <1>6
  <1>8. ASSUME NEW q \in Profile
        PROVE  /\ Live(q)' = {t \in receipts' : t.params.profile = q /\ t.status = "validated"}
               /\ Live(q) = {t \in receipts : t.params.profile = q /\ t.status = "validated"}
               /\ Boundary(q)' = {i \in indexes' : i.profile = q}
               /\ Boundary(q) = {i \in indexes : i.profile = q}
    BY DEF Live, Boundary
  <1>9. ASSUME NEW q \in Profile, q = p PROVE {r.params : r \in Live(q)'} = {par}
    <2>1. ASSUME NEW t \in receipts', t.params.profile = p, t.status = "validated"
          PROVE  t.params = par
      <3>1. CASE t \in receipts /\ ~Retires(t)
        <4>1. t \in Live(p)
          BY <2>1, <3>1 DEF Live
        <4>2. CASE Unbound(b)
          BY <3>1, <4>1, <4>2
        <4>3. CASE ~Unbound(b)
          <5>1. binding[p] # None /\ {r.params : r \in Live(p)} = {binding[p]}
            BY <1>1, <4>3 DEF Unbound, AnnInv, BindingIsBacked, p
          <5> QED BY <1>1, <4>1, <4>3, <5>1
        <4> QED BY <4>2, <4>3
      <3> QED BY <1>2, <1>4, <1>6, <2>1, <3>1
    <2>2. Receipt(s, par) \in Live(q)'
      BY <1>1, <1>2, <1>4, <1>8, <1>9
    <2> QED BY <1>4, <1>8, <1>9, <2>1, <2>2
  <1>10. ASSUME NEW q \in Profile, q # p PROVE Live(q)' = Live(q) /\ Boundary(q)' = Boundary(q)
    <2>1. \A r \in Live(q) : ~Retires(r)
      BY <1>1, <1>8, <1>10
    <2>2. Live(q)' = Live(q)
      <3>1. \A r \in Live(q) : r \in Live(q)'
        BY <1>2, <1>8, <2>1
      <3>2. ASSUME NEW t \in receipts', t.params.profile = q, t.status = "validated"
            PROVE  t \in receipts
        BY <1>1, <1>2, <1>4, <1>6, <1>10, <3>2
      <3> QED BY <1>8, <3>1, <3>2
    <2>3. \A i \in Dropped(b) : i.profile = p
      BY DEF Dropped, Boundary, p
    <2> QED BY <1>0, <1>1, <1>8, <1>10, <2>2, <2>3
  <1>11. indexes' \subseteq indexes \cup {par} /\ binding' \in [Profile -> Params \cup {None}]
         /\ binding'[p] = par /\ \A q \in Profile : q # p => binding'[q] = binding[q]
    BY <1>0, <1>1 DEF AnnInv, Typed
  <1>12. Typed'
    <2>1. AnnTypeOK'
      BY <1>0, <1>1, <1>7, <1>11 DEF AnnInv, Typed, AnnTypeOK, rowVars
    <2>2. instances' \in [Profile -> 0..MaxInstances]
      <3>1. par.instance \in 1..MaxInstances /\ MaxInstances \in Nat
        BY <1>1, AnnBounds DEF Params
      <3> QED BY <1>0, <1>1, <3>1 DEF AnnInv, Typed
    <2>3. build' \in [Builder -> BuildRow]
      BY <1>0 DEF AnnInv, Typed, BuildRow
    <2> QED BY <1>0, <1>11, <2>1, <2>2, <2>3 DEF AnnInv, Typed
  <1>13. OneBuildPerProfile' /\ SharedManifest'
    <2>1. build'[b] = AtRest /\ AtRest.pc = "idle" /\ \A c \in Builder \ {b} : build'[c] = build[c]
      BY <1>0 DEF AnnInv, Typed, AtRest
    <2>2. \A c \in Builder \ {b} : build[c] # AtRest =>
            build[c].profile # p /\ instances'[build[c].profile] = instances[build[c].profile]
      <3>1. \A c \in Builder : build[c] # AtRest => build[c].profile \in Profile
        BY BuildRows DEF AnnInv, Typed
      <3>2. \A c \in Builder \ {b} : build[c] # AtRest => build[c].profile # p
        BY <1>1 DEF AnnInv, OneBuildPerProfile, p
      <3> QED BY <1>0, <1>1, <3>1, <3>2 DEF AnnInv, Typed
    <2>3. OneBuildPerProfile'
      BY <2>1, <2>2 DEF AnnInv, OneBuildPerProfile
    <2>4. SharedManifest'
      BY <1>0, <2>1 DEF AnnInv, SharedManifest, HoldsRows, rowVars
    <2> QED BY <2>3, <2>4
  <1>14. BindingIsBacked'
    <2>1. AnnTypeOK' /\ UNCHANGED <<guarded, embedded>>
      BY <1>0, <1>12 DEF Typed, rowVars
    <2> SUFFICES ASSUME NEW q \in Profile, binding'[q] # None
                 PROVE  /\ guarded /\ binding'[q].profile = q /\ binding'[q].manifest = embedded[q]
                        /\ {r.params : r \in Live(q)'} = {binding'[q]}
      BY <2>1 DEF BindingIsBacked
    <2>2. CASE q = p
      BY <1>1, <1>5, <1>9, <1>11, <2>2
    <2>3. CASE q # p
      BY <1>10, <1>11, <2>3 DEF AnnInv, BindingIsBacked
    <2> QED BY <2>2, <2>3
  <1>15. GraphsOnRecord'
    <2> SUFFICES ASSUME NEW q \in Profile, NEW i \in Boundary(q)' \ {Foreign(q)}
                 PROVE  /\ i \in {r.params : r \in Live(q)'}
                        /\ \A j \in Boundary(q)' \ {Foreign(q)} : j = i
      BY DEF GraphsOnRecord, Foreign
    <2>1. CASE q = p
      <3>1. \A j \in Boundary(q)' : j = par
        BY <1>0, <1>5, <1>8, <2>1
      <3> QED BY <1>9, <2>1, <3>1
    <2>2. CASE q # p
      BY <1>10, <2>2 DEF AnnInv, GraphsOnRecord
    <2> QED BY <2>1, <2>2
  <1>16. ReceiptsOnce'
    <2> SUFFICES ASSUME NEW t \in receipts', NEW u \in receipts',
                        t.snapshot = u.snapshot, t.params = u.params,
                        t.status = "validated", u.status # "validated"
                 PROVE  FALSE
      BY <1>7 DEF ReceiptsOnce
    <2>1. CASE u \in receipts /\ ~Retires(u)
      <3>1. CASE t = Receipt(s, par)
        <4>1. u = [Receipt(s, par) EXCEPT !.status = "archived"]
          BY <1>3, <1>4, <2>1, <3>1
        <4> QED BY <1>5, <2>1, <4>1
      <3>2. CASE t \in receipts
        BY <2>1, <3>2 DEF AnnInv, ReceiptsOnce
      <3> QED BY <1>2, <1>6, <3>1, <3>2
    <2>2. ASSUME NEW r \in receipts, Retires(r), u = [r EXCEPT !.status = "archived"]
          PROVE  FALSE
      <3>1. r.snapshot = t.snapshot /\ r.params = t.params /\ r.status = "validated"
        BY <1>6, <2>2 DEF Live
      <3>2. t # Receipt(s, par)
        BY <1>4, <2>2, <3>1
      <3>3. t \in receipts /\ ~Retires(t)
        BY <1>2, <1>6, <3>2
      <3>4. t \in Live(p)
        BY <2>2, <3>1, <3>3 DEF Live
      <3> QED BY <2>2, <3>1, <3>3, <3>4
    <2> QED BY <1>2, <1>4, <2>1, <2>2
  <1>17. ImportsHaveRows' /\ SearchesServed'
    BY <1>0, SameSearches DEF AnnInv, ImportsHaveRows, Searchable, rowVars
  <1> QED BY <1>12, <1>13, <1>14, <1>15, <1>16, <1>17 DEF AnnInv

-----------------------------------------------------------------------------
LEMMA AnnInvIsInductive ==
  /\ AnnInit => AnnInv
  /\ AnnInv /\ [AnnNext]_annVars => AnnInv'
  <1>1. ASSUME AnnInit PROVE AnnInv
    <2>1. Typed
      BY <1>1, AnnBounds DEF AnnInit, Typed, AnnTypeOK, BuildRow, SearchRow
    <2>2. \A q : Live(q) = {} /\ Boundary(q) = {}
      BY <1>1 DEF AnnInit, Live, Boundary
    <2>3. OneBuildPerProfile /\ SharedManifest /\ ImportsHaveRows /\ ReceiptsOnce /\ SearchesServed
      BY <1>1 DEF AnnInit, OneBuildPerProfile, SharedManifest, ImportsHaveRows, ReceiptsOnce,
                  SearchesServed, Searchable, AtRest
    <2>4. BindingIsBacked /\ GraphsOnRecord
      BY <1>1, <2>1, <2>2 DEF AnnInit, Typed, BindingIsBacked, GraphsOnRecord
    <2> QED BY <2>1, <2>3, <2>4 DEF AnnInv
  <1>2. ASSUME AnnInv, UNCHANGED annVars PROVE AnnInv'
    <2>1. UNCHANGED <<rowVars, annRows, server, build, search, instances, imported>>
      BY <1>2 DEF annVars, rowVars
    <2>2. Typed'
      BY <1>2, <2>1 DEF AnnInv, Typed, AnnTypeOK, rowVars, annRows
    <2>3. OneBuildPerProfile' /\ SharedManifest' /\ SearchesServed'
      BY <1>2, <2>1, SameBuilds, SameSearches DEF AnnInv
    <2> QED BY <1>2, <2>1, <2>2, <2>3, SameTables DEF AnnInv
  <1>3. ASSUME AnnInv, AnnNext PROVE AnnInv'
    BY <1>3, ImportBeginKeeps, ImportCommitKeeps, ImportFailKeeps, BuildBeginKeeps,
       BuildShareKeeps, BuildDoneKeeps, BuildFailKeeps, SearchesKeep, DowngradeKeeps,
       UpgradeKeeps, OperateKeeps DEF AnnNext
  <1> QED BY <1>1, <1>2, <1>3

(* Builders exclude each other on a profile, what is on record was built,   *)
(* and a search holds what its snapshot has (ann.ensure_index, adopt and    *)
(* retire, the guards of migration 0004, VectorRetriever.retrieve).         *)
THEOREM AnnInvariance == AnnSpec => []AnnInv
  BY AnnInvIsInductive, PTL DEF AnnSpec

(* Bindings, receipts and physical graphs account for each other, whatever  *)
(* importers, builders, upgrades and operators do (ann.ensure_index,        *)
(* _retire_stale_boundary_indexes, the triggers of migration 0004).         *)
THEOREM GraphsStayAccounted == AnnSpec => []GraphsAreAccounted
  <1>1. ASSUME AnnInv PROVE GraphsAreAccounted
    <2>1. ASSUME NEW p \in Profile
          PROVE  /\ Cardinality(Boundary(p) \ {Foreign(p)}) <= 1
                 /\ Boundary(p) \ {Foreign(p)} \subseteq {r.params : r \in Live(p)}
      <3> DEFINE graphs == Boundary(p) \ {Foreign(p)}
      <3>1. graphs \subseteq {r.params : r \in Live(p)}
        BY <1>1 DEF AnnInv, GraphsOnRecord
      <3>2. CASE graphs = {}
        BY <3>1, <3>2, FS_EmptySet
      <3>3. ASSUME NEW i \in graphs PROVE Cardinality(graphs) <= 1
        <4>1. graphs = {i}
          BY <1>1, <3>3 DEF AnnInv, GraphsOnRecord
        <4>2. Cardinality({i}) = 1
          BY FS_Singleton, Zenon
        <4> QED BY <4>1, <4>2
      <3> QED BY <3>1, <3>2, <3>3
    <2> QED BY <1>1, <2>1 DEF AnnInv, GraphsAreAccounted, OneGraphPerBoundary
  <1> QED BY <1>1, AnnInvariance, PTL

(* An answer holds all that was asked for or all there is, whichever path   *)
(* it took, also while later imports add rows (VectorRetriever.retrieve,    *)
(* the exact fallback of an underfilled scan).                              *)
THEOREM AnswersStayComplete == AnnSpec => []AnswersAreComplete
  <1>1. ASSUME AnnInv PROVE AnswersAreComplete
    <2> SUFFICES ASSUME NEW q \in Searcher, search[q].pc \notin {"idle", "underfilled"}
                 PROVE  \/ search[q].results = TopK
                        \/ search[q].results =
                             Cardinality(Eligible(search[q].snapshot, search[q].profile))
      BY DEF AnswersAreComplete
    <2>1. search[q] # AtRest
      BY DEF AtRest
    <2>2. search[q].snapshot \in Snapshot /\ search[q].profile \in Profile
      BY <1>1, <2>1 DEF AnnInv, Typed, SearchRow
    <2> QED BY <1>1, <2>1, <2>2, WholeSnapshotEligible DEF AnnInv, SearchesServed
  <1> QED BY <1>1, AnnInvariance, PTL

(* A search answered from an index scans the graph its handle names, which  *)
(* is bound to the rows of the moment and covers the whole snapshot         *)
(* (retrieval._validated_build).                                            *)
THEOREM IndexesServeTheGeneration == AnnSpec => ServesTheGeneration
  <1> DEFINE Served ==
        \A q \in Searcher, r \in receipts : SearchAnn(q, r) =>
          /\ r.status = "validated"
          /\ Boundary(r.params.profile) = {r.params}
          /\ r.params.manifest = embedded[r.params.profile]
          /\ ChunksOf[r.snapshot] \subseteq r.params.manifest
          /\ r.params.server = server
  <1>1. ASSUME AnnInv PROVE Served
    <2> SUFFICES ASSUME NEW q \in Searcher, NEW r \in receipts, SearchAnn(q, r)
                 PROVE  /\ r.status = "validated"
                        /\ Boundary(r.params.profile) = {r.params}
                        /\ r.params.manifest = embedded[r.params.profile]
                        /\ ChunksOf[r.snapshot] \subseteq r.params.manifest
                        /\ r.params.server = server
      OBVIOUS
    <2>1. /\ r.snapshot \in Snapshot /\ r.params \in Params /\ r.params.profile \in Profile
      BY <1>1 DEF AnnInv, Typed, AnnTypeOK, Params
    <2>2. /\ Searchable(r.snapshot, r.params.profile)
          /\ binding[r.params.profile] = r.params /\ r.params.server = server
          /\ Receipt(r.snapshot, r.params) \in receipts
          /\ Boundary(r.params.profile) = {r.params}
      BY DEF SearchAnn, ValidatedBuild
    <2>3. r.status = "validated"
      BY <1>1, <2>2 DEF AnnInv, ReceiptsOnce, Receipt
    <2>4. ChunksOf[r.snapshot] \subseteq embedded[r.params.profile]
      BY <1>1, <2>1, <2>2 DEF AnnInv, ImportsHaveRows
    <2>5. r.params.manifest = embedded[r.params.profile]
      <3>1. Receipt(r.snapshot, r.params) \in Live(r.params.profile)
        BY <2>2 DEF Live, Receipt
      <3> QED BY <1>1, <2>1, <2>2, NullIsNoIndex DEF AnnInv, BindingIsBacked
    <2> QED BY <2>2, <2>3, <2>4, <2>5
  <1>2. AnnInv /\ [AnnNext]_annVars => [Served]_annVars
    BY <1>1
  <1> QED BY <1>2, AnnInvariance, PTL DEF AnnSpec, ServesTheGeneration
================================================================================
