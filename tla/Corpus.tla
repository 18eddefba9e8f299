------------------------------- MODULE Corpus -------------------------------
(***************************************************************************)
(* The tables behind the snapshot catalog and the operators that fill them *)
(* (storage/contracts.py, import_workflow.py, repository.py).              *)
(*                                                                         *)
(* A bundle is what the local artifacts of one import form: law versions,  *)
(* articles, chunks with their ordered articles, the members of a snapshot *)
(* in order, and one vector per chunk for one embedding profile.  It is    *)
(* named by its hash.  A row is its content, so a stored hash that agrees  *)
(* is a row that agrees.  A profile identifier is the hash of the profile, *)
(* so two profiles never disagree about one.                               *)
(*                                                                         *)
(* import_bundle is one transaction under an advisory lock, one step here: *)
(* it commits everything or, when it raises, nothing.  An operator writes  *)
(* a plan of the artifacts found, and applies it: the artifacts are read   *)
(* and compared with the plan again, imported, and read back.  He may die  *)
(* between two of these, and the artifacts may change at any time.         *)
(***************************************************************************)
EXTENDS Catalog, FiniteSets, TLC, SequencesExt

CONSTANTS
  Bundle,     (* What local artifacts may form, acceptable or not.         *)
  Content,    (* Content[b]: the bundle with the hash b.                   *)
  Importer    (* Whoever plans and applies imports.                        *)

ASSUME HashesIdentify == None \notin Bundle /\ IsInjective(Content)
ASSUME BundlesAreBuilt ==
  \A b \in Bundle : /\ Content[b].snapshot_id \in Snapshot /\ Content[b].profile_id \in Profile
                    /\ ToSet(Content[b].members) # {}

VARIABLES
  tables,     (* The tables of the corpus, each a function of its keys.    *)
  plan,       (* plan[i]: the bundle of the plan i wrote.                  *)
  applied     (* applied[i]: how far the apply of i has come.              *)

corpusVars == <<catalogVars, tables, plan, applied>>

Idle == [stage |-> "idle", bundle |-> None]

NoRows == [k \in {} |-> None]

CorpusInit ==
  /\ CatalogInit
  /\ tables = [law_versions |-> NoRows, law_articles |-> NoRows, chunks |-> NoRows,
               chunk_articles |-> NoRows, corpus_snapshots |-> NoRows,
               snapshot_chunks |-> NoRows, embedding_profiles |-> {},
               chunk_embeddings |-> NoRows, embedding_imports |-> NoRows]
  /\ plan = [i \in Importer |-> None]
  /\ applied = [i \in Importer |-> Idle]

-----------------------------------------------------------------------------
(* Bundles *)

HalfOpen(law) == None \notin {law.valid_from, law.valid_to} => law.valid_from < law.valid_to

(* One article of a version for each number. *)
NumbersAreUnique(articles) ==
  \A a, c \in DOMAIN articles :
    articles[a].version_id = articles[c].version_id
      /\ articles[a].article_number = articles[c].article_number => a = c

(* validate_storage_import_bundle, over the relations its hashes protect. *)
Valid(b) ==
  /\ \A v \in DOMAIN b.law_versions : HalfOpen(b.law_versions[v])
  /\ \A a \in DOMAIN b.articles :
       /\ b.articles[a].version_id \in DOMAIN b.law_versions
       /\ b.articles[a].law_id = b.law_versions[b.articles[a].version_id].law_id
  /\ NumbersAreUnique(b.articles)
  /\ \A c \in DOMAIN b.chunks :
       /\ b.chunks[c].article_ids # <<>>
       /\ IsInjective(b.chunks[c].article_ids)
       /\ ToSet(b.chunks[c].article_ids) \subseteq DOMAIN b.articles
  /\ IsInjective(b.members) /\ ToSet(b.members) = DOMAIN b.chunks
  /\ DOMAIN b.embeddings = DOMAIN b.chunks

ValidBundles == {b \in Bundle : Valid(Content[b])}

SnapshotOf(b) == Content[b].snapshot_id

ProfileOf(b) == Content[b].profile_id

(* The hash of a law version covers the articles of the bundle under it. *)
LawRow(b, v) ==
  [law |-> b.law_versions[v],
   articles |-> {<<a, b.articles[a]>> : a \in {x \in DOMAIN b.articles :
                                                 b.articles[x].version_id = v}}]

LawRows == [b \in Bundle |-> [v \in DOMAIN Content[b].law_versions |-> LawRow(Content[b], v)]]

ArticleRows == [b \in Bundle |-> Content[b].articles]

ChunkRows == [b \in Bundle |-> Content[b].chunks]

(* The ordered articles of a chunk are those its metadata names. *)
RelationRows ==
  [b \in Bundle |-> [c \in DOMAIN ChunkRows[b] |-> ChunkRows[b][c].article_ids]]

EmbeddingRows ==
  [b \in Bundle |-> [k \in (DOMAIN ChunkRows[b]) \X {ProfileOf(b)} |-> Content[b].embeddings[k[1]]]]

(* corpus_hash covers everything but the profile and the embeddings: it is *)
(* the same for the bundles that agree on the rest.                        *)
CorpusHash ==
  [b \in Bundle |->
     {c \in Bundle : /\ SnapshotOf(c) = SnapshotOf(b) /\ Content[c].members = Content[b].members
                     /\ LawRows[c] = LawRows[b] /\ ChunkRows[c] = ChunkRows[b]}]

-----------------------------------------------------------------------------
(* Rows are written once *)

(* No stored row of the bundle has other content. *)
Agree(table, rows) == \A k \in DOMAIN table \cap DOMAIN rows : table[k] = rows[k]

Stored(table, rows) == DOMAIN rows \subseteq DOMAIN table /\ Agree(table, rows)

(* _ensure_hashed_row: insert what is missing, keep what is there. *)
EnsureRows(table, rows) ==
  [k \in DOMAIN table \cup DOMAIN rows |-> IF k \in DOMAIN table THEN table[k] ELSE rows[k]]

(* One row under one key. *)
Row(key, value) == [k \in {key} |-> value]

(* Mutant: only rows about to be inserted are compared. *)
CorpusAgrees_ChunksOnly(b) == Agree(tables.chunks, ChunkRows[b])

(* _ensure_corpus_rows raises nothing. *)
CorpusAgrees(b) ==
  /\ Agree(tables.law_versions, LawRows[b])
  /\ Agree(tables.law_articles, ArticleRows[b])
  /\ Agree(tables.chunks, ChunkRows[b])
  /\ Agree(tables.chunk_articles, RelationRows[b])

(* _verify_existing_corpus: nothing is missing, and the members are these. *)
CorpusStored(b) ==
  /\ Stored(tables.law_versions, LawRows[b])
  /\ Stored(tables.law_articles, ArticleRows[b])
  /\ Stored(tables.chunks, ChunkRows[b])
  /\ Stored(tables.chunk_articles, RelationRows[b])
  /\ tables.snapshot_chunks[SnapshotOf(b)] = Content[b].members

(* _verify_embedding_batch *)
EmbeddingsStored(b) ==
  /\ ProfileOf(b) \in tables.embedding_profiles
  /\ Stored(tables.chunk_embeddings, EmbeddingRows[b])

ImportKey(b) == <<SnapshotOf(b), ProfileOf(b)>>

SnapshotExists(b) == SnapshotOf(b) \in DOMAIN tables.corpus_snapshots

ImportExists(b) == ImportKey(b) \in DOMAIN tables.embedding_imports

(* Mutant: a snapshot is served while it is active. *)
Serviceable_Active(s) == snapshots[s] = "active"

Serviceable(s) == snapshots[s] \in {"validated", "active"}

(* The snapshot that exists is the one of the bundle, and complete. *)
SnapshotMatches(b) ==
  /\ tables.corpus_snapshots[SnapshotOf(b)] = CorpusHash[b]
  /\ Serviceable(SnapshotOf(b))
  /\ CorpusStored(b)

(* import_bundle raises no ImportConflictError. *)
ImportAccepts(b) ==
  /\ b \in ValidBundles
  /\ IF SnapshotExists(b) THEN SnapshotMatches(b) ELSE CorpusAgrees(b)
  /\ IF ImportExists(b)
     THEN tables.embedding_imports[ImportKey(b)] = b /\ EmbeddingsStored(b)
     ELSE Agree(tables.chunk_embeddings, EmbeddingRows[b])

(* What it writes for a snapshot and an import that are not there yet. *)
WithSnapshot(t, b) ==
  [t EXCEPT !.law_versions = EnsureRows(@, LawRows[b]),
            !.law_articles = EnsureRows(@, ArticleRows[b]),
            !.chunks = EnsureRows(@, ChunkRows[b]),
            !.chunk_articles = EnsureRows(@, RelationRows[b]),
            !.corpus_snapshots = EnsureRows(@, Row(SnapshotOf(b), CorpusHash[b])),
            !.snapshot_chunks = EnsureRows(@, Row(SnapshotOf(b), Content[b].members))]

WithImport(t, b) ==
  [t EXCEPT !.embedding_profiles = @ \cup {ProfileOf(b)},
            !.chunk_embeddings = EnsureRows(@, EmbeddingRows[b]),
            !.embedding_imports = EnsureRows(@, Row(ImportKey(b), b))]

(* import_bundle: an import that exists already is verified, not written. *)
ImportBundle(b) ==
  /\ ImportAccepts(b)
  /\ IF ImportExists(b)
     THEN UNCHANGED <<catalogVars, tables>>
     ELSE /\ Import(SnapshotOf(b), ProfileOf(b))
          /\ tables' = WithImport(IF SnapshotExists(b) THEN tables
                                  ELSE WithSnapshot(tables, b), b)

(* validate_bundle: the import is read back without a write. *)
ReadsBack(b) ==
  /\ b \in ValidBundles
  /\ SnapshotExists(b) /\ SnapshotMatches(b)
  /\ ImportExists(b) /\ tables.embedding_imports[ImportKey(b)] = b
  /\ EmbeddingsStored(b)

-----------------------------------------------------------------------------
(* Plans and their application *)

ApplyStage(i, stage, b) == applied' = [applied EXCEPT ![i] = [stage |-> stage, bundle |-> b]]

(* build_import_plan and write_machine_artifact, which overwrites nothing. *)
WritePlan(i, found) ==
  /\ plan[i] = None
  /\ found \in ValidBundles
  /\ plan' = [plan EXCEPT ![i] = found]
  /\ UNCHANGED <<catalogVars, tables, applied>>

(* Mutant: the artifacts are not compared with the plan. *)
Revalidate_Anything(i, found) ==
  /\ applied[i] = Idle
  /\ plan[i] # None
  /\ found \in ValidBundles
  /\ ApplyStage(i, "prepared", found)
  /\ UNCHANGED <<catalogVars, tables, plan>>

(* validate_import_plan, over what the artifacts form by now. *)
Revalidate(i, found) ==
  /\ applied[i] = Idle
  /\ plan[i] = found
  /\ found \in ValidBundles
  /\ ApplyStage(i, "prepared", found)
  /\ UNCHANGED <<catalogVars, tables, plan>>

(* The import of apply_prepared_import, or its refusal. *)
ApplyImport(i) ==
  LET b == applied[i].bundle IN
  /\ applied[i].stage = "prepared"
  /\ \/ ImportBundle(b) /\ ApplyStage(i, "imported", b)
     \/ ~ImportAccepts(b) /\ ApplyStage(i, "refused", b) /\ UNCHANGED <<catalogVars, tables>>
  /\ UNCHANGED plan

(* The read back of apply_prepared_import, and its receipt. *)
ApplyReadBack(i) ==
  /\ applied[i].stage = "imported"
  /\ ApplyStage(i, IF ReadsBack(applied[i].bundle) THEN "receipt" ELSE "refused", None)
  /\ UNCHANGED <<catalogVars, tables, plan>>

(* The process ends, of itself or not; the next one may apply the plan     *)
(* again, or the operator turns to another plan.                           *)
EndApply(i) ==
  /\ plan[i] # None
  /\ applied' = [applied EXCEPT ![i] = Idle]
  /\ plan' \in {plan, [plan EXCEPT ![i] = None]}
  /\ UNCHANGED <<catalogVars, tables>>

MovePointer(o) ==
  /\ \/ ReadPointer(o)
     \/ \E s \in Snapshot, p \in Profile : Rollback(seen[o], s, p, o)
     \/ \E s \in Snapshot, p \in Profile \cup {None} : Activate(seen[o], s, p, o)
  /\ UNCHANGED <<tables, plan, applied>>

CorpusNext ==
  \/ \E i \in Importer, b \in Bundle : WritePlan(i, b) \/ Revalidate(i, b)
  \/ \E i \in Importer : ApplyImport(i) \/ ApplyReadBack(i) \/ EndApply(i)
  \/ \E o \in Reader : MovePointer(o)

CorpusSpec == CorpusInit /\ [][CorpusNext]_corpusVars

-----------------------------------------------------------------------------
(* Properties *)

(* Every import on record reads back, whatever was imported since: the     *)
(* same apply repeated after a crash is accepted and writes nothing, and   *)
(* a receipt is never refused for an import that was committed.  The       *)
(* catalog knows exactly the imports on record.                            *)
ImportsStayValid ==
  /\ \A k \in DOMAIN tables.embedding_imports :
       \E b \in Bundle : /\ b = tables.embedding_imports[k]
                         /\ ReadsBack(b) /\ ImportAccepts(b)
  /\ \A s \in Snapshot, p \in Profile :
       p \in imports[s] <=> <<s, p>> \in DOMAIN tables.embedding_imports
  /\ \A i \in Importer : applied[i].stage = "imported" =>
       \E b \in Bundle : b = applied[i].bundle /\ ReadsBack(b)

(* Only what somebody planned is ever imported, even when the artifacts    *)
(* change between the plan and its application.                            *)
PlannedIsImported ==
  [][\A k \in DOMAIN tables'.embedding_imports \ DOMAIN tables.embedding_imports :
       \E i \in Importer : plan[i] = tables'.embedding_imports[k]]_corpusVars
=============================================================================
