---------------------------- MODULE StorageGuards ----------------------------
(***************************************************************************)
(* The guards that the database itself puts on the corpus: the keys of     *)
(* migration 0001, the row triggers of 0002 and the activation ledger of   *)
(* 0003, with its upgrade and downgrade.                                   *)
(*                                                                         *)
(* Catalog and Corpus take an import or a move of the pointer as one step. *)
(* Here it is the sequence of its statements, each checked by the guards   *)
(* of its table as it is executed, and the deferred constraints checked at *)
(* the commit.  A guard that refused a statement would turn an accepted    *)
(* operation into a database error.                                        *)
(*                                                                         *)
(* A database is a record of the rows, the status of the snapshots, the    *)
(* pointer and the events of one scope.  One timestamp is used for all the *)
(* rows of a move, so the comparisons of timestamps are left out.          *)
(***************************************************************************)
EXTENDS CorpusReads

Database == [rows |-> tables, status |-> snapshots, pointer |-> pointer, events |-> history]

Inserted(table, rows) == [kind |-> "insert", table |-> table, rows |-> rows]

Marked(s, status) == [kind |-> "status", snapshot |-> s, status |-> status]

Recorded(event) == [kind |-> "event", event |-> event]

Pointed(s, revision) == [kind |-> "pointer", pointer |-> [snapshot |-> s, revision |-> revision]]

(* The rows that an import finds missing. *)
Missing(table, rows) == [k \in DOMAIN rows \ DOMAIN table |-> rows[k]]

-----------------------------------------------------------------------------
(* Guards of a statement *)

(* The statuses of the snapshots that a chunk, or an article of a version, *)
(* belongs to already.                                                     *)
StatusesOfChunk(db, c) ==
  {db.status[s] : s \in {t \in DOMAIN db.rows.snapshot_chunks :
                           c \in ToSet(db.rows.snapshot_chunks[t])}}

StatusesOfVersion(db, v) ==
  UNION {StatusesOfChunk(db, c) : c \in
           {d \in DOMAIN db.rows.chunk_articles :
              \E a \in ToSet(db.rows.chunk_articles[d]) : db.rows.law_articles[a].version_id = v}}

(* law_articles: an article number of a version once, under a version that *)
(* is there, and closed once an article of the version is served.          *)
ArticlesAccepted(db, rows) ==
  /\ NumbersAreUnique(db.rows.law_articles @@ rows)
  /\ \A a \in DOMAIN rows :
       /\ rows[a].version_id \in DOMAIN db.rows.law_versions
       /\ db.rows.law_versions[rows[a].version_id].law.law_id = rows[a].law_id
       /\ StatusesOfVersion(db, rows[a].version_id) \subseteq {"building"}

(* chunk_articles: between rows that are there, each article and each place *)
(* once, and closed once the chunk is served.                              *)
RelationsAccepted(db, rows) ==
  \A c \in DOMAIN rows :
    /\ c \in DOMAIN db.rows.chunks
    /\ ToSet(rows[c]) \subseteq DOMAIN db.rows.law_articles
    /\ IsInjective(rows[c])
    /\ StatusesOfChunk(db, c) \subseteq {"building"}

(* corpus_snapshots begin in building. *)
SnapshotsAccepted(db, rows) ==
  \A s \in DOMAIN rows : db.status[s] = "absent"

(* snapshot_chunks: members are added while the snapshot is built. *)
MembersAccepted(db, rows) ==
  \A s \in DOMAIN rows :
    /\ s \in DOMAIN db.rows.corpus_snapshots
    /\ db.status[s] = "building"
    /\ ToSet(rows[s]) \subseteq DOMAIN db.rows.chunks
    /\ IsInjective(rows[s])

EmbeddingsAccepted(db, rows) ==
  \A k \in DOMAIN rows :
    k[1] \in DOMAIN db.rows.chunks /\ k[2] \in db.rows.embedding_profiles

ImportsAccepted(db, rows) ==
  \A k \in DOMAIN rows :
    k[1] \in DOMAIN db.rows.corpus_snapshots /\ k[2] \in db.rows.embedding_profiles

(* The primary keys. *)
KeysAreFree(db, table, rows) == DOMAIN db.rows[table] \cap DOMAIN rows = {}

InsertAccepted(db, table, rows) ==
  IF table = "embedding_profiles" THEN rows \cap db.rows.embedding_profiles = {}
  ELSE /\ KeysAreFree(db, table, rows)
       /\ table = "law_versions" => \A v \in DOMAIN rows : HalfOpen(rows[v].law)
       /\ table = "law_articles" => ArticlesAccepted(db, rows)
       /\ table = "chunk_articles" => RelationsAccepted(db, rows)
       /\ table = "corpus_snapshots" => SnapshotsAccepted(db, rows)
       /\ table = "snapshot_chunks" => MembersAccepted(db, rows)
       /\ table = "chunk_embeddings" => EmbeddingsAccepted(db, rows)
       /\ table = "embedding_imports" => ImportsAccepted(db, rows)

(* legal_rag_guard_corpus_snapshot_change *)
TransitionAllowed(old, new) ==
  \/ old = "building" /\ new \in {"validated", "failed"}
  \/ old = "validated" /\ new \in {"active", "archived"}
  \/ old = "active" /\ new = "validated"

(* uq_corpus_snapshots_active_scope is checked at once, not at the commit. *)
OneActive(db, s, new) ==
  new = "active" => \A t \in DOMAIN db.status \ {s} : db.status[t] # "active"

(* snapshot_activation_events *)
EventAccepted(db, event) ==
  LET first == db.events = <<>>
  IN /\ first <=> event.previous = None
     /\ first <=> event.operation \in {"initial_activate", "migration_bootstrap"}
     /\ event.target # event.previous
     /\ {event.target, event.previous} \ {None} \subseteq DOMAIN db.rows.corpus_snapshots

(* Only a status and the pointer are ever updated, and nothing is deleted: *)
(* every other statement is refused as a change of an immutable row.       *)
Accepted(db, w) ==
  CASE w.kind = "insert" -> InsertAccepted(db, w.table, w.rows)
    [] w.kind = "status" -> /\ TransitionAllowed(db.status[w.snapshot], w.status)
                            /\ OneActive(db, w.snapshot, w.status)
    [] w.kind = "event" -> EventAccepted(db, w.event)
    [] w.kind = "pointer" -> w.pointer.snapshot \in DOMAIN db.rows.corpus_snapshots
    [] OTHER -> FALSE

Executed(db, w) ==
  CASE w.kind = "insert" /\ w.table = "embedding_profiles" ->
         [db EXCEPT !.rows.embedding_profiles = @ \cup w.rows]
    [] w.kind = "insert" /\ w.table = "corpus_snapshots" ->
         [db EXCEPT !.rows.corpus_snapshots = EnsureRows(@, w.rows),
                    !.status = [s \in DOMAIN w.rows |-> "building"] @@ @]
    [] w.kind = "insert" /\ w.table \notin {"embedding_profiles", "corpus_snapshots"} ->
         [db EXCEPT !.rows[w.table] = EnsureRows(@, w.rows)]
    [] w.kind = "status" -> [db EXCEPT !.status[w.snapshot] = w.status]
    [] w.kind = "event" -> [db EXCEPT !.events = Append(@, w.event)]
    [] w.kind = "pointer" -> [db EXCEPT !.pointer = w.pointer]

(* legal_rag_enforce_snapshot_activation_consistency, deferred. *)
ActivationConsistent(db) ==
  /\ \A s \in DOMAIN db.status : db.status[s] = "active" <=> db.pointer.snapshot = s
  /\ db.pointer.revision = Len(db.events)
  /\ db.events # <<>> => db.events[Len(db.events)].target = db.pointer.snapshot
  /\ \A n \in DOMAIN db.events : n > 1 => db.events[n].previous = db.events[n - 1].target

(* The statements of a transaction, executed until one is refused. *)
Transaction(db, writes) ==
  FoldLeft(LAMBDA t, w : [ok |-> t.ok /\ Accepted(t.db, w),
                          db |-> IF t.ok /\ Accepted(t.db, w) THEN Executed(t.db, w) ELSE t.db],
           [ok |-> TRUE, db |-> db], writes)

Commits(db, writes, result) ==
  \A t \in {Transaction(db, writes)} : t.ok /\ ActivationConsistent(t.db) /\ t.db = result

-----------------------------------------------------------------------------
(* Statements of the operations *)

(* Mutant: the snapshot is marked validated before its members are added. *)
SnapshotWrites_ClosedFirst(t, b) ==
  <<Inserted("law_versions", Missing(t.law_versions, LawRows[b])),
    Inserted("law_articles", Missing(t.law_articles, ArticleRows[b])),
    Inserted("chunks", Missing(t.chunks, ChunkRows[b])),
    Inserted("chunk_articles", Missing(t.chunk_articles, RelationRows[b])),
    Inserted("corpus_snapshots", SnapshotOf(b) :> CorpusHash[b]),
    Marked(SnapshotOf(b), "validated"),
    Inserted("snapshot_chunks", SnapshotOf(b) :> Content[b].members)>>

(* _ensure_corpus_rows, the snapshot and its members. *)
SnapshotWrites(t, b) ==
  <<Inserted("law_versions", Missing(t.law_versions, LawRows[b])),
    Inserted("law_articles", Missing(t.law_articles, ArticleRows[b])),
    Inserted("chunks", Missing(t.chunks, ChunkRows[b])),
    Inserted("chunk_articles", Missing(t.chunk_articles, RelationRows[b])),
    Inserted("corpus_snapshots", SnapshotOf(b) :> CorpusHash[b]),
    Inserted("snapshot_chunks", SnapshotOf(b) :> Content[b].members)>>

(* import_bundle, for an import that is not there yet. *)
ImportWrites(t, b) ==
  LET new == SnapshotOf(b) \notin DOMAIN t.corpus_snapshots
  IN (IF new THEN SnapshotWrites(t, b) ELSE <<>>)
     \o <<Inserted("embedding_profiles", {ProfileOf(b)} \ t.embedding_profiles),
          Inserted("chunk_embeddings", Missing(t.chunk_embeddings, EmbeddingRows[b])),
          Inserted("embedding_imports", ImportKey(b) :> b)>>
     \o (IF new THEN <<Marked(SnapshotOf(b), "validated")>> ELSE <<>>)

(* Mutant: the target is activated before the snapshot it replaces is not. *)
MoveWrites_TargetFirst(db, event) ==
  <<Recorded(event), Marked(event.target, "active")>>
  \o (IF event.previous = None THEN <<>> ELSE <<Marked(event.previous, "validated")>>)
  \o <<Pointed(event.target, db.pointer.revision + 1)>>

(* _change_active_snapshot *)
MoveWrites(db, event) ==
  <<Recorded(event)>>
  \o (IF event.previous = None THEN <<>> ELSE <<Marked(event.previous, "validated")>>)
  \o <<Marked(event.target, "active"), Pointed(event.target, db.pointer.revision + 1)>>

-----------------------------------------------------------------------------
(* Migration 0003 *)

(* downgrade refuses a history that the older schema cannot hold. *)
DowngradeAccepted(db) ==
  \A n \in DOMAIN db.events :
    n = 1 /\ db.events[n].operation \in {"migration_bootstrap", "initial_activate"}

Downgraded(db) == [db EXCEPT !.events = <<>>, !.pointer.revision = 0]

(* What upgrade asserts of the older tables. *)
LegacyConsistent(db) ==
  \A s \in DOMAIN db.status : db.status[s] = "active" <=> db.pointer.snapshot = s

(* upgrade writes the first event of a pointer it finds. *)
Upgraded(db) ==
  IF db.pointer.snapshot = None THEN db
  ELSE [db EXCEPT !.pointer.revision = 1,
                  !.events = <<[operation |-> "migration_bootstrap", previous |-> None,
                                target |-> db.pointer.snapshot, actor |-> None]>>]

-----------------------------------------------------------------------------
(* Property *)

(* What the operations accept the database accepts, statement by statement *)
(* in the order of the code, and the commit leaves exactly what the step   *)
(* of the model says; no import meets a version, a chunk or a snapshot     *)
(* that was closed, and no move meets two active snapshots.  Where 0003    *)
(* can be undone, undoing and redoing it moves no pointer, and the next    *)
(* move is accepted as before.                                             *)
GuardsNeverRefuse ==
  [][/\ \A k \in DOMAIN tables'.embedding_imports \ DOMAIN tables.embedding_imports :
          Commits(Database, ImportWrites(tables, tables'.embedding_imports[k]), Database')
     /\ pointer' # pointer =>
          /\ Commits(Database, MoveWrites(Database, history'[Len(history')]), Database')
          /\ DowngradeAccepted(Database) =>
               LET again == Upgraded(Downgraded(Database))
                   move == MoveWrites(again, history'[Len(history')])
               IN /\ LegacyConsistent(Downgraded(Database)) /\ ActivationConsistent(again)
                  /\ again.pointer = pointer
                  /\ Commits(again, move, [Database' EXCEPT
                               !.events = Append(again.events, history'[Len(history')])])
    ]_corpusVars
=============================================================================
