----------------------------- MODULE CorpusReads -----------------------------
(***************************************************************************)
(* What is read from the corpus: the exact lookup of an article            *)
(* (storage/catalog.py) and the corpus bound to a retrieval boundary       *)
(* (storage/retrieval.py, retrieval_contracts.py, retrieval.py).           *)
(*                                                                         *)
(* A lookup reads in one REPEATABLE READ transaction.  The other reads     *)
(* take several statements, each with a view of its own; what they read    *)
(* is written once, so that ReadsAreReproducible makes them as good as one *)
(* statement.  A selector is None or a set of identifiers, a date a        *)
(* number.                                                                 *)
(***************************************************************************)
EXTENDS Corpus

CONSTANTS
  Request,    (* The article lookups that are asked for.                   *)
  Filter,     (* The retrieval boundaries that are asked for.              *)
  ChunkIds,   (* The chunk identifiers, in their order.                    *)
  Ranking,    (* The orders a lexical or vector score may give the chunks. *)
  RRFK        (* rrf_k of the fusion.                                      *)

ASSUME RRFKIsNatural == RRFK \in Nat
ASSUME NullIsNoSelector == None # {}
ASSUME SnapshotsAreAsked ==
  /\ Request # {}
  /\ \A r \in Request : "boundary" \in DOMAIN r /\ r.boundary.snapshot_id \in Snapshot
  /\ \A f \in Filter : f.snapshot_id \in Snapshot

Unavailable == [status |-> "unavailable"]

Allowed(selector, id) == selector = None \/ id \in selector

(* A version in force on a day.  A version without a first day is not.     *)
InForce(law, day) ==
  /\ law.valid_from # None
  /\ law.valid_from <= day
  /\ law.valid_to = None \/ day < law.valid_to

LawOf(a) == tables.law_versions[tables.law_articles[a].version_id].law

-----------------------------------------------------------------------------
(* Exact lookup of an article *)

LookupDeniesAll(boundary) ==
  {} \in {boundary.law_ids, boundary.version_ids, boundary.article_ids}

AllowsIdentity(boundary, a) ==
  /\ ~LookupDeniesAll(boundary)
  /\ Allowed(boundary.law_ids, tables.law_articles[a].law_id)
  /\ Allowed(boundary.version_ids, tables.law_articles[a].version_id)
  /\ Allowed(boundary.article_ids, a)

(* _validated_snapshot: the snapshot, and the activation that is pinned.   *)
SnapshotServed(boundary) ==
  /\ Serviceable(boundary.snapshot_id)
  /\ \/ boundary.pointer_revision = None
     \/ /\ boundary.pointer_revision \in DOMAIN history
        /\ history[boundary.pointer_revision].target = boundary.snapshot_id

Members(s) == IF s \in DOMAIN tables.snapshot_chunks
              THEN ToSet(tables.snapshot_chunks[s]) ELSE {}

(* _article_groups: the articles of the chunks of the snapshot that match. *)
ArticleGroups(r) ==
  {a \in UNION {ToSet(tables.chunk_articles[c]) : c \in Members(r.boundary.snapshot_id)} :
     /\ LawOf(a).title = r.law_title
     /\ tables.law_articles[a].article_number = r.article_number
     /\ r.law_id \in {None, tables.law_articles[a].law_id}
     /\ r.version_id \in {None, tables.law_articles[a].version_id}
     /\ Allowed(r.boundary.law_ids, tables.law_articles[a].law_id)
     /\ Allowed(r.boundary.version_ids, tables.law_articles[a].version_id)
     /\ Allowed(r.boundary.article_ids, a)}

LawIds(articles) == {tables.law_articles[a].law_id : a \in articles}

VersionIds(articles) == {tables.law_articles[a].version_id : a \in articles}

Answer(status, reason, articles) ==
  [status |-> status, reason |-> reason, articles |-> articles]

Uncertain(a) == LawOf(a).verification_status # "verified" \/ LawOf(a).valid_from = None

Effective(a, day) == ~Uncertain(a) /\ InForce(LawOf(a), day)

(* Mutant: what is in force is looked for before what is uncertain. *)
ResolveArticleGroup_EffectiveFirst(r, groups) ==
  LET uncertain == {a \in groups : Uncertain(a)}
      effective == {a \in groups : Effective(a, r.effective_on)}
  IN IF r.law_id = None /\ Cardinality(LawIds(groups)) > 1
     THEN Answer("needs_disambiguation", "multiple_law_identities", groups)
     ELSE IF r.effective_on = None
     THEN IF Cardinality(groups) = 1 THEN Answer("found", "exact_match", groups)
          ELSE Answer("needs_disambiguation", "multiple_exact_versions", groups)
     ELSE IF Cardinality(effective) = 1 THEN Answer("found", "exact_match", effective)
     ELSE IF uncertain # {}
     THEN Answer("needs_disambiguation", "validity_unknown", uncertain \cup effective)
     ELSE IF effective # {} THEN Answer("needs_disambiguation", "overlapping_validity", effective)
     ELSE Answer("not_found", IF r.version_id # None THEN "version_not_effective"
                              ELSE "no_effective_version", {})

(* _resolve_article_group, for groups that are not empty. *)
ResolveArticleGroup(r, groups) ==
  LET uncertain == {a \in groups : Uncertain(a)}
      effective == {a \in groups : Effective(a, r.effective_on)}
  IN IF r.law_id = None /\ Cardinality(LawIds(groups)) > 1
     THEN Answer("needs_disambiguation", "multiple_law_identities", groups)
     ELSE IF r.effective_on = None
     THEN IF Cardinality(groups) = 1 THEN Answer("found", "exact_match", groups)
          ELSE Answer("needs_disambiguation", "multiple_exact_versions", groups)
     ELSE IF uncertain # {}
     THEN Answer("needs_disambiguation", "validity_unknown", uncertain \cup effective)
     ELSE IF Cardinality(effective) = 1 THEN Answer("found", "exact_match", effective)
     ELSE IF effective # {} THEN Answer("needs_disambiguation", "overlapping_validity", effective)
     ELSE Answer("not_found", IF r.version_id # None THEN "version_not_effective"
                              ELSE "no_effective_version", {})

(* _lookup_article *)
LookupArticle(r) ==
  IF LookupDeniesAll(r.boundary) THEN Answer("not_found", "boundary_denies_all", {})
  ELSE IF ~SnapshotServed(r.boundary) THEN Unavailable
  ELSE IF ArticleGroups(r) = {} THEN Answer("not_found", "no_exact_match", {})
  ELSE ResolveArticleGroup(r, ArticleGroups(r))

(* lookup_active_article looks up with no selector but the active snapshot, *)
(* pinned to its activation, read in the same transaction.                 *)
ActiveBoundary ==
  [snapshot_id |-> pointer.snapshot, pointer_revision |-> pointer.revision,
   law_ids |-> None, version_ids |-> None, article_ids |-> None]

LookupActiveArticle(r) ==
  IF pointer = NoPointer THEN Unavailable
  ELSE LookupArticle([r EXCEPT !.boundary = ActiveBoundary])

(* ArticleLookupRequest: a law or a version outside the boundary is refused. *)
RequestAccepted(r) ==
  /\ r.law_id = None \/ Allowed(r.boundary.law_ids, r.law_id)
  /\ r.version_id = None \/ Allowed(r.boundary.version_ids, r.version_id)

(* _validate_match *)
MatchAccepted(r, a) ==
  /\ LawOf(a).title = r.law_title
  /\ tables.law_articles[a].article_number = r.article_number
  /\ r.law_id \in {None, tables.law_articles[a].law_id}
  /\ r.version_id \in {None, tables.law_articles[a].version_id}
  /\ r.effective_on # None => Effective(a, r.effective_on)

(* _validate_candidates *)
CandidatesAccepted(r, articles) ==
  \A a \in articles :
    /\ LawOf(a).title = r.law_title
    /\ tables.law_articles[a].article_number = r.article_number
    /\ r.law_id \in {None, tables.law_articles[a].law_id}
    /\ r.version_id \in {None, tables.law_articles[a].version_id}
    /\ AllowsIdentity(r.boundary, a)

(* _validate_not_found_reason *)
NotFoundReasonAccepted(r, reason) ==
  /\ reason = "boundary_denies_all" <=> LookupDeniesAll(r.boundary)
  /\ reason = "version_not_effective" => r.version_id # None /\ r.effective_on # None
  /\ reason = "no_effective_version" => r.version_id = None /\ r.effective_on # None

(* _validate_disambiguation_reason *)
DisambiguationReasonAccepted(r, reason, articles) ==
  LET oneOfEachVersion == Cardinality(VersionIds(articles)) = Cardinality(articles)
      oneLaw == Cardinality(LawIds(articles)) = 1
  IN CASE reason = "multiple_law_identities" ->
            r.law_id = None /\ Cardinality(LawIds(articles)) > 1
       [] reason = "multiple_exact_versions" ->
            /\ r.effective_on = None /\ r.version_id = None
            /\ oneLaw /\ oneOfEachVersion /\ Cardinality(articles) > 1
       [] reason = "overlapping_validity" ->
            /\ r.effective_on # None /\ r.version_id = None
            /\ oneLaw /\ oneOfEachVersion /\ Cardinality(articles) > 1
            /\ \A a \in articles : Effective(a, r.effective_on)
       [] reason = "validity_unknown" ->
            /\ r.effective_on # None
            /\ oneLaw /\ oneOfEachVersion
            /\ \E a \in articles : Uncertain(a)
            /\ \A a \in articles : Uncertain(a) \/ Effective(a, r.effective_on)

(* ArticleLookupResult: what a result refuses to be. *)
ResultAccepted(r, answer) ==
  CASE answer.status = "found" -> \A a \in answer.articles : MatchAccepted(r, a)
    [] answer.status = "not_found" -> NotFoundReasonAccepted(r, answer.reason)
    [] answer.status = "needs_disambiguation" ->
         /\ answer.articles # {}
         /\ CandidatesAccepted(r, answer.articles)
         /\ DisambiguationReasonAccepted(r, answer.reason, answer.articles)

-----------------------------------------------------------------------------
(* The corpus of a retrieval boundary *)

FilterDeniesAll(f) == {} \in {f.law_ids, f.version_ids, f.article_ids, f.article_numbers}

(* _validated_context, over its three statements. *)
ContextValidated(f) ==
  /\ Serviceable(f.snapshot_id)
  /\ f.profile_id \in tables.embedding_profiles
  /\ <<f.snapshot_id, f.profile_id>> \in DOMAIN tables.embedding_imports

(* allows_article *)
AllowsArticle(f, a) ==
  /\ Allowed(f.law_ids, tables.law_articles[a].law_id)
  /\ Allowed(f.version_ids, tables.law_articles[a].version_id)
  /\ Allowed(f.article_ids, a)
  /\ Allowed(f.article_numbers, tables.law_articles[a].article_number)
  /\ f.effective_on = None \/ InForce(LawOf(a), f.effective_on)

Selects(f) ==
  \E field \in {"law_ids", "version_ids", "article_ids", "article_numbers", "effective_on"} :
    f[field] # None

(* Mutant: one article that matches discloses the whole chunk. *)
RelationFilter_AnyArticle(f, c) ==
  \/ ~Selects(f)
  \/ \E n \in DOMAIN tables.chunk_articles[c] : AllowsArticle(f, tables.chunk_articles[c][n])

(* _relation_filter: one related article matches, and none does not.       *)
RelationFilter(f, c) ==
  LET related == ToSet(tables.chunk_articles[c])
  IN \/ ~Selects(f)
     \/ /\ \E a \in related : AllowsArticle(f, a)
        /\ ~ \E a \in related : ~AllowsArticle(f, a)

(* The rows joined for a boundary: members with an embedding of it.        *)
BoundRow(f, c) ==
  /\ <<c, f.profile_id>> \in DOMAIN tables.chunk_embeddings
  /\ RelationFilter(f, c)

(* _load_relations, _hydrate_chunk and _build_provenance: a chunk with the *)
(* relations the database has for it, which replace those of its metadata. *)
Entry(f, c) ==
  [chunk |-> tables.chunks[c], articles |-> tables.chunk_articles[c], filter |-> f,
   chunk_id |-> c, embedding |-> tables.chunk_embeddings[<<c, f.profile_id>>]]

(* What is served to nobody. *)
NoCorpus == [n \in {} |-> None]

(* load_bound_corpus: each row under its place among the members. *)
BoundEntries(f) ==
  [c \in {m \in Members(f.snapshot_id) : ~FilterDeniesAll(f) /\ BoundRow(f, m)} |-> Entry(f, c)]

BoundCorpus(f) ==
  LET members == tables.snapshot_chunks[f.snapshot_id]
      entries == BoundEntries(f)
  IN [n \in {m \in DOMAIN members : members[m] \in DOMAIN entries} |-> entries[members[n]]]

(* _freeze_retrieval_binding: the snapshot that a run created now is bound *)
(* to, for the profile of its owner.                                       *)
FrozenBinding(p) ==
  LET recorded == /\ pointer # NoPointer
                  /\ history[pointer.revision].target = pointer.snapshot
                  /\ snapshots[pointer.snapshot] = "active"
  IN IF recorded /\ <<pointer.snapshot, p>> \in DOMAIN tables.embedding_imports
     THEN pointer.snapshot ELSE None

(* PostgresAssistantFactory: the boundary on the run, with no selector.    *)
RunBoundary(s, p) ==
  [snapshot_id |-> s, profile_id |-> p, law_ids |-> None, version_ids |-> None,
   article_ids |-> None, article_numbers |-> None, effective_on |-> None]

(* What its assistant searches, however long after the run was created.    *)
AssistantCorpus(s, p) ==
  IF ContextValidated(RunBoundary(s, p)) THEN BoundCorpus(RunBoundary(s, p)) ELSE NoCorpus

(* RetrievalBoundary.allows, which every reader of the corpus asserts of   *)
(* what it is given, and the relations its metadata must agree with.       *)
EntryAccepted(f, entry) ==
  /\ ~FilterDeniesAll(f)
  /\ entry.filter = f
  /\ entry.articles # <<>>
  /\ \A n \in DOMAIN entry.articles : AllowsArticle(f, entry.articles[n])
  /\ entry.articles = entry.chunk.article_ids

(* The chunks of a bound corpus in the order of a score, the best k.  Two  *)
(* chunks never tie: the place among the members decides.                  *)
Best(ids, ranking, k) ==
  LET InCorpus(c) == c \in ids
      ranked == SelectSeq(ranking, InCorpus)
  IN SubSeq(ranked, 1, IF k < Len(ranked) THEN k ELSE Len(ranked))

RankIn(ranked, c) == CHOOSE n \in DOMAIN ranked : ranked[n] = c

(* The contribution of a rank, over a common denominator. *)
Reciprocal(ranked, c) ==
  LET denominator == FoldSet(LAMBDA n, m : m * (RRFK + n), 1, 1..Len(ChunkIds))
  IN IF c \in ToSet(ranked) THEN denominator \div (RRFK + RankIn(ranked, c)) ELSE 0

FusedScore(lexical, dense, c) == Reciprocal(lexical, c) + Reciprocal(dense, c)

LeafCandidates(k) == IF 3 * k > 10 THEN 3 * k ELSE 10

(* RRFHybridRetriever.retrieve of the results of its leaves: the order of  *)
(* the identifiers decides between equal scores.                           *)
Fuse(lexical, dense, k) ==
  LET found == ToSet(lexical) \cup ToSet(dense)
      score == [c \in found |-> FusedScore(lexical, dense, c)]
      Before(c, d) == \/ score[c] > score[d]
                      \/ score[c] = score[d] /\ RankIn(ChunkIds, c) < RankIn(ChunkIds, d)
      place == [c \in found |-> 1 + Cardinality({d \in found : Before(d, c)})]
  IN [n \in 1..(IF k < Cardinality(found) THEN k ELSE Cardinality(found)) |->
        CHOOSE c \in found : place[c] = n]

-----------------------------------------------------------------------------
(* Properties *)

(* The articles that could answer a request, whatever their validity.      *)
Candidates(r) ==
  {a \in DOMAIN tables.law_articles :
     /\ \E c \in Members(r.boundary.snapshot_id) : a \in ToSet(tables.chunk_articles[c])
     /\ AllowsIdentity(r.boundary, a)
     /\ LawOf(a).title = r.law_title
     /\ tables.law_articles[a].article_number = r.article_number
     /\ r.law_id \in {None, tables.law_articles[a].law_id}
     /\ r.version_id \in {None, tables.law_articles[a].version_id}}

(* The filter that asks for the day and the selectors of a lookup.         *)
FilterOf(r, p) ==
  [snapshot_id |-> r.boundary.snapshot_id, profile_id |-> p,
   law_ids |-> r.boundary.law_ids, version_ids |-> r.boundary.version_ids,
   article_ids |-> r.boundary.article_ids, article_numbers |-> None,
   effective_on |-> r.effective_on]

InBoundCorpus(f, c) ==
  \E n \in DOMAIN BoundCorpus(f) : BoundCorpus(f)[n].chunk_id = c

(* A lookup for a day finds the only version that can be in force then,    *)
(* and finds nothing only when no verified version is.  The result type    *)
(* refuses none of the answers.  What it finds can be retrieved: a chunk   *)
(* of that article alone is in the corpus bound to the same selectors.     *)
LookupIsSound(r) ==
  \A answer \in {LookupArticle(r)} \ {Unavailable} :
    /\ ResultAccepted(r, answer)
    /\ answer.status = "found" /\ r.effective_on # None =>
         /\ \A a \in Candidates(r) \ answer.articles :
              ~Uncertain(a) /\ ~Effective(a, r.effective_on)
         /\ \A a \in answer.articles, p \in imports[r.boundary.snapshot_id],
               c \in Members(r.boundary.snapshot_id) :
              tables.chunk_articles[c] = <<a>> => InBoundCorpus(FilterOf(r, p), c)
    /\ answer.status = "not_found" =>
         \A a \in Candidates(r) : r.effective_on # None /\ ~Effective(a, r.effective_on)

(* Whatever two leaves find of the same chunks, a fusion gives as many of  *)
(* them as are asked for, and never one that is worse in both leaves       *)
(* instead of a better one.                                                *)
FusionIsSound ==
  \A ids \in SUBSET ToSet(ChunkIds), lexicalRanking, denseRanking \in Ranking,
     k \in 1..Len(ChunkIds) :
    k <= Cardinality(ids) =>
      LET lexical == Best(ids, lexicalRanking, LeafCandidates(k))
          dense == Best(ids, denseRanking, LeafCandidates(k))
          fused == Fuse(lexical, dense, k)
      IN /\ Len(fused) = k /\ ToSet(fused) \subseteq ids
         /\ \A d \in ToSet(fused), c \in ids :
              RankIn(lexical, c) < RankIn(lexical, d) /\ RankIn(dense, c) < RankIn(dense, d) =>
                c \in ToSet(fused) /\ RankIn(fused, c) < RankIn(fused, d)

(* The corpus of a boundary holds every member of the snapshot when no     *)
(* selector narrows it, in the order of the members, and nothing that the  *)
(* readers it is handed to would refuse.  Its fusions are sound.           *)
BoundCorpusIsSound(f) ==
  \A corpus \in {BoundCorpus(f)} :
    /\ \A n \in DOMAIN corpus : EntryAccepted(f, corpus[n])
    /\ ~Selects(f) =>
         [n \in DOMAIN corpus |-> corpus[n].chunk_id] = tables.snapshot_chunks[f.snapshot_id]

(* Every lookup and every bound corpus is sound after every import.        *)
ReadsAreSound ==
  [][imports' # imports =>
       /\ FusionIsSound
       /\ \A r \in Request : (RequestAccepted(r) => LookupIsSound(r))'
       /\ \A f \in Filter : (ContextValidated(f) => BoundCorpusIsSound(f))'
    ]_corpusVars

Boundaries == {r.boundary : r \in Request}

(* A run is bound to a snapshot and a profile, a lookup to an activation:  *)
(* once served, it is served for good, and with the same answer, whatever  *)
(* is imported or activated meanwhile, so that a run may be executed long  *)
(* after another snapshot was activated.  What is active can be looked up, *)
(* and a run that is bound to it has a corpus to search.                   *)
ReadsAreReproducible ==
  [][/\ \A b \in Boundaries : SnapshotServed(b) => SnapshotServed(b)'
     /\ \A f \in Filter : ContextValidated(f) => ContextValidated(f)'
     /\ imports' # imports =>
          /\ \A r \in Request :
               LookupArticle(r) # Unavailable => LookupArticle(r)' = LookupArticle(r)
          /\ \A f \in Filter : ContextValidated(f) => BoundCorpus(f)' = BoundCorpus(f)
     /\ pointer' # pointer =>
          /\ \E r \in Request : LookupActiveArticle(r)' # Unavailable
          /\ \A s \in Snapshot, p \in Profile :
               FrozenBinding(p)' = s => AssistantCorpus(s, p)' # NoCorpus
     /\ \A s \in Snapshot, p \in Profile :
          ContextValidated(RunBoundary(s, p)) => ContextValidated(RunBoundary(s, p))'
    ]_catalogRows
=============================================================================
