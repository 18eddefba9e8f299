------------------------------ MODULE AnnIndex ------------------------------
(***************************************************************************)
(* The experimental HNSW indexes over chunk_embeddings (storage/ann.py),   *)
(* the generations and build receipts the triggers of migration 0004       *)
(* guard, and the searches that use an index, with their exact fallback    *)
(* (storage/retrieval.py).                                                 *)
(*                                                                         *)
(* A manifest hash stands for the set of chunks it covers, so the number   *)
(* of embeddings of a generation is the size of that set; the physical     *)
(* name of an index and the hash of its parameters stand for the           *)
(* parameters.  All profiles have one dimension below the limit of HNSW.   *)
(*                                                                         *)
(* Transactions take locks in steps; what follows the last lock of one is  *)
(* a single step.  An import holds ROW EXCLUSIVE on chunk_embeddings, a    *)
(* build and a search SHARE; dropping an index needs the table alone.      *)
(***************************************************************************)
EXTENDS SnapshotNames, Integers, FiniteSets

CONSTANTS
  Chunk,         (* Chunks, shared between snapshots.                      *)
  ChunksOf,      (* ChunksOf[s]: the members of s, which never change.     *)
  HnswSpec,      (* Values of m and ef_construction.                       *)
  Builder,       (* Callers of ensure_index.                               *)
  SpecOf,        (* SpecOf[b]: the spec b is configured with.              *)
  Searcher,      (* Retrievers.                                            *)
  TopK,          (* The results a search asks for.                         *)
  MaxInstances,  (* Bound of the model: indexes created for a profile.     *)
  MaxChanges     (* Bound of the model: upgrades and changes by operators. *)

ASSUME SnapshotsHaveChunks ==
  /\ ChunksOf \in [Snapshot -> SUBSET Chunk \ {{}}]
  /\ \A s \in Snapshot : IsFiniteSet(ChunksOf[s])
ASSUME BuildersHaveSpecs == SpecOf \in [Builder -> HnswSpec]
ASSUME AnnBounds == TopK \in Nat \ {0} /\ MaxInstances \in Nat /\ MaxChanges \in Nat

VARIABLES
  imported,      (* Validated rows of embedding_imports.                   *)
  embedded,      (* embedded[p]: the rows of chunk_embeddings.             *)
  writing,       (* The import transaction that holds rows, or None.       *)
  binding,       (* binding[p]: how the generation of p is bound, or None. *)
  guarded,       (* Migration 0004 is applied.                             *)
  receipts,      (* index_builds.                                          *)
  indexes,       (* The HNSW indexes of the database.                      *)
  server,        (* The versions of PostgreSQL and pgvector.               *)
  build,         (* build[b]: the ensure_index call of b.                  *)
  search,        (* search[q]: the search q is in, or its last answer.      *)
  instances,     (* Counter: instance identifiers drawn for each profile.  *)
  changes        (* Counter: upgrades and changes by operators.            *)

rowVars == <<imported, embedded, writing>>
annRows == <<binding, guarded, receipts, indexes>>
annVars == <<rowVars, annRows, server, build, search, instances, changes>>

AtRest == [pc |-> "idle"]

(* _index_params: what a receipt records and the names are derived from. *)
Params == [profile: Profile, manifest: SUBSET Chunk, instance: 1..MaxInstances,
           spec: HnswSpec, server: Nat]

ASSUME NullIsNoIndex == None \notin Params

(* The index of an operator's own making has no parameters on record. *)
Foreign(p) == [profile |-> p, instance |-> 0]

AnnInit ==
  /\ imported = {}
  /\ embedded = [p \in Profile |-> {}]
  /\ writing = None
  /\ binding = [p \in Profile |-> None]
  /\ guarded = TRUE
  /\ receipts = {}
  /\ indexes = {}
  /\ server = 0
  /\ build = [b \in Builder |-> AtRest]
  /\ search = [q \in Searcher |-> AtRest]
  /\ instances = [p \in Profile |-> 0]
  /\ changes = 0

-----------------------------------------------------------------------------
(* Imports *)

(* The import still has rows to write, and so keeps out SHARE. *)
HoldsRows == writing # None /\ ~(ChunksOf[writing.snapshot] \subseteq embedded[writing.profile])

(* import_bundle up to its first row of chunk_embeddings: the advisory lock *)
(* of imports and, where there is a row to write, ROW EXCLUSIVE.            *)
ImportBegin(s, p) ==
  /\ writing = None
  /\ <<s, p>> \notin imported
  /\ ChunksOf[s] \subseteq embedded[p] \/ \A b \in Builder : build[b].pc # "share"
  /\ writing' = [snapshot |-> s, profile |-> p]
  /\ UNCHANGED <<imported, embedded, annRows, server, build, search, instances, changes>>

(* Mutant: the trigger counts the rows and leaves the binding. *)
Track_KeepsBinding(p, new) == UNCHANGED binding

(* The triggers on chunk_embeddings: a new row unbinds the generation. *)
Track(p, new) ==
  binding' = IF guarded /\ new # {} THEN [binding EXCEPT ![p] = None] ELSE binding

(* _ensure_embeddings, the receipt of the import, and the commit. *)
ImportCommit ==
  /\ writing # None
  /\ LET p == writing.profile
         new == ChunksOf[writing.snapshot] \ embedded[p]
     IN  /\ embedded' = [embedded EXCEPT ![p] = @ \cup new]
         /\ Track(p, new)
  /\ imported' = imported \cup {<<writing.snapshot, writing.profile>>}
  /\ writing' = None
  /\ UNCHANGED <<guarded, receipts, indexes, server, build, search, instances, changes>>

ImportFail ==
  /\ writing # None
  /\ writing' = None
  /\ UNCHANGED <<imported, embedded, annRows, server, build, search, instances, changes>>

-----------------------------------------------------------------------------
(* Builds *)

Searchable(s, p) == <<s, p>> \in imported

Boundary(p) == {i \in indexes : i.profile = p}

(* The receipts of a profile that are not archived. *)
Live(p) == {r \in receipts : r.params.profile = p /\ r.status = "validated"}

Receipt(s, par) == [snapshot |-> s, params |-> par, status |-> "validated"]

(* The advisory lock of the profile is free. *)
AdvisoryFree(p) == \A c \in Builder : build[c] # AtRest => build[c].profile # p

(* ensure_index: the context and the versions, then the advisory lock. *)
BuildBegin(b, s, p) ==
  /\ build[b] = AtRest
  /\ instances[p] < MaxInstances
  /\ Searchable(s, p)
  /\ AdvisoryFree(p)
  /\ build' = [build EXCEPT ![b] = [pc |-> "advisory", snapshot |-> s, profile |-> p,
                                    server |-> server]]
  /\ UNCHANGED <<rowVars, annRows, server, search, instances, changes>>

(* Mutant: the table is not locked against importers. *)
ShareFree_Always(b) == TRUE

(* No import holds rows of the table. *)
ShareFree(b) == ~HoldsRows

(* LOCK TABLE chunk_embeddings IN SHARE MODE, the row of the generation and, *)
(* where it is not bound, the manifest of its rows.                          *)
BuildShare(b) ==
  /\ build[b].pc = "advisory"
  /\ ShareFree(b)
  /\ build' = [build EXCEPT ![b] =
       [pc |-> "share", snapshot |-> @.snapshot, profile |-> @.profile,
        server |-> @.server, manifest |-> embedded[@.profile]]]
  /\ UNCHANGED <<rowVars, annRows, server, search, instances, changes>>

Unbound(b) == binding[build[b].profile] = None

(* Mutant: a graph of an earlier generation is adopted as well. *)
Adoptable_AnyGeneration(b) == {r.params : r \in Live(build[b].profile)}

(* _adoptable_physical_params: the graphs on record that were built over the *)
(* very rows of this generation, under the same versions.                    *)
Adoptable(b) ==
  {par \in {r.params : r \in Live(build[b].profile)} :
     par.manifest = build[b].manifest /\ par.server = build[b].server}

(* The parameters the build is for: the bound graph's or an adopted one's, *)
(* as this caller would have them, or those of a graph of its own.         *)
Resolved(b) ==
  LET requested(instance, manifest) ==
        [profile |-> build[b].profile, manifest |-> manifest, instance |-> instance,
         spec |-> SpecOf[b], server |-> build[b].server]
  IN  IF ~Unbound(b)
      THEN requested(binding[build[b].profile].instance, binding[build[b].profile].manifest)
      ELSE IF Adoptable(b) # {} THEN CHOOSE par \in Adoptable(b) : TRUE
      ELSE requested(instances[build[b].profile] + 1, build[b].manifest)

(* _retire_stale_boundary_indexes: what an unbound generation drops. *)
Dropped(b) == IF Unbound(b) THEN Boundary(build[b].profile) \ {Resolved(b)} ELSE {}

(* Mutant: a status the schema does not know. *)
Retired_Unknown(b) ==
  {IF Unbound(b) /\ r \in Live(build[b].profile) /\ r.params # Resolved(b)
   THEN [r EXCEPT !.status = "retired"] ELSE r : r \in receipts}

(* Mutant: the receipts of the indexes dropped stay validated. *)
Retired_Kept(b) == receipts

(* The receipts of other graphs are archived, also where the graph is gone. *)
Retired(b) ==
  {IF Unbound(b) /\ r \in Live(build[b].profile) /\ r.params # Resolved(b)
   THEN [r EXCEPT !.status = "archived"] ELSE r : r \in receipts}

(* The reasons for which ensure_index raises and its transaction leaves   *)
(* nothing behind: no table of generations; another spec, two candidates  *)
(* or a missing index for a generation that has its graph; an index that  *)
(* is to go and has no receipt; a second index in the boundary.           *)
Refused(b) ==
  LET p == build[b].profile
      par == Resolved(b)
  IN  \/ ~guarded
      \/ ~Unbound(b) /\ (par # binding[p] \/ par \notin indexes)
      \/ Unbound(b) /\ \E a \in Adoptable(b) : a.spec # SpecOf[b] \/ a \notin indexes
      \/ Unbound(b) /\ Cardinality(Adoptable(b)) > 1
      \/ \E i \in Dropped(b) : ~\E r \in Live(p) : r.params = i
      \/ Boundary(p) \ (Dropped(b) \cup {par}) # {}
      \/ [Receipt(build[b].snapshot, par) EXCEPT !.status = "archived"] \in receipts

(* DROP INDEX wants the table alone. *)
MayDrop(b) == Dropped(b) = {} \/ \A c \in Builder \ {b} : build[c].pc # "share"

(* Mutant: the indexes that were to go stay. *)
Reindexed_KeepsOld(b) == indexes \cup {Resolved(b)}

(* CREATE INDEX where there is none yet, and DROP INDEX. *)
Reindexed(b) == (indexes \ Dropped(b)) \cup {Resolved(b)}

(* _bind_generation: an unbound generation is bound to the graph. *)
Bound(b) == [binding EXCEPT ![build[b].profile] = Resolved(b)]

(* The rest of ensure_index: retire, create or reuse, bind, and the receipt. *)
BuildDone(b) ==
  /\ build[b].pc = "share"
  /\ ~Refused(b)
  /\ MayDrop(b)
  /\ LET par == Resolved(b)
     IN  /\ receipts' = Retired(b) \cup {Receipt(build[b].snapshot, par)}
         /\ indexes' = Reindexed(b)
         /\ binding' = Bound(b)
         /\ instances' = [instances EXCEPT ![par.profile] =
                          IF par.instance > @ THEN par.instance ELSE @]
  /\ build' = [build EXCEPT ![b] = AtRest]
  /\ UNCHANGED <<rowVars, guarded, server, search, changes>>

(* ensure_index raises, its process dies, or PostgreSQL ends it as the    *)
(* victim of a deadlock: everything is rolled back.                       *)
BuildFail(b) ==
  /\ build[b] # AtRest
  /\ build' = [build EXCEPT ![b] = AtRest]
  /\ UNCHANGED <<rowVars, annRows, server, search, instances, changes>>

-----------------------------------------------------------------------------
(* Searches *)

(* Mutant: the handle is compared with its receipt alone. *)
ValidatedBuild_ReceiptOnly(s, par) == Receipt(s, par) \in receipts

(* _validated_build: the generation, the receipt, the versions and the index, *)
(* the only one of its boundary.                                              *)
ValidatedBuild(s, par) ==
  /\ guarded
  /\ binding[par.profile] = par
  /\ par.server = server
  /\ Receipt(s, par) \in receipts
  /\ Boundary(par.profile) = {par}

(* The members of the snapshot, all of them embedded by its import. *)
Eligible(s, p) == ChunksOf[s] \cap embedded[p]

(* search_vector with a handle from a receipt of any age: an iterative scan *)
(* in one transaction, which its budget may end early.                      *)
SearchAnn(q, r) ==
  /\ search[q].pc # "underfilled"
  /\ Searchable(r.snapshot, r.params.profile)
  /\ ~HoldsRows
  /\ ValidatedBuild(r.snapshot, r.params)
  /\ \E n \in 0..Cardinality(Eligible(r.snapshot, r.params.profile)) :
       search' = [search EXCEPT ![q] =
         [pc |-> IF n >= TopK THEN "ann_complete" ELSE "underfilled",
          snapshot |-> r.snapshot, profile |-> r.params.profile,
          results |-> IF n >= TopK THEN TopK ELSE n]]
  /\ UNCHANGED <<rowVars, annRows, server, build, instances, changes>>

(* The exact scan of the same boundary, in a transaction of its own and  *)
(* without the index: it fills the request or exhausts the population.   *)
SearchFallback(q) ==
  /\ search[q].pc = "underfilled"
  /\ Searchable(search[q].snapshot, search[q].profile)
  /\ LET n == Cardinality(Eligible(search[q].snapshot, search[q].profile))
     IN  search' = [search EXCEPT
           ![q].pc = IF n >= TopK THEN "exact_fallback_complete"
                     ELSE "exact_fallback_exhausted",
           ![q].results = IF n >= TopK THEN TopK ELSE n]
  /\ UNCHANGED <<rowVars, annRows, server, build, instances, changes>>

(* Mutant: what the index found is returned as if it were all. *)
SearchUnderfilled_Returns(q) ==
  /\ search[q].pc = "underfilled"
  /\ search' = [search EXCEPT ![q].pc = "exact_fallback_timed_out"]
  /\ UNCHANGED <<rowVars, annRows, server, build, instances, changes>>

(* No fallback is allowed, or it runs out of time: retrieve raises instead *)
(* of returning what the index found.                                      *)
SearchUnderfilled(q) ==
  /\ search[q].pc = "underfilled"
  /\ search' = [search EXCEPT ![q] = AtRest]
  /\ UNCHANGED <<rowVars, annRows, server, build, instances, changes>>

-----------------------------------------------------------------------------
(* The database under the code *)

(* Downgrading 0004 drops the generations; imports go on without trigger. *)
Downgrade ==
  /\ guarded /\ changes < MaxChanges
  /\ ~HoldsRows /\ \A b \in Builder : build[b].pc # "share"
  /\ guarded' = FALSE
  /\ binding' = [p \in Profile |-> None]
  /\ changes' = changes + 1
  /\ UNCHANGED <<rowVars, receipts, indexes, server, build, search, instances>>

(* Applying 0004 locks the table and counts the rows there are. *)
Upgrade ==
  /\ ~guarded /\ ~HoldsRows
  /\ guarded' = TRUE
  /\ UNCHANGED <<rowVars, binding, receipts, indexes, server, build, search, instances,
                 changes>>

(* Another version of pgvector, an index dropped, or one added by hand. *)
Administer ==
  /\ changes < MaxChanges
  /\ changes' = changes + 1
  /\ \/ server' = server + 1 /\ UNCHANGED indexes
     \/ /\ ~HoldsRows /\ \A b \in Builder : build[b].pc # "share"
        /\ \/ \E i \in indexes : indexes' = indexes \ {i}
           \/ \E p \in Profile : indexes' = indexes \cup {Foreign(p)}
        /\ UNCHANGED server
  /\ UNCHANGED <<rowVars, binding, guarded, receipts, build, search, instances>>

-----------------------------------------------------------------------------
AnnNext ==
  \/ \E s \in Snapshot, p \in Profile : ImportBegin(s, p)
  \/ ImportCommit \/ ImportFail
  \/ \E b \in Builder, s \in Snapshot, p \in Profile : BuildBegin(b, s, p)
  \/ \E b \in Builder : BuildShare(b) \/ BuildDone(b) \/ BuildFail(b)
  \/ \E q \in Searcher : (\E r \in receipts : SearchAnn(q, r)) \/ SearchFallback(q) \/ SearchUnderfilled(q)
  \/ Downgrade \/ Upgrade \/ Administer

AnnSpec == AnnInit /\ [][AnnNext]_annVars

-----------------------------------------------------------------------------
(* Properties *)

(* The types the schema gives the rows.                                     *)
AnnTypeOK ==
  /\ imported \subseteq Snapshot \X Profile
  /\ embedded \in [Profile -> SUBSET Chunk]
  /\ writing = None \/ writing \in [snapshot: Snapshot, profile: Profile]
  /\ \A p \in Profile : binding[p] = None \/ binding[p] \in Params
  /\ receipts \subseteq [snapshot: Snapshot, params: Params,
                        status: {"validated", "archived"}]
  /\ indexes \subseteq Params \cup {Foreign(p) : p \in Profile}

(* A bound generation is bound to the graph that was built over exactly its *)
(* rows, and that graph is the only one of the profile with receipts in     *)
(* force: what legal_rag_guard_embedding_profile_generation checks once, at *)
(* the time of the binding, stays true while importers, other snapshots'    *)
(* builders, upgrades and operators go on.                                  *)
BindingIsBacked ==
  /\ AnnTypeOK
  /\ \A p \in Profile : binding[p] # None =>
       /\ guarded
       /\ binding[p].profile = p
       /\ binding[p].manifest = embedded[p]
       /\ {r.params : r \in Live(p)} = {binding[p]}

(* Of the graphs the code made for a profile one is there at most, and it   *)
(* has a receipt in force: retiring archives and drops together, and an     *)
(* index with archived receipts only can be dropped by nobody.              *)
OneGraphPerBoundary ==
  \A p \in Profile :
    /\ Cardinality(Boundary(p) \ {Foreign(p)}) <= 1
    /\ Boundary(p) \ {Foreign(p)} \subseteq {r.params : r \in Live(p)}

(* Bindings, receipts and physical graphs account for each other, after any *)
(* failure, downgrade or foreign index.                                     *)
GraphsAreAccounted == BindingIsBacked /\ OneGraphPerBoundary

(* A search that is answered from an index scans the graph its handle       *)
(* names, which is bound to the rows of the moment and covers the whole     *)
(* snapshot: a handle from before an import, a rebuild, an upgrade or a     *)
(* retirement is refused.                                                   *)
ServesTheGeneration ==
  [][\A q \in Searcher, r \in receipts : SearchAnn(q, r) =>
       /\ r.status = "validated"
       /\ Boundary(r.params.profile) = {r.params}
       /\ r.params.manifest = embedded[r.params.profile]
       /\ ChunksOf[r.snapshot] \subseteq r.params.manifest
       /\ r.params.server = server
    ]_annVars

(* An answer holds all that was asked for or all there is, whichever path   *)
(* it took; a search that cannot tell raises.                               *)
AnswersAreComplete ==
  \A q \in Searcher : search[q].pc \notin {"idle", "underfilled"} =>
    \/ search[q].results = TopK
    \/ search[q].results = Cardinality(Eligible(search[q].snapshot, search[q].profile))

(* The comment in ensure_index: builders "cannot both hold SHARE while      *)
(* attempting to retire an earlier physical graph".  The lock they take     *)
(* before is one per profile, so builders of two profiles can, and then     *)
(* wait for each other.                                                     *)
BuildersRetireAlone ==
  \A b, c \in Builder :
    (/\ build[b].pc = "share" /\ ~Refused(b) /\ Dropped(b) # {}
     /\ build[c].pc = "share" /\ ~Refused(c) /\ Dropped(c) # {}) => b = c
=============================================================================
