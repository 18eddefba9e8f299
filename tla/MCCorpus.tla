------------------------------ MODULE MCCorpus ------------------------------
(* A small instance of StorageGuards for TLC. *)
EXTENDS StorageGuards

Symmetry == Permutations(Reader) \cup Permutations(Importer)

(* Imports come first: a long history is reached with no import under way. *)
ImportsComeFirst == Len(history) > 1 => \A i \in Importer : plan[i] = None

Law(law, from, to, status) ==
  [law_id |-> law, title |-> "t1", valid_from |-> from, valid_to |-> to,
   verification_status |-> status]

(* v2 replaces v1 on day 2; v3 is another law of that title and of unknown *)
(* validity; v4 overlaps with v1.                                          *)
Laws == ("v1" :> Law("l1", 1, 2, "verified")) @@ ("v2" :> Law("l1", 2, None, "verified"))
     @@ ("v3" :> Law("l2", None, None, "unknown")) @@ ("v4" :> Law("l1", 1, 3, "verified"))
     @@ ("v5" :> Law("l1", 3, None, "unverified"))

Article(v, number, body) ==
  [version_id |-> v, law_id |-> Laws[v].law_id, article_number |-> number, body |-> body]

Articles == ("a1" :> Article("v1", "n1", "old")) @@ ("a2" :> Article("v2", "n1", "new"))
         @@ ("a3" :> Article("v2", "n2", "more")) @@ ("a4" :> Article("v3", "n1", "other"))
         @@ ("a5" :> Article("v4", "n1", "both")) @@ ("a6" :> Article("v1", "n1", "twice"))
         @@ ("a7" :> Article("v5", "n1", "draft")) @@ ("a8" :> Article("v1", "n2", "added"))

Chunks == ("c1" :> [article_ids |-> <<"a1">>]) @@ ("c2" :> [article_ids |-> <<"a2", "a3">>])
       @@ ("c3" :> [article_ids |-> <<"a4">>]) @@ ("c4" :> [article_ids |-> <<"a5">>])
       @@ ("c5" :> [article_ids |-> <<"a6">>]) @@ ("c6" :> [article_ids |-> <<"a2">>])
       @@ ("c7" :> [article_ids |-> <<"a7">>])

MakeBundle(s, p, versions, articles, members) ==
  [snapshot_id |-> s, profile_id |-> p,
   law_versions |-> [v \in versions |-> Laws[v]],
   articles |-> [a \in articles |-> Articles[a]],
   chunks |-> [c \in ToSet(members) |-> Chunks[c]], members |-> members,
   embeddings |-> [c \in ToSet(members) |-> "vector"]]

First == MakeBundle("s1", "p1", {"v1", "v2"}, {"a1", "a2", "a3"}, <<"c1", "c2", "c6">>)

FirstAgain == [First EXCEPT !.profile_id = "p2"]

Larger == MakeBundle("s2", "p1", {"v1", "v2", "v3", "v5"}, {"a1", "a2", "a3", "a4", "a7"},
                     <<"c3", "c1", "c2", "c7">>)

OtherVector == [Larger EXCEPT !.embeddings["c1"] = "other vector"]

Overlapping == MakeBundle("s3", "p1", {"v1", "v4"}, {"a1", "a5"}, <<"c4", "c1">>)

(* v1 with one more article, in a chunk of its own. *)
Extended == [MakeBundle("s3", "p1", {"v1"}, {"a1", "a8"}, <<"c1", "c5">>)
             EXCEPT !.chunks["c5"].article_ids = <<"a8">>]

TwiceTheNumber == MakeBundle("s3", "p1", {"v1"}, {"a1", "a6"}, <<"c1", "c5">>)

MCContent ==
  [first |-> First, firstAgain |-> FirstAgain, larger |-> Larger, otherVector |-> OtherVector,
   overlapping |-> Overlapping, extended |-> Extended, twiceTheNumber |-> TwiceTheNumber]

MCBundle == DOMAIN MCContent

LookupOf(s, revision, laws, versions, articles) ==
  [snapshot_id |-> s, pointer_revision |-> revision, law_ids |-> laws,
   version_ids |-> versions, article_ids |-> articles]

(* Unpinned lookups in the snapshots, and one pinned to each activation.   *)
MCRequest ==
  {[boundary |-> LookupOf(s, None, laws, versions, None), law_title |-> "t1",
    article_number |-> "n1", law_id |-> law, version_id |-> version, effective_on |-> day] :
     s \in {"s2", "s3"}, laws \in {None}, versions \in {None, {"v1", "v2", "v4"}},
     law \in {None, "l1"}, version \in {None, "v2"}, day \in {None, 1, 2}}
  \cup
  {[boundary |-> LookupOf(s, revision, {"l1"}, None, articles), law_title |-> "t1",
    article_number |-> "n1", law_id |-> None, version_id |-> None, effective_on |-> 2] :
     s \in {"s1", "s3"}, revision \in {1, 2}, articles \in {{}, {"a1", "a2"}}}

MCFilter ==
  {[snapshot_id |-> s, profile_id |-> p, law_ids |-> None, version_ids |-> chosen[1],
    article_ids |-> None, article_numbers |-> chosen[2], effective_on |-> chosen[3]] :
     s \in {"s1", "s2", "s3"}, p \in {"p1"},
     chosen \in {<<None, None, None>>, <<{"v2", "v3"}, None, 2>>, <<None, {"n1"}, None>>}}
  \cup
  {[snapshot_id |-> "s1", profile_id |-> "p2", law_ids |-> {"l1"}, version_ids |-> None,
    article_ids |-> None, article_numbers |-> None, effective_on |-> 2]}

MCChunkIds == <<"c1", "c2", "c3", "c4", "c5", "c6", "c7">>

MCRanking == {MCChunkIds, Reverse(MCChunkIds), <<"c2", "c3", "c1", "c7", "c4", "c6", "c5">>}
=============================================================================
