---------------------------- MODULE SnapshotNames ----------------------------
(***************************************************************************)
(* What the catalog, the corpus and the ANN generations name alike.        *)
(***************************************************************************)

CONSTANTS
  Snapshot,   (* Snapshot identifiers.                                     *)
  Profile,    (* Embedding profiles.                                       *)
  None        (* SQL NULL, or nobody.                                      *)

ASSUME NullIsNoSnapshot == None \notin Snapshot \cup Profile
=============================================================================
