------------------------------- MODULE Catalog -------------------------------
(***************************************************************************)
(* The snapshot catalog of one scope: corpus snapshots and their embedding *)
(* imports (storage/repository.py), the active-snapshot pointer and its    *)
(* activation history (storage/catalog.py).                                *)
(*                                                                         *)
(* A snapshot identifier stands for one immutable content: an import of    *)
(* other content under it is refused and is no step.  The status           *)
(* "building" never leaves the transaction of an import.                   *)
(*                                                                         *)
(* A caller reads the pointer in one transaction and moves it in another.  *)
(* A revision is used once in a scope, so it stands for the activation_id  *)
(* that goes with it.                                                      *)
(***************************************************************************)
EXTENDS SnapshotNames, Integers, Sequences

CONSTANTS
  Reader,     (* Whoever reads the pointer in order to move it.            *)
  Actor,      (* Whoever an event may name as its actor.                   *)
  MaxMoves    (* Bound of the model: activation events.                    *)

ASSUME ReadersAct == Reader \subseteq Actor
ASSUME MovesAreBounded == MaxMoves \in Nat

VARIABLES
  snapshots,  (* snapshots[s]: its status, "absent" before the import.     *)
  imports,    (* imports[s]: profiles with a validated embedding import.   *)
  pointer,    (* The row of active_snapshot_pointers.                      *)
  history,    (* snapshot_activation_events, by revision.                  *)
  seen        (* seen[o]: the pointer as o last read it.                   *)

catalogRows == <<snapshots, imports, pointer, history>>
catalogVars == <<catalogRows, seen>>

NoPointer == [snapshot |-> None, revision |-> 0]

Pointer == [snapshot: Snapshot \cup {None}, revision: Nat]

Event == [operation: {"initial_activate", "replace", "rollback"},
          previous: Snapshot \cup {None}, target: Snapshot, actor: Actor]

CatalogInit ==
  /\ snapshots = [s \in Snapshot |-> "absent"]
  /\ imports = [s \in Snapshot |-> {}]
  /\ pointer = NoPointer
  /\ history = <<>>
  /\ seen = [o \in Reader |-> NoPointer]

WasActive(s) == \E n \in DOMAIN history : history[n].target = s

(* import_bundle: the snapshot on its first import, and a profile of it. *)
Import(s, p) ==
  /\ p \notin imports[s]
  /\ imports' = [imports EXCEPT ![s] = @ \cup {p}]
  /\ snapshots' = [snapshots EXCEPT ![s] = IF @ = "absent" THEN "validated" ELSE @]
  /\ UNCHANGED <<pointer, history, seen>>

(* get_active_snapshot, without a lock. *)
ReadPointer(o) ==
  /\ seen' = [seen EXCEPT ![o] = pointer]
  /\ UNCHANGED catalogRows

(* Mutant: only the snapshot is compared. *)
Current_Snapshot(expected) == expected.snapshot = pointer.snapshot

(* The precondition of a move: snapshot, revision and activation. *)
Current(expected) == expected = pointer

(* The target is not active, and validated for the required profile. *)
Ready(s, required) ==
  /\ snapshots[s] = "validated"
  /\ IF required = None THEN imports[s] # {} ELSE required \in imports[s]

(* Mutant: the snapshot replaced stays active. *)
Point_KeepsOld(s, operation, actor) ==
  /\ history' = Append(history, [operation |-> operation, previous |-> pointer.snapshot,
                                 target |-> s, actor |-> actor])
  /\ snapshots' = [snapshots EXCEPT ![s] = "active"]
  /\ pointer' = [snapshot |-> s, revision |-> pointer.revision + 1]
  /\ UNCHANGED <<imports, seen>>

(* The event, both statuses and the pointer, in one transaction. *)
Point(s, operation, actor) ==
  /\ history' = Append(history, [operation |-> operation, previous |-> pointer.snapshot,
                                 target |-> s, actor |-> actor])
  /\ snapshots' = [t \in Snapshot |-> IF t = s THEN "active"
                                      ELSE IF t = pointer.snapshot THEN "validated"
                                      ELSE snapshots[t]]
  /\ pointer' = [snapshot |-> s, revision |-> pointer.revision + 1]
  /\ UNCHANGED <<imports, seen>>

(* Mutant: no precondition on the pointer. *)
Activate_Blind(expected, s, required, actor) ==
  /\ Len(history) < MaxMoves
  /\ Ready(s, required)
  /\ Point(s, IF pointer = NoPointer THEN "initial_activate" ELSE "replace", actor)

(* activate_snapshot.  The target being active already is no step. *)
Activate(expected, s, required, actor) ==
  /\ Len(history) < MaxMoves
  /\ Current(expected)
  /\ Ready(s, required)
  /\ Point(s, IF pointer = NoPointer THEN "initial_activate" ELSE "replace", actor)

(* rollback_snapshot: to a snapshot that has been active. *)
Rollback(expected, s, required, actor) ==
  /\ Len(history) < MaxMoves
  /\ Current(expected)
  /\ pointer # NoPointer
  /\ Ready(s, required)
  /\ WasActive(s)
  /\ Point(s, "rollback", actor)

Operate(o) ==
  \/ ReadPointer(o)
  \/ \E s \in Snapshot, p \in Profile : Import(s, p) \/ Rollback(seen[o], s, p, o)
  \/ \E s \in Snapshot, p \in Profile \cup {None} : Activate(seen[o], s, p, o)

CatalogNext == \E o \in Reader : Operate(o)

CatalogSpec == CatalogInit /\ [][CatalogNext]_catalogVars

-----------------------------------------------------------------------------
(* Properties *)

(* Every row keeps the types the schema gives it.                           *)
CatalogTypeOK ==
  /\ snapshots \in [Snapshot -> {"absent", "validated", "active"}]
  /\ imports \in [Snapshot -> SUBSET Profile]
  /\ pointer \in Pointer
  /\ history \in Seq(Event)
  /\ seen \in [Reader -> Pointer]

(* The pointer, the statuses and the history tell the same story: what      *)
(* _active_snapshot checks on every read, and the partial unique index on   *)
(* active snapshots, never fail.  What is active can be served.             *)
PointerIsLastMove ==
  /\ pointer.revision = Len(history)
  /\ pointer.snapshot = IF history = <<>> THEN None ELSE history[Len(history)].target
  /\ \A s \in Snapshot : (snapshots[s] = "active") <=> (s = pointer.snapshot)
  /\ \A s \in Snapshot : snapshots[s] # "absent" <=> imports[s] # {}

(* The history is a chain: each event starts from where the one before it   *)
(* led, moves somewhere else, and a rollback returns to a former target.    *)
HistoryIsAChain ==
  \A n \in DOMAIN history :
    /\ history[n].previous = IF n = 1 THEN None ELSE history[n - 1].target
    /\ history[n].target # history[n].previous
    /\ (history[n].operation = "initial_activate") <=> (n = 1)
    /\ history[n].operation = "rollback" =>
         \E m \in 1..(n - 1) : history[m].target = history[n].target

(* The inductive invariant of the catalog.                                  *)
CatalogInv == CatalogTypeOK /\ PointerIsLastMove /\ HistoryIsAChain

(* Nobody moves the pointer on a view that is out of date, not even when    *)
(* the snapshot it saw has become active again in the meantime.             *)
NoStaleMove ==
  [][history' # history => seen[history'[Len(history')].actor].revision = Len(history)
    ]_catalogVars
=============================================================================
