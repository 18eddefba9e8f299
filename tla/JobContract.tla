---------------------------- MODULE JobContract ----------------------------
(***************************************************************************)
(* What the job system promises for a batch job, with no tables, leases    *)
(* or messages: a job waits, is active in numbered turns, and ends once.   *)
(* Each item is credited at most once, forever, and only in the current    *)
(* turn; success needs every declared item and no accepted cancellation.   *)
(***************************************************************************)
EXTENDS Integers, FiniteSets

CONSTANTS Job, Item, Ref, Total

VARIABLES
  phase,    (* phase[j]: none, waiting, active or one of the three ends.   *)
  size,     (* size[j]: the number of items the job declares.              *)
  turn,     (* turn[j]: how often the job was taken up.                    *)
  asked,    (* asked[j]: its cancellation was accepted.                    *)
  credit    (* credit[j][i]: the results credited to item i, each with the *)
            (* turn that made it.                                          *)

vars == <<phase, size, turn, asked, credit>>

Init ==
  /\ phase = [j \in Job |-> "none"]
  /\ size = [j \in Job |-> 0]
  /\ turn = [j \in Job |-> 0]
  /\ asked = [j \in Job |-> FALSE]
  /\ credit = [j \in Job |-> [i \in Item |-> {}]]

Credited(j) == {i \in Item : credit[j][i] # {}}

Move(j, p) == phase' = [phase EXCEPT ![j] = p]

Give(j, i, r) ==
  /\ credit[j][i] = {}
  /\ credit' = [credit EXCEPT ![j] =
                  [@ EXCEPT ![i] = {[ref |-> r, turn |-> turn[j]]}]]

Submit(j, total) ==
  /\ phase[j] = "none"
  /\ Move(j, "waiting")
  /\ size' = [size EXCEPT ![j] = total]
  /\ UNCHANGED <<turn, asked, credit>>

TakeTurn(j) ==
  /\ phase[j] \in {"waiting", "active"}
  /\ Move(j, "active")
  /\ turn' = [turn EXCEPT ![j] = @ + 1]
  /\ UNCHANGED <<size, asked, credit>>

(* Some active jobs lose their turn at once and wait to be taken up again. *)
GiveUp(batch) ==
  /\ \A j \in batch : phase[j] = "active"
  /\ phase' = [j \in Job |-> IF j \in batch THEN "waiting" ELSE phase[j]]
  /\ UNCHANGED <<size, turn, asked, credit>>

Declare(j, total) ==
  /\ phase[j] = "active"
  /\ size[j] = 0
  /\ size' = [size EXCEPT ![j] = total]
  /\ UNCHANGED <<phase, turn, asked, credit>>

Credit(j, i, r) ==
  /\ phase[j] = "active"
  /\ Cardinality(Credited(j)) < size[j]
  /\ Give(j, i, r)
  /\ UNCHANGED <<phase, size, turn, asked>>

AskCancel(j) ==
  /\ phase[j] \in {"waiting", "active"}
  /\ asked' = [asked EXCEPT ![j] = TRUE]
  /\ Move(j, IF phase[j] = "waiting" THEN "cancelled" ELSE "active")
  /\ UNCHANGED <<size, turn, credit>>

Succeed(j) ==
  /\ phase[j] = "active"
  /\ ~asked[j]
  /\ Cardinality(Credited(j)) = size[j]
  /\ Move(j, "succeeded")
  /\ UNCHANGED <<size, turn, asked, credit>>

(* The last credit and the success are one step. *)
CreditAndSucceed(j, i, r) ==
  /\ phase[j] = "active"
  /\ ~asked[j]
  /\ Cardinality(Credited(j)) = size[j] - 1
  /\ Give(j, i, r)
  /\ Move(j, "succeeded")
  /\ UNCHANGED <<size, turn, asked>>

Stop(j, end) ==
  /\ phase[j] \in {"waiting", "active"}
  /\ end = "cancelled" => asked[j]
  /\ Move(j, end)
  /\ UNCHANGED <<size, turn, asked, credit>>

Next ==
  \/ \E batch \in SUBSET Job : GiveUp(batch)
  \/ \E j \in Job :
       \/ TakeTurn(j) \/ AskCancel(j) \/ Succeed(j)
       \/ \E total \in Total : Submit(j, total) \/ Declare(j, total)
       \/ \E end \in {"failed", "cancelled"} : Stop(j, end)
       \/ \E i \in Item, r \in Ref : Credit(j, i, r) \/ CreditAndSucceed(j, i, r)

Spec == Init /\ [][Next]_vars
=============================================================================
