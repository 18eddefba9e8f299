----------------------------- MODULE RunProgress -----------------------------
(***************************************************************************)
(* What the bounded graph of harness/graph.py promises of one run, however *)
(* often its workers change: its durable progress is one walk through the  *)
(* graph, without a step back or left out; an answer is drafted once; and  *)
(* what is published is that draft, at the end of the walk, or the answer  *)
(* that says that a limit was reached.                                     *)
(***************************************************************************)
EXTENDS Integers

CONSTANTS
  Successors,  (* Successors[n]: the nodes that may follow n.              *)
  MaxRounds,   (* Retrieval rounds of a run.                               *)
  LimitAnswer,       (* The answer that says that a limit was reached.           *)
  None         (* Nothing so far.                                          *)

VARIABLES
  at,      (* The node last completed.                                     *)
  rounds,  (* Retrieval rounds paid for when it was.                       *)
  draft,   (* The verified answer.                                         *)
  answer,  (* The published answer.                                        *)
  closed   (* Nothing will be published any more.                          *)

progress == <<at, rounds, draft, answer, closed>>

Init == at = None /\ rounds = 0 /\ draft = None /\ answer = None /\ ~closed

Walk(node) ==
  /\ ~closed
  /\ node \in Successors[at] \ {"persist_result"}
  /\ at' = node
  /\ IF node = "generate" THEN draft' # None ELSE draft' = draft
  /\ rounds' \in rounds..MaxRounds
  /\ node = "retrieve" /\ at # "route" => rounds' > rounds
  /\ UNCHANGED <<answer, closed>>

Publish ==
  /\ ~closed
  /\ answer' \in (IF at = "verify" THEN {draft, LimitAnswer} ELSE {LimitAnswer})
  /\ closed' = TRUE
  /\ UNCHANGED <<at, rounds, draft>>

Close == ~closed /\ closed' = TRUE /\ UNCHANGED <<at, rounds, draft, answer>>

(* The last checkpoint follows the answer. *)
Finish ==
  /\ closed /\ answer # None /\ answer = draft
  /\ "persist_result" \in Successors[at] /\ at' = "persist_result"
  /\ UNCHANGED <<rounds, draft, answer, closed>>

Next == (\E node \in Successors[at] : Walk(node)) \/ Publish \/ Close \/ Finish

Spec == Init /\ [][Next]_progress
=============================================================================
