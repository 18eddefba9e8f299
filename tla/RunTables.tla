------------------------------ MODULE RunTables ------------------------------
(***************************************************************************)
(* What the tables of migrations 0005 and 0006 ask of the statements of    *)
(* RunService.  A statement they refuse rolls its transaction back, and    *)
(* for recover_stale_runs, which repeats the same batch until it passes,   *)
(* it would do so for ever: the service never writes one.                  *)
(*                                                                         *)
(* The columns that a CHECK ties to the status are followed here, as the   *)
(* set of those that are not NULL.  Timestamps are not compared: recovery  *)
(* reads its cutoff before it locks the rows, but whatever the row records *)
(* was written under a lease that had ended by then.                       *)
(***************************************************************************)
EXTENDS RunService

Result == {"result_ref", "result_hash"}
Reason == {"retryable", "error_code"}
Columns == Result \cup Reason \cup {"provider_request_id", "dispatched_at", "completed_at"}

-----------------------------------------------------------------------------
(* Constraints *)

(* ck_run_external_attempts_lifecycle and _result_pair *)
AttemptAccepted(status, filled) ==
  /\ "result_ref" \in filled <=> status = "succeeded"
  /\ "result_ref" \in filled <=> "result_hash" \in filled
  /\ \A column \in Reason : column \in filled <=>
       status \in {"failed", "outcome_unknown", "abandoned_before_dispatch"}
  /\ "completed_at" \in filled <=> status \notin {"reserved", "dispatched"}
  /\ "dispatched_at" \in filled <=> status \notin {"reserved", "abandoned_before_dispatch"}
  /\ "provider_request_id" \in filled => "dispatched_at" \in filled

(* ck_runs_finished_at *)
RunAccepted(status, finished) == finished <=> status \in Terminal

(* uq_runs_one_active_per_session, ck_runs_parent_not_self and the foreign  *)
(* keys of a run: its session, its parent, its checkpoint.                  *)
RunsAccepted ==
  /\ \A s \in Session : Cardinality(ActiveIn(s)) <= 1
  /\ \A r \in Run : runs[r].status # "absent" =>
       /\ runs[r].session # None
       /\ runs[r].parent # r
       /\ runs[r].parent # None => runs[runs[r].parent].status # "absent"

(* The used counters of run_budget_ledgers lie within their limits. *)
LedgerAccepted(r) ==
  /\ ledger[r].rounds \in 0..MaxRounds
  /\ ledger[r].queries \in 0..(MaxRounds * MaxQueries)
  /\ \A k \in OperationKind : ledger[r].used[k] \in 0..MaxUsed[k]

(* uq_messages_run_role and fk_messages_run_session_owner *)
MessagesAccepted(s) ==
  \A n \in DOMAIN messages[s] :
    /\ runs[messages[s][n].run].session = s
    /\ \A m \in DOMAIN messages[s] : messages[s][m] = messages[s][n] => m = n

(* fk_idempotency_keys_run_session_owner *)
KeysAccepted(s) ==
  \A k \in Key : keys[s][k].run # None => runs[keys[s][k].run].session = s

-----------------------------------------------------------------------------
(* Statements that write those columns *)

(* mark_attempt_dispatched *)
Dispatches(filled) == filled \cup {"provider_request_id", "dispatched_at"}

(* finish_attempt *)
Finishes(filled, status) ==
  (filled \ (Result \cup Reason)) \cup {"completed_at"}
    \cup (IF status = "succeeded" THEN Result ELSE Reason)

(* Mutant: the reference of a result that was not made durable is kept. *)
Recovers_KeepsResult(filled) == filled \cup Reason \cup {"completed_at"}

(* recover_stale_runs *)
Recovers(filled) == (filled \ Result) \cup Reason \cup {"completed_at"}

Recovered(r) == runs[r].status = "running" /\ runs'[r].status = "interrupted"

(* What the step leaves of the columns of attempt n. *)
Written(r, n, filled) ==
  CASE Recovered(r) -> Recovers(filled)
    [] attempts'[r][n].status = "dispatched" -> Dispatches(filled)
    [] OTHER -> Finishes(filled, attempts'[r][n].status)

(* cancel_run, fail_run and _publish_terminal_result write finished_at. *)
Finished(r, finished) == finished \/ runs'[r].status \in Terminal

-----------------------------------------------------------------------------
(* The way back to the tables of migration 0005 *)

M4Status == {"queued", "running", "interrupted", "succeeded", "failed", "cancelled"}
M4Event == {"run.queued", "run.started", "stage", "answer.final", "run.failed",
            "run.cancelled", "run.interrupted"}

(* Mutant: the downgrade does not look at the events. *)
DowngradeRefused_StatusOnly ==
  \E r \in Run : runs[r].status \in {"completed_with_limits", "needs_clarification"}

DowngradeRefused ==
  \E r \in Run :
    \/ runs[r].status \in {"completed_with_limits", "needs_clarification"}
    \/ \E n \in DOMAIN events[r] :
         events[r][n] \in {"run.resume_requested", "run.resumed", "attempt.outcome_unknown",
                           "run.completed_with_limits", "run.needs_clarification"}

(* ck_runs_status, ck_runs_finished_at and ck_run_events_type as they were *)
M4Accepted(r) ==
  /\ runs[r].status \in M4Status \cup {"absent"}
  /\ \A n \in DOMAIN events[r] : events[r][n] \in M4Event

-----------------------------------------------------------------------------
(* Property *)

(* Every row keeps its type and its constraints, and once the downgrade to  *)
(* M4 agrees its narrower constraints hold of every row.                    *)
TablesAccepted ==
  /\ RunTypeOK
  /\ RunsAccepted
  /\ \A r \in Run : LedgerAccepted(r)
  /\ \A s \in Session : MessagesAccepted(s) /\ KeysAccepted(s)
  /\ DowngradeRefused \/ \A r \in Run : M4Accepted(r)

(* Whatever columns the tables accepted before, they accept those after. *)
ColumnsAccepted ==
  \A r \in Run :
    /\ runs'[r].status # runs[r].status =>
         \A finished \in BOOLEAN :
           RunAccepted(runs[r].status, finished)
             => RunAccepted(runs'[r].status, Finished(r, finished))
    /\ \A n \in DOMAIN attempts'[r] :
         IF n \notin DOMAIN attempts[r] THEN AttemptAccepted(attempts'[r][n].status, {})
         ELSE attempts'[r][n].status # attempts[r][n].status =>
           \A filled \in SUBSET Columns :
             AttemptAccepted(attempts[r][n].status, filled)
               => AttemptAccepted(attempts'[r][n].status, Written(r, n, filled))

(* PostgreSQL refuses no statement of the service, in whatever order calls  *)
(* and recovery come: the tables accept the columns it writes and the rows  *)
(* it leaves.                                                               *)
NeverRefused == [][ColumnsAccepted /\ TablesAccepted']_runVars
=============================================================================
