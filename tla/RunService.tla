----------------------------- MODULE RunService -----------------------------
(***************************************************************************)
(* The durable runs of legal_rag/services/run_service.py: sessions and     *)
(* their messages, runs, budget ledgers, external attempts, trusted        *)
(* checkpoints, events and idempotency keys, with one action for each      *)
(* transaction of class RunService that changes a row.  A call that        *)
(* raises rolls back and is no step; neither is one that finds its work    *)
(* done (a replayed key, a repeated cancellation, resume or publication).  *)
(*                                                                         *)
(* Callers are the most general ones: a worker may present any lease it    *)
(* was ever granted, at any time.  Every transaction holds the lock of the *)
(* run row when it decides, so that the comparison of `revision` and       *)
(* `event_sequence` in _transition_with_event never fails and is left out; *)
(* event_sequence is the length of the event log.  Where locks are taken   *)
(* in another order (attempt before run) PostgreSQL may abort one side,    *)
(* which is no step either.                                                *)
(*                                                                         *)
(* Left out as data: the frozen boundary (create_run rejects or keeps it), *)
(* payloads and hashes, error codes and stop reasons, and identity checks  *)
(* between a checkpoint and its run, whose failure is no step.             *)
(***************************************************************************)
EXTENDS Integers, Sequences, FiniteSets

CONSTANTS
  Run,            (* Run identifiers.                                      *)
  Session,        (* Active sessions; nothing ever closes one.             *)
  Key,            (* Idempotency keys.                                     *)
  Body,           (* Canonical request payloads.                           *)
  Worker,         (* Supervisor identities (worker_id).                    *)
  Operation,      (* Operation keys of external attempts.                  *)
  KindOf,         (* The operation kind of each.                           *)
  CheckpointId,   (* Checkpoint identifiers within one lease namespace.    *)
  GraphState,     (* Projected harness states.                             *)
  Artifact,       (* Node artifacts.                                       *)
  None,           (* SQL NULL.                                             *)
  MaxUsed,        (* max_{tool,model,embedding}_attempts, by kind.         *)
  MaxRetry,       (* max_retry_per_operation.                              *)
  MaxRounds,      (* max_retrieval_rounds.                                 *)
  MaxQueries,     (* max_queries_per_round.                                *)
  LeaseTicks,     (* Clock ticks a lease lasts (lease_seconds).            *)
  MaxEpoch,       (* Bound of the model: claims of one run.                *)
  MaxStageEvents  (* Bound of the model: stage events of one run.          *)

OperationKind == {"model", "tool", "embedding"}

ASSUME KindsOfOperations == KindOf \in [Operation -> OperationKind]
ASSUME NullIsNoRow == None \notin Run \cup Session \cup Worker
ASSUME RunLimits ==
  /\ MaxUsed \in [OperationKind -> Nat]
  /\ MaxRetry \in Nat
  /\ MaxRounds \in Nat \ {0}
  /\ MaxQueries \in Nat \ {0}
  /\ LeaseTicks \in Nat \ {0}
  /\ MaxEpoch \in Nat
  /\ MaxStageEvents \in Nat

VARIABLES
  runs,         (* runs[r]: the row of run r, status "absent" before it.   *)
  ledger,       (* ledger[r]: its budget counters.                         *)
  attempts,     (* attempts[r]: its external attempts, oldest first.       *)
  checkpoints,  (* checkpoints[r]: its application checkpoints.            *)
  artifacts,    (* artifacts[r]: its node artifacts.                       *)
  events,       (* events[r]: its event log, in sequence order.            *)
  messages,     (* messages[s]: the messages of session s by ordinal.      *)
  keys,         (* keys[s][k]: the idempotency row.                        *)
  leases        (* leases[r][e]: the worker lease epoch e was granted to.  *)

runVars == <<runs, ledger, attempts, checkpoints, artifacts, events, messages,
             keys, leases>>

Active == {"queued", "running", "interrupted"}
Answered == {"succeeded", "completed_with_limits", "needs_clarification"}
Terminal == Answered \cup {"failed", "cancelled"}
RunStatus == {"absent"} \cup Active \cup Terminal

AttemptStatus == {"reserved", "dispatched", "succeeded", "failed",
                  "outcome_unknown", "abandoned_before_dispatch"}

(* The lifecycle events and the status they announce; "stage" stands for    *)
(* the three stage events.                                                  *)
Announced ==
  [t \in {"run.queued", "run.started", "run.resumed", "run.interrupted",
          "run.resume_requested", "run.failed", "run.cancelled", "answer.final",
          "run.completed_with_limits", "run.needs_clarification"} |->
     CASE t = "run.queued" -> "queued"
       [] t \in {"run.started", "run.resumed"} -> "running"
       [] t \in {"run.interrupted", "run.resume_requested"} -> "interrupted"
       [] t = "run.failed" -> "failed"
       [] t = "run.cancelled" -> "cancelled"
       [] t = "answer.final" -> "succeeded"
       [] t = "run.completed_with_limits" -> "completed_with_limits"
       [] t = "run.needs_clarification" -> "needs_clarification"]

Event == DOMAIN Announced \cup {"stage", "attempt.outcome_unknown"}

-----------------------------------------------------------------------------
(* Rows *)

NoRun == [status |-> "absent", session |-> None, parent |-> None, body |-> None,
          owner |-> None, lease |-> 0, epoch |-> 0, deadline |-> "unset",
          resume |-> FALSE, trusted |-> None]

NoSpending == [rounds |-> 0, queries |-> 0, used |-> [k \in OperationKind |-> 0]]

NoKey == [run |-> None, hash |-> None, live |-> FALSE]

CheckpointKey == (1..MaxEpoch) \X CheckpointId

RunInit ==
  /\ runs = [r \in Run |-> NoRun]
  /\ ledger = [r \in Run |-> NoSpending]
  /\ attempts = [r \in Run |-> <<>>]
  /\ checkpoints = [r \in Run |-> [c \in CheckpointKey |-> None]]
  /\ artifacts = [r \in Run |-> {}]
  /\ events = [r \in Run |-> <<>>]
  /\ messages = [s \in Session |-> <<>>]
  /\ keys = [s \in Session |-> [k \in Key |-> NoKey]]
  /\ leases = [r \in Run |-> <<>>]

-----------------------------------------------------------------------------
(* Reading the tables *)

Attempts(r, S) == {n \in DOMAIN attempts[r] : attempts[r][n].status \in S}
AttemptsOf(r, op) == {n \in DOMAIN attempts[r] : attempts[r][n].operation = op}
Occurrences(r, S) == {n \in DOMAIN events[r] : events[r][n] \in S}

(* Mutant: an interrupted run is not in the way. *)
ActiveIn_Claimable(s) ==
  {r \in Run : runs[r].session = s /\ runs[r].status \in {"queued", "running"}}

ActiveIn(s) == {r \in Run : runs[r].session = s /\ runs[r].status \in Active}

(* Mutant: the epoch is not compared. *)
WorkerLease_AnyEpoch(r, w, e) ==
  runs[r].status = "running" /\ runs[r].owner = w /\ runs[r].lease > 0

(* _assert_worker_lease *)
WorkerLease(r, w, e) ==
  /\ runs[r].status = "running"
  /\ runs[r].owner = w
  /\ runs[r].epoch = e
  /\ runs[r].lease > 0

(* _assert_execution_deadline *)
BeforeDeadline(r) == runs[r].deadline = "ahead"

(* _assert_epoch_or_published_terminal: a result exists exactly for the     *)
(* answer-bearing statuses.                                                 *)
LeaseOrPublished(r, w, e) ==
  \/ runs[r].status \in Answered /\ runs[r].epoch = e
  \/ WorkerLease(r, w, e)

(* _transition_with_event: the row and the events, in one transaction. *)
Transition(r, row, types) ==
  /\ runs' = [runs EXCEPT ![r] = row]
  /\ events' = [events EXCEPT ![r] = @ \o types]

(* Mutant: the owner stays. *)
Released_KeepsOwner(r, status) == [runs[r] EXCEPT !.status = status, !.lease = 0]

(* The row when the run ends or is taken from its worker. *)
Released(r, status) ==
  [runs[r] EXCEPT !.status = status, !.owner = None, !.lease = 0]

(* _completed_history: what a run is told of its session, by ordinal: the   *)
(* turns that were answered before its question.                            *)
History(r) ==
  LET said == messages[runs[r].session]
      asked == CHOOSE n \in DOMAIN said : said[n] = [run |-> r, role |-> "user"]
  IN [n \in {m \in 1..(asked - 1) : runs[said[m].run].status \in Answered} |-> said[n]]

-----------------------------------------------------------------------------
(* The owner's calls *)

(* Mutant: the parent is not part of the hash. *)
RequestHash_NoParent(body, parent) == <<body, None>>

RequestHash(body, parent) == <<body, parent>>

(* A live key with the same hash replays its run, with another it refuses. *)
Replayed(s, k, body, parent) ==
  keys[s][k].live /\ keys[s][k].hash = RequestHash(body, parent)

(* create_run, under the lock of the session row.  An expired key is        *)
(* deleted and bound again.                                                 *)
CreateRun(r, s, k, body, parent) ==
  /\ runs[r].status = "absent"
  /\ ~keys[s][k].live
  /\ parent # None => runs[parent].session = s /\ runs[parent].status \in Answered
  /\ ActiveIn(s) = {}
  /\ Transition(r, [NoRun EXCEPT !.status = "queued", !.session = s,
                                 !.parent = parent, !.body = body], <<"run.queued">>)
  /\ messages' = [messages EXCEPT ![s] = Append(@, [run |-> r, role |-> "user"])]
  /\ keys' = [keys EXCEPT ![s][k] =
                [run |-> r, hash |-> RequestHash(body, parent), live |-> TRUE]]
  /\ UNCHANGED <<ledger, attempts, checkpoints, artifacts, leases>>

Cancellable(r) == runs[r].status \in Active

(* cancel_run.  Attempts in flight stay as they are. *)
CancelRun(r) ==
  /\ Cancellable(r)
  /\ Transition(r, Released(r, "cancelled"), <<"run.cancelled">>)
  /\ UNCHANGED <<ledger, attempts, checkpoints, artifacts, messages, keys, leases>>

(* resume_run: the trusted checkpoint is validated first, and kept. *)
ResumeRun(r) ==
  /\ runs[r].status = "interrupted"
  /\ runs[r].trusted # None => checkpoints[r][runs[r].trusted] # None
  /\ ~runs[r].resume
  /\ Transition(r, [runs[r] EXCEPT !.resume = TRUE], <<"run.resume_requested">>)
  /\ UNCHANGED <<ledger, attempts, checkpoints, artifacts, messages, keys, leases>>

-----------------------------------------------------------------------------
(* The supervisor's calls *)

(* The first claim sets the deadline, a later one keeps it. *)
Deadline(r) == IF runs[r].deadline = "unset" THEN "ahead" ELSE runs[r].deadline

Claimable(r) ==
  \/ runs[r].status = "queued"
  \/ runs[r].status = "interrupted" /\ runs[r].resume

(* claim_next_run.  Rows that another transaction has locked are skipped,   *)
(* so any claimable run may be the one.                                     *)
ClaimNextRun(r, w) ==
  /\ Claimable(r)
  /\ runs[r].epoch < MaxEpoch
  /\ Transition(r, [runs[r] EXCEPT !.status = "running", !.owner = w,
                      !.lease = LeaseTicks, !.epoch = @ + 1, !.resume = FALSE,
                      !.deadline = Deadline(r)],
                <<IF runs[r].status = "queued" THEN "run.started" ELSE "run.resumed">>)
  /\ leases' = [leases EXCEPT ![r] = Append(@, w)]
  /\ UNCHANGED <<ledger, attempts, checkpoints, artifacts, messages, keys>>

(* The result of attempt n is no newer than the trusted checkpoint. *)
Durable(r, n) ==
  /\ runs[r].trusted # None
  /\ n \in checkpoints[r][runs[r].trusted].after

(* Mutant: a success is taken for durable. *)
Reconciled_Trusting(r, n) ==
  LET attempt == attempts[r][n] IN
  IF attempt.epoch # runs[r].epoch THEN attempt.status
  ELSE CASE attempt.status = "reserved" -> "abandoned_before_dispatch"
         [] attempt.status = "dispatched" -> "outcome_unknown"
         [] OTHER -> attempt.status

(* What recover_stale_runs makes of an attempt of the expired lease. *)
Reconciled(r, n) ==
  LET attempt == attempts[r][n] IN
  IF attempt.epoch # runs[r].epoch THEN attempt.status
  ELSE CASE attempt.status = "reserved" -> "abandoned_before_dispatch"
         [] attempt.status = "dispatched" -> "outcome_unknown"
         [] attempt.status = "succeeded" /\ KindOf[attempt.operation] = "model"
              /\ ~Durable(r, n) -> "outcome_unknown"
         [] OTHER -> attempt.status

(* Mutant: only for those in flight. *)
NewlyUnknown_InFlight(r) ==
  {n \in Attempts(r, {"dispatched"}) : Reconciled(r, n) = "outcome_unknown"}

(* One event for each attempt whose outcome becomes unknown. *)
NewlyUnknown(r) ==
  {n \in DOMAIN attempts[r] :
     attempts[r][n].status # "outcome_unknown" /\ Reconciled(r, n) = "outcome_unknown"}

Stale == {r \in Run : runs[r].status = "running" /\ runs[r].lease = 0}

(* recover_stale_runs: a batch of expired runs in one transaction. *)
RecoverStaleRuns(batch) ==
  /\ batch # {}
  /\ batch \subseteq Stale
  /\ attempts' = [r \in Run |->
       IF r \in batch
       THEN [n \in DOMAIN attempts[r] |->
               [attempts[r][n] EXCEPT !.status = Reconciled(r, n)]]
       ELSE attempts[r]]
  /\ runs' = [r \in Run |->
       IF r \in batch THEN Released(r, "interrupted") ELSE runs[r]]
  /\ events' = [r \in Run |->
       IF r \in batch
       THEN events[r] \o [n \in 1..Cardinality(NewlyUnknown(r)) |-> "attempt.outcome_unknown"]
                      \o <<"run.interrupted">>
       ELSE events[r]]
  /\ UNCHANGED <<ledger, checkpoints, artifacts, messages, keys, leases>>

(* heartbeat_run *)
HeartbeatRun(r, w, e) ==
  /\ WorkerLease(r, w, e)
  /\ runs' = [runs EXCEPT ![r].lease = LeaseTicks]
  /\ UNCHANGED <<ledger, attempts, checkpoints, artifacts, events, messages, keys, leases>>

(* fail_run *)
FailRun(r, w, e) ==
  /\ WorkerLease(r, w, e)
  /\ Transition(r, Released(r, "failed"), <<"run.failed">>)
  /\ UNCHANGED <<ledger, attempts, checkpoints, artifacts, messages, keys, leases>>

-----------------------------------------------------------------------------
(* The harness's calls *)

(* begin_retrieval_round *)
BeginRetrievalRound(r, w, e, queries) ==
  /\ WorkerLease(r, w, e)
  /\ BeforeDeadline(r)
  /\ queries \in 1..MaxQueries
  /\ ledger[r].rounds < MaxRounds
  /\ ledger[r].queries + queries <= MaxRounds * MaxQueries
  /\ ledger' = [ledger EXCEPT ![r].rounds = @ + 1, ![r].queries = @ + queries]
  /\ UNCHANGED <<runs, attempts, checkpoints, artifacts, events, messages, keys, leases>>

(* Mutant: the total is not compared. *)
WithinBudget_RetriesOnly(r, op) == Cardinality(AttemptsOf(r, op)) <= MaxRetry

(* Both limits of reserve_attempt: of this operation and of its kind. *)
WithinBudget(r, op) ==
  /\ Cardinality(AttemptsOf(r, op)) <= MaxRetry
  /\ ledger[r].used[KindOf[op]] < MaxUsed[KindOf[op]]

(* reserve_attempt: attempt_no is one more than that of the last attempt    *)
(* with this operation key, so the number of attempts made.                 *)
ReserveAttempt(r, w, e, op) ==
  /\ WorkerLease(r, w, e)
  /\ BeforeDeadline(r)
  /\ WithinBudget(r, op)
  /\ ledger' = [ledger EXCEPT ![r].used[KindOf[op]] = @ + 1]
  /\ attempts' = [attempts EXCEPT ![r] = Append(@,
       [operation |-> op, epoch |-> e, status |-> "reserved"])]
  /\ UNCHANGED <<runs, checkpoints, artifacts, events, messages, keys, leases>>

SetAttempt(r, n, status) ==
  attempts' = [attempts EXCEPT ![r][n].status = status]

(* mark_attempt_dispatched *)
MarkAttemptDispatched(r, n, w, e) ==
  /\ n \in DOMAIN attempts[r]
  /\ WorkerLease(r, w, e)
  /\ BeforeDeadline(r)
  /\ attempts[r][n].epoch = e
  /\ attempts[r][n].status = "reserved"
  /\ SetAttempt(r, n, "dispatched")
  /\ UNCHANGED <<runs, ledger, checkpoints, artifacts, events, messages, keys, leases>>

(* Mutant: a late answer replaces an unknown outcome. *)
InFlight_OrUnknown(r, n, e) ==
  attempts[r][n].epoch = e /\ attempts[r][n].status \in {"dispatched", "outcome_unknown"}

InFlight(r, n, e) == attempts[r][n].epoch = e /\ attempts[r][n].status = "dispatched"

(* finish_attempt.  An unknown outcome is told in an event. *)
FinishAttempt(r, n, w, e, status) ==
  /\ n \in DOMAIN attempts[r]
  /\ WorkerLease(r, w, e)
  /\ InFlight(r, n, e)
  /\ SetAttempt(r, n, status)
  /\ events' = IF status = "outcome_unknown"
               THEN [events EXCEPT ![r] = Append(@, "attempt.outcome_unknown")]
               ELSE events
  /\ UNCHANGED <<runs, ledger, checkpoints, artifacts, messages, keys, leases>>

(* save_node_artifact *)
SaveNodeArtifact(r, w, e, a) ==
  /\ WorkerLease(r, w, e)
  /\ artifacts' = [artifacts EXCEPT ![r] = @ \cup {a}]
  /\ UNCHANGED <<runs, ledger, attempts, checkpoints, events, messages, keys, leases>>

(* The successes completed strictly before now: the clock may be too coarse *)
(* to tell the last one apart, whichever that is.                           *)
CompletedBefore(r) ==
  LET done == Attempts(r, {"succeeded"}) IN {done} \cup {done \ {n} : n \in done}

(* bind_checkpoint: a new row, or one that holds this state already; the    *)
(* run row then points to it.  checkpoint_namespace contains the epoch.     *)
BindCheckpoint(r, w, e, id, state) ==
  /\ LeaseOrPublished(r, w, e)
  /\ \/ /\ checkpoints[r][<<e, id>>] = None
        /\ \E after \in CompletedBefore(r) :
             checkpoints' = [checkpoints EXCEPT ![r][<<e, id>>] =
                               [state |-> state, after |-> after]]
     \/ /\ checkpoints[r][<<e, id>>] # None
        /\ checkpoints[r][<<e, id>>].state = state
        /\ UNCHANGED checkpoints
  /\ runs' = [runs EXCEPT ![r].trusted = <<e, id>>]
  /\ UNCHANGED <<ledger, attempts, artifacts, events, messages, keys, leases>>

(* append_stage_event *)
AppendStageEvent(r, w, e) ==
  /\ WorkerLease(r, w, e)
  /\ Cardinality(Occurrences(r, {"stage"})) < MaxStageEvents
  /\ events' = [events EXCEPT ![r] = Append(@, "stage")]
  /\ UNCHANGED <<runs, ledger, attempts, checkpoints, artifacts, messages, keys, leases>>

FinalEvent(status) ==
  CHOOSE t \in {"answer.final", "run.completed_with_limits", "run.needs_clarification"} :
    Announced[t] = status

(* _publish_terminal_result: message, result, event and status together.    *)
PublishTerminalResult(r, w, e, status) ==
  /\ WorkerLease(r, w, e)
  /\ messages' = [messages EXCEPT ![runs[r].session] =
                    Append(@, [run |-> r, role |-> "assistant"])]
  /\ Transition(r, Released(r, status), <<FinalEvent(status)>>)
  /\ UNCHANGED <<ledger, attempts, checkpoints, artifacts, keys, leases>>

-----------------------------------------------------------------------------
(* The clock *)

Tick(r) ==
  /\ runs[r].lease > 0
  /\ runs' = [runs EXCEPT ![r].lease = @ - 1]
  /\ UNCHANGED <<ledger, attempts, checkpoints, artifacts, events, messages, keys, leases>>

PassDeadline(r) ==
  /\ runs[r].deadline = "ahead"
  /\ runs' = [runs EXCEPT ![r].deadline = "passed"]
  /\ UNCHANGED <<ledger, attempts, checkpoints, artifacts, events, messages, keys, leases>>

ExpireKey(s, k) ==
  /\ keys[s][k].live
  /\ keys' = [keys EXCEPT ![s][k].live = FALSE]
  /\ UNCHANGED <<runs, ledger, attempts, checkpoints, artifacts, events, messages, leases>>

-----------------------------------------------------------------------------
Own(r) ==
  \/ \E s \in Session, k \in Key, body \in Body, parent \in Run \cup {None} :
       CreateRun(r, s, k, body, parent)
  \/ CancelRun(r)
  \/ ResumeRun(r)

Clock ==
  \/ \E r \in Run : Tick(r) \/ PassDeadline(r)
  \/ \E s \in Session, k \in Key : ExpireKey(s, k)

(* What the harness writes itself. *)
Work(r, w, e) ==
  \/ \E queries \in 1..MaxQueries : BeginRetrievalRound(r, w, e, queries)
  \/ \E op \in Operation : ReserveAttempt(r, w, e, op)
  \/ \E n \in DOMAIN attempts[r] :
       \/ MarkAttemptDispatched(r, n, w, e)
       \/ \E status \in {"succeeded", "failed", "outcome_unknown"} :
            FinishAttempt(r, n, w, e, status)
  \/ \E a \in Artifact : SaveNodeArtifact(r, w, e, a)
  \/ \E id \in CheckpointId, state \in GraphState : BindCheckpoint(r, w, e, id, state)
  \/ \E status \in Answered : PublishTerminalResult(r, w, e, status)

(* The calls of a worker that presents a lease it was granted. *)
Leased(r, w, e) ==
  \/ HeartbeatRun(r, w, e)
  \/ FailRun(r, w, e)
  \/ AppendStageEvent(r, w, e)
  \/ Work(r, w, e)

Serve ==
  \/ \E r \in Run, w \in Worker : ClaimNextRun(r, w)
  \/ \E batch \in SUBSET Stale : RecoverStaleRuns(batch)
  \/ \E r \in Run : \E e \in DOMAIN leases[r] : Leased(r, leases[r][e], e)

RunNext == (\E r \in Run : Own(r)) \/ Serve \/ Clock

RunSpec == RunInit /\ [][RunNext]_runVars

-----------------------------------------------------------------------------
(* Properties *)

RunRow == [status: RunStatus, session: Session \cup {None}, parent: Run \cup {None},
           body: Body \cup {None}, owner: Worker \cup {None}, lease: Nat, epoch: Nat,
           deadline: {"unset", "ahead", "passed"}, resume: BOOLEAN,
           trusted: CheckpointKey \cup {None}]

AttemptRow == [operation: Operation, epoch: Nat, status: AttemptStatus]
CheckpointRow == [state: GraphState, after: SUBSET Nat]
Spending == [rounds: Nat, queries: Nat, used: [OperationKind -> Nat]]

ASSUME NullIsNoCheckpoint == None \notin CheckpointKey /\ None \notin CheckpointRow

Message == [run: Run, role: {"user", "assistant"}]
KeyRow == [run: Run \cup {None}, hash: (Body \X (Run \cup {None})) \cup {None},
           live: BOOLEAN]

(* Every row keeps the types the schema gives it, and what no constraint of *)
(* the schema says: a run has an owner, and a lease, only while it runs;    *)
(* each claim is one epoch, and only a claimed run has a deadline.          *)
RunTypeOK ==
  /\ runs \in [Run -> RunRow]
  /\ ledger \in [Run -> Spending]
  /\ attempts \in [Run -> Seq(AttemptRow)]
  /\ checkpoints \in [Run -> [CheckpointKey -> CheckpointRow \cup {None}]]
  /\ artifacts \in [Run -> SUBSET Artifact]
  /\ events \in [Run -> Seq(Event)]
  /\ messages \in [Session -> Seq(Message)]
  /\ keys \in [Session -> [Key -> KeyRow]]
  /\ leases \in [Run -> Seq(Worker)]
  /\ \A r \in Run :
       /\ runs[r].owner # None <=> runs[r].status = "running"
       /\ runs[r].lease > 0 => runs[r].status = "running"
       /\ runs[r].epoch = Len(leases[r])
       /\ runs[r].deadline = "unset" <=> runs[r].epoch = 0

(* A session is one conversation.  One of its runs is active at most,       *)
(* interrupted ones included; a run has one question, and one answer        *)
(* exactly if its status bears one; the answer stands next to the question, *)
(* so that no completed turn is split when it is read as history by ordinal.*)
OneConversation ==
  /\ \A r, q \in Run :
       runs[r].status \in Active /\ runs[q].status \in Active
         /\ runs[r].session = runs[q].session => r = q
  /\ \A s \in Session : messages[s] # <<>> =>
       \A r \in Run :
         LET Said(role) == {n \in DOMAIN messages[s] : messages[s][n] = [run |-> r, role |-> role]} IN
         /\ Cardinality(Said("user")) = IF runs[r].session = s THEN 1 ELSE 0
         /\ Said("assistant") =
              IF runs[r].session = s /\ runs[r].status \in Answered
              THEN {n + 1 : n \in Said("user")} ELSE {}
  /\ \A r \in Run : runs[r].status # "absent" => messages[runs[r].session] # <<>>

(* A key in use is replayed for the request it was bound to, its lineage    *)
(* included, and in its own session.                                        *)
ReplayIsTheSameRequest ==
  \A s \in Session, k \in Key : keys[s][k].live =>
    LET run == runs[keys[s][k].run] IN
    /\ run.session = s
    /\ \A body \in Body, parent \in Run \cup {None} :
         Replayed(s, k, body, parent) => run.body = body /\ run.parent = parent

(* The event log tells the state: the last lifecycle event announces the    *)
(* status, an end is told last and once, a pending resume is told, and so   *)
(* is every attempt whose outcome is unknown.                               *)
EventsTellTheState ==
  \A r \in Run :
    LET life == Occurrences(r, DOMAIN Announced)
        last == CHOOSE n \in life : (n + 1 .. Len(events[r])) \cap life = {}
    IN
    /\ runs[r].status = IF life = {} THEN "absent" ELSE Announced[events[r][last]]
    /\ runs[r].status = "interrupted" =>
         (runs[r].resume <=> events[r][last] = "run.resume_requested")
    /\ \A n \in life : Announced[events[r][n]] \in Terminal => n = Len(events[r])
    /\ Cardinality(Attempts(r, {"outcome_unknown"}))
         = Cardinality(Occurrences(r, {"attempt.outcome_unknown"}))

(* Every reservation is paid for and none is refunded: the ledger counts    *)
(* the journal, and neither limit is exceeded.                              *)
LedgerMatchesJournal ==
  \A r \in Run :
    /\ \A k \in OperationKind :
         LET spent == {n \in DOMAIN attempts[r] : KindOf[attempts[r][n].operation] = k} IN
         ledger[r].used[k] = Cardinality(spent) /\ Cardinality(spent) <= MaxUsed[k]
    /\ \A op \in Operation : Cardinality(AttemptsOf(r, op)) <= MaxRetry + 1
    /\ ledger[r].rounds <= MaxRounds
    /\ ledger[r].queries \in ledger[r].rounds..(ledger[r].rounds * MaxQueries)

(* Recovery forgets nothing: between two leases no attempt is in flight,    *)
(* and a model result the trusted checkpoint may lack is not a success.     *)
(* Recovery looks at the last lease only, so that under a lease no attempt  *)
(* of an older one may be in flight either.                                 *)
NothingForgotten ==
  \A r \in Run :
    /\ \A n \in Attempts(r, {"reserved", "dispatched"}) :
         /\ attempts[r][n].epoch = runs[r].epoch
         /\ runs[r].status \notin {"queued", "interrupted"}
    /\ runs[r].status = "interrupted" =>
         \A n \in Attempts(r, {"succeeded"}) :
           attempts[r][n].epoch = runs[r].epoch
             /\ KindOf[attempts[r][n].operation] = "model" => Durable(r, n)

(* The journal of a run, its ledger and its checkpoints tell one story,     *)
(* before and after every recovery.                                         *)
JournalIsComplete == LedgerMatchesJournal /\ NothingForgotten

(* A run resumes from a checkpoint that exists and that the latest lease to *)
(* bind one has bound: a worker that lost its lease leaves no trace.        *)
TrustedIsNewest ==
  \A r \in Run :
    LET bound == {c \in CheckpointKey : checkpoints[r][c] # None} IN
    IF runs[r].trusted = None THEN bound = {}
    ELSE /\ runs[r].trusted \in bound
         /\ runs[r].trusted[1] <= runs[r].epoch
         /\ \A c \in bound : c[1] <= runs[r].trusted[1]

(* An attempt only moves forward: no answer replaces an unknown outcome,    *)
(* and a success is withdrawn only when the worker that saw it is gone.     *)
Forward ==
  \A r \in Run : \A n \in DOMAIN attempts[r] :
    LET old == attempts[r][n].status
        new == attempts'[r][n].status
    IN
    \/ new = old
    \/ old = "reserved" /\ new \in {"dispatched", "abandoned_before_dispatch"}
    \/ old = "dispatched" /\ new \in {"succeeded", "failed", "outcome_unknown"}
    \/ old = "succeeded" /\ new = "outcome_unknown" /\ runs'[r].status = "interrupted"

(* Status, events, attempts, spending and artifacts of a finished run never *)
(* change; only its last checkpoint may still come.                         *)
EndsStay ==
  \A r \in Run : runs[r].status \in Terminal =>
    /\ runs'[r].status = runs[r].status
    /\ events'[r] = events[r]
    /\ attempts'[r] = attempts[r]
    /\ ledger'[r] = ledger[r]
    /\ artifacts'[r] = artifacts[r]

(* No resume moves a deadline, and once it has passed nothing more is       *)
(* reserved or dispatched, by any worker.                                   *)
DeadlinesStay ==
  \A r \in Run : runs[r].deadline = "passed" =>
    /\ runs'[r].deadline = "passed"
    /\ Len(attempts'[r]) = Len(attempts[r])
    /\ \A n \in DOMAIN attempts[r] :
         attempts'[r][n].status = "dispatched" => attempts[r][n].status = "dispatched"

(* Every lease of a run is told the same history.                           *)
HistoryStays ==
  \A r \in Run : runs[r].status # "absent" => History(r)' = History(r)

(* Nothing is undone, whoever calls with whatever lease: attempts only move *)
(* forward, an end is final, a deadline is absolute, and a resumed run      *)
(* reads the history it was asked with.                                     *)
NothingIsUndone == [][Forward /\ EndsStay /\ DeadlinesStay /\ HistoryStays]_runVars
=============================================================================
