------------------------------ MODULE JobStore ------------------------------
(***************************************************************************)
(* The durable job tables of legal_rag/jobs/store.py: `jobs`, `job_items`  *)
(* and `job_outbox`, with one action for each transaction of class         *)
(* JobStore that changes a row.  A call that returns False or None, or     *)
(* that raises, rolls back and is no step.                                 *)
(*                                                                         *)
(* Callers are the most general ones: any worker may present any lease it  *)
(* was ever granted, at any time, for any item.  JobService.tla restricts  *)
(* them to the real worker and dispatcher loops.                           *)
(*                                                                         *)
(* Time is abstract.  A job lease counts down with the clock and an outbox *)
(* claim is `live` until the environment expires it.  Delays that only     *)
(* postpone a step (next_attempt_at, the redelivery backoff and            *)
(* recovery_queued_at) are left to nondeterminism.                         *)
(***************************************************************************)
EXTENDS Integers, Sequences, FiniteSets

CONSTANTS
  Job,                (* Job row identifiers a run may use.                *)
  Item,               (* Item keys of a job (cases or stages).             *)
  Worker,             (* Worker identities.                                *)
  Dispatcher,         (* Outbox dispatcher identities.                     *)
  Ref,                (* Immutable result references.                      *)
  Request,            (* request_ref and request_hash, taken together.     *)
  Key,                (* (owner_id, idempotency_key) pairs.                *)
  Total,              (* The item totals a request may declare.            *)
  None,               (* SQL NULL.                                         *)
  IngestionStages,    (* len(_INGESTION_STAGES): 6 in the code.            *)
  EvaluationStages,   (* len(_EVALUATION_STAGES): 4 in the code.           *)
  MaxAttempts,        (* max_attempts of claim_item.                       *)
  MaxClaims,          (* max_claims of claim_job.                          *)
  MaxAutoDeliveries,  (* max_auto_deliveries of requeue_expired_jobs.      *)
  LeaseTicks,         (* Clock ticks a job lease lasts (lease_seconds).    *)
  MaxSends            (* Bound of the model: claims of one outbox row.     *)

ASSUME FiniteItems == IsFiniteSet(Item)
ASSUME NullIsFresh == None \notin Worker \cup Dispatcher \cup Ref \cup Key \cup Request
ASSUME TotalsAreCounts == Total \subseteq Nat
ASSUME LimitsArePositive ==
  /\ IngestionStages \in Nat \ {0}
  /\ EvaluationStages \in Nat \ {0}
  /\ MaxAttempts \in Nat \ {0}
  /\ MaxClaims \in Nat \ {0}
  /\ MaxAutoDeliveries \in Nat \ {0}
  /\ LeaseTicks \in Nat \ {0}
  /\ MaxSends \in Nat

VARIABLES
  jobs,     (* jobs[j]: the row of job j.                                  *)
  items,    (* items[j][i]: the row of item i, status "none" before it.    *)
  outbox,   (* outbox[j]: the outbox rows of job j, oldest first.          *)
  grants    (* grants[j][e]: the worker that was granted lease epoch e.    *)

vars == <<jobs, items, outbox, grants>>

Kind == {"evaluation", "ingestion"}
Terminal == {"succeeded", "failed", "cancelled"}
Active == {"queued", "running"}
Status == {"none"} \cup Active \cup Terminal
ItemStatus == {"none", "pending", "running", "succeeded", "failed"}
JobError == {"none", "delivery_unconfirmed", "worker_attempts_exhausted", "other"}

Stages(kind) == IF kind = "ingestion" THEN IngestionStages ELSE EvaluationStages
LastStage(kind) == Stages(kind) - 1

-----------------------------------------------------------------------------
(* Rows *)

NoJob == [status |-> "none", kind |-> "evaluation", key |-> None, request |-> None,
          stage |-> 0, total |-> 0, completed |-> 0, failed |-> 0,
          cancel |-> FALSE, owner |-> None, epoch |-> 0, lease |-> 0,
          claims |-> 0, error |-> "none"]

NoItem == [status |-> "none", attempts |-> 0, limit |-> 0, epoch |-> 0, ref |-> None]

NoLedger == [i \in Item |-> NoItem]

NewRow == [status |-> "pending", owner |-> None, epoch |-> 0, live |-> FALSE]

JobRow == [status: Status, kind: Kind,
           key: Key \cup {None}, request: Request \cup {None},
           stage: Nat, total: Nat, completed: Int, failed: Int,
           cancel: BOOLEAN, owner: Worker \cup {None}, epoch: Nat, lease: Nat,
           claims: Nat, error: JobError]

ItemRow == [status: ItemStatus,
            attempts: Nat, limit: Nat, epoch: Nat, ref: Ref \cup {None}]

OutboxRow == [status: {"pending", "delivered"}, owner: Dispatcher \cup {None},
              epoch: Nat, live: BOOLEAN]

Init ==
  /\ jobs = [j \in Job |-> NoJob]
  /\ items = [j \in Job |-> NoLedger]
  /\ outbox = [j \in Job |-> <<>>]
  /\ grants = [j \in Job |-> <<>>]

-----------------------------------------------------------------------------
(* Reading the tables *)

Exists(j) == jobs[j].status # "none"

ItemsIn(ledger, S) == {i \in Item : ledger[i].status \in S}
HasRow == ItemStatus \ {"none"}
Succeeded(j) == ItemsIn(items[j], {"succeeded"})
Failed(j) == ItemsIn(items[j], {"failed"})
Known(j) == ItemsIn(items[j], HasRow)

Pending(j) == {n \in DOMAIN outbox[j] : outbox[j][n].status = "pending"}

(* The lease a worker presents is one it was granted earlier. *)
Holds(w, j, e) == e \in DOMAIN grants[j] /\ grants[j][e] = w

(* Mutant: the lease epoch is not compared. *)
LockedActive_AnyEpoch(j, w, e) ==
  jobs[j].status = "running" /\ jobs[j].owner = w /\ jobs[j].lease > 0

(* _locked_active_job: the row is running under exactly this unexpired lease. *)
LockedActive(j, w, e) ==
  /\ jobs[j].status = "running"
  /\ jobs[j].owner = w
  /\ jobs[j].epoch = e
  /\ jobs[j].lease > 0

SetJob(j, row) == jobs' = [jobs EXCEPT ![j] = row]
SetItem(j, i, row) == items' = [items EXCEPT ![j] = [@ EXCEPT ![i] = row]]

(* Mutant: the owner is left behind. *)
Closed_KeepsOwner(row, status, error) ==
  [row EXCEPT !.status = status, !.error = error, !.lease = 0]

(* The terminal row: status and error set, lease cleared. *)
Closed(row, status, error) ==
  [row EXCEPT !.status = status, !.error = error, !.owner = None, !.lease = 0]

-----------------------------------------------------------------------------
(* Submission and cancellation *)

(* Mutant: a finished job no longer holds its key. *)
Conflicting_ActiveOnly(kind, k) ==
  {j \in Job : jobs[j].status \in Active /\ k # None /\ jobs[j].kind = kind
               /\ jobs[j].key = k}

(* ON CONFLICT (owner_id, kind, idempotency_key): a NULL key never conflicts. *)
Conflicting(kind, k) ==
  {j \in Job : Exists(j) /\ k # None /\ jobs[j].kind = kind /\ jobs[j].key = k}

(* A conflicting submission returns the existing job or raises: no step. *)
CreateJob(j, kind, k, r, total) ==
  /\ ~Exists(j)
  /\ Conflicting(kind, k) = {}
  /\ SetJob(j, [NoJob EXCEPT !.status = "queued", !.kind = kind, !.key = k,
                             !.request = r, !.total = total])
  /\ outbox' = [outbox EXCEPT ![j] = <<NewRow>>]
  /\ UNCHANGED <<items, grants>>

RequestCancel(j) ==
  /\ jobs[j].status \in Active
  /\ SetJob(j, [jobs[j] EXCEPT
                  !.cancel = TRUE,
                  !.status = IF @ = "queued" THEN "cancelled" ELSE @])
  /\ UNCHANGED <<items, outbox, grants>>

-----------------------------------------------------------------------------
(* The transactional outbox *)

Claimable(j, n) ==
  /\ jobs[j].status \in Active
  /\ outbox[j][n].status = "pending"
  /\ ~outbox[j][n].live
  /\ outbox[j][n].epoch < MaxSends

(* One batch: any rows not locked by another dispatcher, up to `limit`. *)
ClaimOutbox(d, batch) ==
  /\ batch # {}
  /\ \A p \in batch : p[2] \in DOMAIN outbox[p[1]] /\ Claimable(p[1], p[2])
  /\ outbox' = [j \in Job |-> [n \in DOMAIN outbox[j] |->
                  IF <<j, n>> \in batch
                  THEN [outbox[j][n] EXCEPT !.owner = d, !.epoch = @ + 1, !.live = TRUE]
                  ELSE outbox[j][n]]]
  /\ UNCHANGED <<jobs, items, grants>>

OutboxRows == {p \in Job \X (1..MaxAutoDeliveries) : p[2] \in DOMAIN outbox[p[1]]}

(* The claim a dispatcher presents still owns the pending row. *)
OwnsRow(d, j, n, e) ==
  /\ n \in DOMAIN outbox[j]
  /\ outbox[j][n].status = "pending"
  /\ outbox[j][n].owner = d
  /\ outbox[j][n].epoch = e
  /\ outbox[j][n].live

MarkDelivered(d, j, n, e) ==
  /\ OwnsRow(d, j, n, e)
  /\ outbox' = [outbox EXCEPT ![j][n] =
       [@ EXCEPT !.status = "delivered", !.owner = None, !.live = FALSE]]
  /\ UNCHANGED <<jobs, items, grants>>

MarkRetry(d, j, n, e) ==
  /\ OwnsRow(d, j, n, e)
  /\ outbox' = [outbox EXCEPT ![j][n] = [@ EXCEPT !.owner = None, !.live = FALSE]]
  /\ UNCHANGED <<jobs, items, grants>>

(* Mutant: the scan forgets the jobs whose worker died. *)
Recoverable_QueuedOnly(j) ==
  /\ jobs[j].status = "queued"
  /\ jobs[j].error # "delivery_unconfirmed"
  /\ Pending(j) = {}

(* The recovery scan: work that may have been lost. *)
Recoverable(j) ==
  /\ \/ jobs[j].status = "queued"
     \/ jobs[j].status = "running" /\ jobs[j].lease = 0
  /\ jobs[j].error # "delivery_unconfirmed"
  /\ Pending(j) = {}

Exhausted(j) == Len(outbox[j]) >= MaxAutoDeliveries

RequeueExpired(batch) ==
  /\ batch # {}
  /\ \A j \in batch : Recoverable(j)
  /\ jobs' = [j \in Job |->
       IF j \in batch /\ Exhausted(j)
       THEN Closed(jobs[j], "queued", "delivery_unconfirmed")
       ELSE jobs[j]]
  /\ outbox' = [j \in Job |->
       IF j \in batch /\ ~Exhausted(j) THEN Append(outbox[j], NewRow) ELSE outbox[j]]
  /\ UNCHANGED <<items, grants>>

-----------------------------------------------------------------------------
(* The job lease *)

(* claim_job returns None for these. *)
Unclaimable(j) ==
  \/ jobs[j].status \notin Active
  \/ jobs[j].status = "running" /\ jobs[j].lease > 0

ClaimJob(j, w) ==
  /\ ~Unclaimable(j)
  /\ jobs[j].claims < MaxClaims
  /\ SetJob(j, [jobs[j] EXCEPT
                  !.status = "running", !.owner = w, !.epoch = @ + 1,
                  !.claims = @ + 1, !.lease = LeaseTicks,
                  !.error = IF @ = "delivery_unconfirmed" THEN "none" ELSE @])
  /\ grants' = [grants EXCEPT ![j] = Append(@, w)]
  /\ UNCHANGED <<items, outbox>>

(* claim_job out of claims: the job ends, and the caller gets None as well. *)
ClaimsSpent(j) ==
  /\ ~Unclaimable(j)
  /\ jobs[j].claims >= MaxClaims
  /\ SetJob(j, IF jobs[j].cancel
               THEN Closed(jobs[j], "cancelled", "none")
               ELSE Closed(jobs[j], "failed", "worker_attempts_exhausted"))
  /\ UNCHANGED <<items, outbox, grants>>

Heartbeat(j, w, e) ==
  /\ LockedActive(j, w, e)
  /\ SetJob(j, [jobs[j] EXCEPT !.lease = LeaseTicks])
  /\ UNCHANGED <<items, outbox, grants>>

SetTotal(j, w, e, total) ==
  /\ LockedActive(j, w, e)
  /\ jobs[j].total \in {0, total}
  /\ total >= jobs[j].completed + jobs[j].failed
  /\ SetJob(j, [jobs[j] EXCEPT !.total = total])
  /\ UNCHANGED <<items, outbox, grants>>

SetStage(j, w, e, stage) ==
  /\ LockedActive(j, w, e)
  /\ stage \in jobs[j].stage .. LastStage(jobs[j].kind)
  /\ SetJob(j, [jobs[j] EXCEPT !.stage = stage])
  /\ UNCHANGED <<items, outbox, grants>>

(* Mutant: an accepted cancellation does not stop a success. *)
Succeedable_Cancelled(j) == jobs[j].completed = jobs[j].total /\ jobs[j].failed = 0

Succeedable(j) ==
  /\ ~jobs[j].cancel
  /\ jobs[j].completed = jobs[j].total
  /\ jobs[j].failed = 0

FinishJob(j, w, e, status, error) ==
  /\ LockedActive(j, w, e)
  /\ status = "succeeded" => Succeedable(j)
  /\ status = "cancelled" => jobs[j].cancel
  /\ SetJob(j, Closed(jobs[j], status, error))
  /\ UNCHANGED <<items, outbox, grants>>

-----------------------------------------------------------------------------
(* The item ledger *)

MayClaim(j, w, e) == LockedActive(j, w, e) /\ ~jobs[j].cancel

(* Room for another item row under the declared total. *)
Room(j) == Cardinality(Known(j)) < jobs[j].total

(* claim_item, first claim of the item. *)
ClaimNewItem(j, w, e, i) ==
  /\ MayClaim(j, w, e)
  /\ items[j][i].status = "none"
  /\ Room(j)
  /\ SetItem(j, i, [NoItem EXCEPT !.status = "running", !.attempts = 1,
                                  !.limit = MaxAttempts, !.epoch = e])
  /\ UNCHANGED <<jobs, outbox, grants>>

(* An unfinished item left by an earlier attempt. *)
Reclaimable(j, e, i) ==
  \/ items[j][i].status = "pending"
  \/ items[j][i].status = "running" /\ items[j][i].epoch # e

(* claim_item, another attempt at it. *)
RetryItem(j, w, e, i) ==
  /\ MayClaim(j, w, e)
  /\ Reclaimable(j, e, i)
  /\ items[j][i].attempts < items[j][i].limit
  /\ SetItem(j, i, [items[j][i] EXCEPT !.status = "running", !.attempts = @ + 1,
                                       !.epoch = e])
  /\ UNCHANGED <<jobs, outbox, grants>>

(* claim_item, no attempt left: the item fails. *)
ExhaustItem(j, w, e, i) ==
  /\ MayClaim(j, w, e)
  /\ Reclaimable(j, e, i)
  /\ items[j][i].attempts >= items[j][i].limit
  /\ SetItem(j, i, [items[j][i] EXCEPT !.status = "failed"])
  /\ SetJob(j, [jobs[j] EXCEPT !.failed = @ + 1])
  /\ UNCHANGED <<outbox, grants>>

(* The item is being run under this very lease. *)
OwnsItem(j, e, i) == items[j][i].status = "running" /\ items[j][i].epoch = e

CompleteItem(j, w, e, i, r) ==
  /\ LockedActive(j, w, e)
  /\ OwnsItem(j, e, i)
  /\ SetItem(j, i, [items[j][i] EXCEPT !.status = "succeeded", !.ref = r])
  /\ SetJob(j, [jobs[j] EXCEPT !.completed = @ + 1])
  /\ UNCHANGED <<outbox, grants>>

(* Mutant: the failure of a reconciled item stays counted. *)
ReconcileItem_StillFailed(j, w, e, i, r) ==
  /\ LockedActive(j, w, e)
  /\ items[j][i].status # "succeeded"
  /\ items[j][i].status = "none" => Room(j)
  /\ SetItem(j, i, [items[j][i] EXCEPT !.status = "succeeded", !.epoch = e, !.ref = r])
  /\ SetJob(j, [jobs[j] EXCEPT !.completed = @ + 1])
  /\ UNCHANGED <<outbox, grants>>

(* Credit an artifact found on disk, whatever became of the item's attempt. *)
ReconcileItem(j, w, e, i, r) ==
  /\ LockedActive(j, w, e)
  /\ items[j][i].status # "succeeded"
  /\ items[j][i].status = "none" => Room(j)
  /\ SetItem(j, i, IF items[j][i].status = "none"
                   THEN [status |-> "succeeded", attempts |-> 1, limit |-> 1,
                         epoch |-> e, ref |-> r]
                   ELSE [items[j][i] EXCEPT !.status = "succeeded", !.epoch = e,
                                            !.ref = r])
  /\ SetJob(j, [jobs[j] EXCEPT
                  !.completed = @ + 1,
                  !.failed = IF items[j][i].status = "failed" THEN @ - 1 ELSE @])
  /\ UNCHANGED <<outbox, grants>>

FailItem(j, w, e, i, retryable) ==
  /\ LockedActive(j, w, e)
  /\ OwnsItem(j, e, i)
  /\ LET terminal == ~retryable \/ items[j][i].attempts >= items[j][i].limit
     IN /\ SetItem(j, i, [items[j][i] EXCEPT
                            !.status = IF terminal THEN "failed" ELSE "pending"])
        /\ SetJob(j, IF terminal THEN [jobs[j] EXCEPT !.failed = @ + 1] ELSE jobs[j])
  /\ UNCHANGED <<outbox, grants>>

(* The last item, the job and the catalog pointer commit in one transaction. *)
Activatable(j, r) ==
  /\ jobs[j].kind = "ingestion"
  /\ jobs[j].request = r
  /\ jobs[j].stage = LastStage("ingestion")
  /\ jobs[j].total = IngestionStages
  /\ jobs[j].completed = jobs[j].total - 1
  /\ jobs[j].failed = 0

ActivateIngestion(j, w, e, i, request, r) ==
  /\ LockedActive(j, w, e)
  /\ ~jobs[j].cancel
  /\ Activatable(j, request)
  /\ OwnsItem(j, e, i)
  /\ SetItem(j, i, [items[j][i] EXCEPT !.status = "succeeded", !.ref = r])
  /\ SetJob(j, [Closed(jobs[j], "succeeded", "none") EXCEPT !.completed = @ + 1])
  /\ UNCHANGED <<outbox, grants>>

-----------------------------------------------------------------------------
(* The clock *)

TickLease(j) ==
  /\ jobs[j].lease > 0
  /\ SetJob(j, [jobs[j] EXCEPT !.lease = @ - 1])
  /\ UNCHANGED <<items, outbox, grants>>

ExpireClaim(j, n) ==
  /\ n \in DOMAIN outbox[j]
  /\ outbox[j][n].live
  /\ outbox' = [outbox EXCEPT ![j][n] = [@ EXCEPT !.live = FALSE]]
  /\ UNCHANGED <<jobs, items, grants>>

-----------------------------------------------------------------------------
Submit == \E j \in Job, kind \in Kind, k \in Key \cup {None}, r \in Request, t \in Total :
            CreateJob(j, kind, k, r, t)

Dispatch ==
  \/ \E d \in Dispatcher : \E batch \in SUBSET OutboxRows : ClaimOutbox(d, batch)
  \/ \E d \in Dispatcher, j \in Job : \E n \in DOMAIN outbox[j] : \E e \in 0..MaxSends :
       MarkDelivered(d, j, n, e) \/ MarkRetry(d, j, n, e)
  \/ \E batch \in SUBSET Job : RequeueExpired(batch)

Claim == \E j \in Job : ClaimsSpent(j) \/ \E w \in Worker : ClaimJob(j, w)

(* What the presenter w of lease (j, e) may do to the job row. *)
JobCall(j, w, e) ==
  \/ Heartbeat(j, w, e)
  \/ \E t \in Total : SetTotal(j, w, e, t)
  \/ \E stage \in 0..LastStage(jobs[j].kind) : SetStage(j, w, e, stage)
  \/ \E status \in Terminal, error \in {"none", "other"} :
       FinishJob(j, w, e, status, error)

(* ... and to one of its items. *)
ItemCall(j, w, e, i) ==
  \/ ClaimNewItem(j, w, e, i)
  \/ RetryItem(j, w, e, i)
  \/ ExhaustItem(j, w, e, i)
  \/ \E r \in Ref : CompleteItem(j, w, e, i, r)
  \/ \E r \in Ref : ReconcileItem(j, w, e, i, r)
  \/ \E retryable \in BOOLEAN : FailItem(j, w, e, i, retryable)
  \/ \E q \in Request, r \in Ref : ActivateIngestion(j, w, e, i, q, r)

Call == \E j \in Job, w \in Worker : \E e \in DOMAIN grants[j] :
          /\ Holds(w, j, e)
          /\ JobCall(j, w, e) \/ \E i \in Item : ItemCall(j, w, e, i)

Clock == \E j \in Job : TickLease(j) \/ \E n \in DOMAIN outbox[j] : ExpireClaim(j, n)

Next ==
  \/ Submit
  \/ \E j \in Job : RequestCancel(j)
  \/ Dispatch
  \/ Claim
  \/ Call
  \/ Clock

Spec == Init /\ [][Next]_vars

-----------------------------------------------------------------------------
(* Properties *)

(* Every row keeps the types the schema gives it.                           *)
TypeOK ==
  /\ jobs \in [Job -> JobRow]
  /\ items \in [Job -> [Item -> ItemRow]]
  /\ outbox \in [Job -> Seq(OutboxRow)]
  /\ grants \in [Job -> Seq(Worker)]

(* The progress counters a client reads from GET /jobs/{id} are those of    *)
(* the item ledger, across retries, reconciliation after a crash and stale  *)
(* workers, and never exceed the declared total (ck_jobs_progress).         *)
CountsOK(row, ledger) ==
  /\ row.completed = Cardinality(ItemsIn(ledger, {"succeeded"}))
  /\ row.failed = Cardinality(ItemsIn(ledger, {"failed"}))
  /\ Cardinality(ItemsIn(ledger, HasRow)) <= row.total

ProgressMatchesItems == \A j \in Job : CountsOK(jobs[j], items[j])

(* A job reported succeeded had every declared item succeed, none is left   *)
(* running or failed, and its cancellation was never accepted.              *)
SuccessOK(row, ledger) ==
  row.status = "succeeded" =>
    /\ Cardinality(ItemsIn(ledger, {"succeeded"})) = row.total
    /\ ItemsIn(ledger, HasRow) = ItemsIn(ledger, {"succeeded"})
    /\ ~row.cancel

SuccessIsComplete == \A j \in Job : SuccessOK(jobs[j], items[j])

(* An owner is recorded exactly while the job runs (ck_jobs_lease_pair) and *)
(* is the worker of the last grant: a job sent back to the queue or closed  *)
(* leaves no lease behind that a worker could still write under.            *)
LeaseOK(row, given) ==
  /\ Len(given) = row.epoch
  /\ (row.status = "running") <=> (row.owner # None)
  /\ row.lease > 0 => row.status = "running"
  /\ row.status = "running" => row.epoch > 0 /\ row.owner = given[row.epoch]

LeasePair == \A j \in Job : LeaseOK(jobs[j], grants[j])

(* Recovery never queues a second message row while one is undelivered, and *)
(* issues at most MaxAutoDeliveries rows for a job, the first included.     *)
OutboxOK(row, rows) ==
  /\ \A m, n \in DOMAIN rows : rows[m].status = "pending" /\ rows[n].status = "pending"
                               => m = n
  /\ Len(rows) <= MaxAutoDeliveries
  /\ row.status # "none" => Len(rows) > 0

OutboxBounded == \A j \in Job : OutboxOK(jobs[j], outbox[j])

(* No item is attempted more often than its limit, however its attempts     *)
(* ended: a crash of the worker counts as an attempt.                       *)
AttemptsOK(ledger) == \A i \in Item : ledger[i].attempts <= ledger[i].limit

AttemptsBounded == \A j \in Job : AttemptsOK(items[j])

(* A row that was never written is empty in every table.                    *)
FreshOK(row, ledger, rows, given) ==
  row.status = "none" =>
    row = NoJob /\ ledger = NoLedger /\ rows = <<>> /\ given = <<>>

Unborn == \A j \in Job : FreshOK(jobs[j], items[j], outbox[j], grants[j])

(* The inductive invariant of the job tables.                               *)
IInv ==
  /\ TypeOK
  /\ Unborn
  /\ LeasePair
  /\ ProgressMatchesItems
  /\ SuccessIsComplete
  /\ AttemptsBounded
  /\ OutboxBounded

(* The rows are what the schema and the methods promise of them, together:  *)
(* typed, leased to the worker of the last grant exactly while running,     *)
(* with at most one undelivered message per job and no attempt beyond a     *)
(* limit, whatever crashes and takeovers the rows went through.             *)
TablesAreSound == TypeOK /\ LeasePair /\ OutboxBounded /\ AttemptsBounded

(* Submissions repeated with one idempotency key share one job.             *)
OneJobPerKey ==
  \A j, k \in Job : /\ Exists(j) /\ Exists(k)
                    /\ jobs[j].key # None /\ jobs[j].key = jobs[k].key
                    /\ jobs[j].kind = jobs[k].kind
                    => j = k

(* What the tables tell of the jobs in the terms of the contract.           *)
PhaseOf == [none |-> "none", queued |-> "waiting", running |-> "active",
            succeeded |-> "succeeded", failed |-> "failed", cancelled |-> "cancelled"]

CreditOf(row) ==
  IF row.status = "succeeded" THEN {[ref |-> row.ref, turn |-> row.epoch]} ELSE {}

Phase == [j \in Job |-> PhaseOf[jobs[j].status]]
Size == [j \in Job |-> jobs[j].total]
Turn == [j \in Job |-> jobs[j].epoch]
Asked == [j \in Job |-> jobs[j].cancel]
CreditTable == [j \in Job |-> [i \in Item |-> CreditOf(items[j][i])]]

Contract == INSTANCE JobContract WITH
  phase <- Phase, size <- Size, turn <- Turn, asked <- Asked, credit <- CreditTable

(* The tables implement the contract of a job: a stale lease never credits  *)
(* an item, a credit and a terminal status are final, and a success means   *)
(* all items and no accepted cancellation.                                  *)
ImplementsContract == Contract!Spec
=============================================================================
