--------------------------- MODULE JobStore_proofs ---------------------------
(* Theorems about JobStore, for every value of its constants: its safety   *)
(* invariants, one job per key, and that it implements JobContract: every  *)
(* transaction is a step of the contract or leaves what it sees unchanged. *)
EXTENDS JobService, FiniteSetTheorems, TLAPS

-----------------------------------------------------------------------------
(* Updates of one row *)

(* The names of statuses and errors, so that the sets can stay folded.      *)
LEMMA Names ==
  /\ {"none", "queued", "running", "succeeded", "failed", "cancelled"} = Status
  /\ Terminal \subseteq Status /\ Active \subseteq Status
  /\ {"none", "other", "delivery_unconfirmed", "worker_attempts_exhausted"} = JobError
  /\ {"none", "pending", "running", "succeeded", "failed"} = ItemStatus
  /\ {"evaluation", "ingestion"} = Kind
  BY DEF Status, Active, Terminal, JobError, ItemStatus, Kind

(* Writing one job row leaves the others alone and keeps the table's type.  *)
LEMMA JobUpdate ==
  ASSUME jobs \in [Job -> JobRow], NEW j \in Job, NEW row \in JobRow, SetJob(j, row)
  PROVE  /\ jobs' \in [Job -> JobRow]
         /\ jobs'[j] = row
         /\ \A k \in Job \ {j} : jobs'[k] = jobs[k]
  BY DEF SetJob

(* Writing one item row leaves every other row alone.                       *)
LEMMA ItemUpdate ==
  ASSUME items \in [Job -> [Item -> ItemRow]],
         NEW j \in Job, NEW i \in Item, NEW row \in ItemRow, SetItem(j, i, row)
  PROVE  /\ items' \in [Job -> [Item -> ItemRow]]
         /\ items'[j][i] = row
         /\ \A k \in Item \ {i} : items'[j][k] = items[j][k]
         /\ \A k \in Job \ {j} : items'[k] = items[k]
  BY DEF SetItem

(* A closed row is a row, and differs only in the fields it closes.         *)
LEMMA ClosedRow ==
  ASSUME NEW row \in JobRow, NEW status \in Status, NEW error \in JobError
  PROVE  /\ Closed(row, status, error) \in JobRow
         /\ Closed(row, status, error).status = status
         /\ Closed(row, status, error).owner = None
         /\ Closed(row, status, error).lease = 0
         /\ Closed(row, status, error).epoch = row.epoch
         /\ Closed(row, status, error).total = row.total
         /\ Closed(row, status, error).completed = row.completed
         /\ Closed(row, status, error).failed = row.failed
         /\ Closed(row, status, error).cancel = row.cancel
  <1> DEFINE new == Closed(row, status, error)
  <1>1. new = [row EXCEPT !.status = status, !.error = error, !.owner = None, !.lease = 0]
    BY DEF Closed
  <1>2. [row EXCEPT !.status = status, !.error = error, !.owner = None, !.lease = 0]
          \in JobRow
    BY DEF JobRow
  <1>3. new.status = status /\ new.owner = None /\ new.lease = 0
    BY <1>1 DEF JobRow
  <1>4. /\ new.epoch = row.epoch /\ new.total = row.total
        /\ new.completed = row.completed /\ new.failed = row.failed
        /\ new.cancel = row.cancel
    BY <1>1 DEF JobRow
  <1> QED BY <1>1, <1>2, <1>3, <1>4

-----------------------------------------------------------------------------
(* Type correctness *)

(* The empty row is a row, with nothing counted and nothing leased.         *)
LEMMA NoJobRow ==
  /\ NoJob \in JobRow
  /\ NoJob.status = "none" /\ NoJob.owner = None /\ NoJob.epoch = 0 /\ NoJob.lease = 0
  /\ NoJob.total = 0 /\ NoJob.completed = 0 /\ NoJob.failed = 0
  <1>1. NoJob \in JobRow
    BY Names DEF NoJob, JobRow
  <1>2. /\ NoJob.status = "none" /\ NoJob.owner = None
        /\ NoJob.epoch = 0 /\ NoJob.lease = 0
    BY DEF NoJob
  <1>3. NoJob.total = 0 /\ NoJob.completed = 0 /\ NoJob.failed = 0
    BY DEF NoJob
  <1> QED BY <1>1, <1>2, <1>3

(* The empty tables are tables.                                             *)
LEMMA InitTypeOK == Init => TypeOK
  <1>1. NoJob \in JobRow
    BY NoJobRow
  <1>2. NoItem \in ItemRow
    BY Names DEF NoItem, ItemRow
  <1> QED BY <1>1, <1>2 DEF Init, TypeOK, NoLedger

(* A step that rewrites only one job row keeps the types.                   *)
LEMMA JobStepTypeOK ==
  ASSUME TypeOK, NEW j \in Job, NEW row \in JobRow, SetJob(j, row),
         UNCHANGED <<items, outbox, grants>>
  PROVE  TypeOK'
  BY JobUpdate DEF TypeOK

(* The same for a step that rewrites one item row and one job row.          *)
LEMMA ItemStepTypeOK ==
  ASSUME TypeOK, NEW j \in Job, NEW i \in Item,
         NEW row \in JobRow, SetJob(j, row),
         NEW itemRow \in ItemRow, SetItem(j, i, itemRow),
         UNCHANGED <<outbox, grants>>
  PROVE  TypeOK'
  <1>1. jobs' \in [Job -> JobRow]
    BY JobUpdate DEF TypeOK
  <1>2. items' \in [Job -> [Item -> ItemRow]]
    BY ItemUpdate DEF TypeOK
  <1> QED BY <1>1, <1>2 DEF TypeOK

(* Rewriting one outbox row in place keeps its sequence a sequence of rows. *)
LEMMA RowUpdate ==
  ASSUME TypeOK, NEW j \in Job, NEW n \in DOMAIN outbox[j], NEW row \in OutboxRow,
         outbox' = [outbox EXCEPT ![j][n] = row]
  PROVE  /\ outbox' \in [Job -> Seq(OutboxRow)]
         /\ outbox'[j] = [outbox[j] EXCEPT ![n] = row]
         /\ \A k \in Job \ {j} : outbox'[k] = outbox[k]
  <1>1. outbox[j] \in Seq(OutboxRow)
    BY DEF TypeOK
  <1>2. [outbox[j] EXCEPT ![n] = row] \in Seq(OutboxRow)
    BY <1>1
  <1>3. outbox' = [outbox EXCEPT ![j] = [outbox[j] EXCEPT ![n] = row]]
    OBVIOUS
  <1> QED BY <1>2, <1>3 DEF TypeOK

-----------------------------------------------------------------------------
(* Counting items *)

(* Rewriting one item row moves that item in or out of a set of statuses,   *)
(* and the number of items with those statuses follows.                     *)
LEMMA ItemCount ==
  ASSUME NEW ledger \in [Item -> ItemRow], NEW i \in Item, NEW row \in ItemRow, NEW S
  PROVE  LET new == ItemsIn([ledger EXCEPT ![i] = row], S)
             old == ItemsIn(ledger, S)
         IN  /\ IsFiniteSet(old) /\ Cardinality(old) \in Nat
             /\ row.status \in S /\ ledger[i].status \notin S
                  => Cardinality(new) = Cardinality(old) + 1
             /\ row.status \notin S /\ ledger[i].status \in S
                  => Cardinality(new) = Cardinality(old) - 1
             /\ (row.status \in S <=> ledger[i].status \in S) => new = old
  <1> DEFINE new == ItemsIn([ledger EXCEPT ![i] = row], S)
             old == ItemsIn(ledger, S)
  <1>1. IsFiniteSet(old) /\ Cardinality(old) \in Nat
    <2>1. old \subseteq Item
      BY DEF ItemsIn
    <2> QED BY <2>1, FiniteItems, FS_Subset, FS_CardinalityType
  <1>2. i \in old <=> ledger[i].status \in S
    BY DEF ItemsIn
  <1>3. ASSUME row.status \in S, ledger[i].status \notin S
        PROVE  Cardinality(new) = Cardinality(old) + 1
    <2>1. new = old \cup {i} /\ i \notin old
      BY <1>3 DEF ItemsIn
    <2> QED BY <1>1, <2>1, FS_AddElement
  <1>4. ASSUME row.status \notin S, ledger[i].status \in S
        PROVE  Cardinality(new) = Cardinality(old) - 1
    <2>1. new = old \ {i} /\ i \in old
      BY <1>4 DEF ItemsIn
    <2> QED BY <1>1, <2>1, FS_RemoveElement
  <1>5. ASSUME row.status \in S <=> ledger[i].status \in S
        PROVE  new = old
    BY <1>5 DEF ItemsIn
  <1> QED BY <1>1, <1>3, <1>4, <1>5

(* Succeeded and failed items are items with a row.                         *)
LEMMA ItemCountOrder ==
  ASSUME NEW ledger \in [Item -> ItemRow]
  PROVE  LET done == ItemsIn(ledger, {"succeeded"})
             bad == ItemsIn(ledger, {"failed"})
             known == ItemsIn(ledger, HasRow)
         IN  /\ done \subseteq known /\ bad \subseteq known
             /\ IsFiniteSet(known)
             /\ Cardinality(done) \in Nat /\ Cardinality(bad) \in Nat
             /\ Cardinality(known) \in Nat
             /\ Cardinality(done) <= Cardinality(known)
             /\ Cardinality(done) = Cardinality(known) => done = known
             /\ bad # {} => Cardinality(done) < Cardinality(known)
  <1> DEFINE done == ItemsIn(ledger, {"succeeded"})
             bad == ItemsIn(ledger, {"failed"})
             known == ItemsIn(ledger, HasRow)
  <1>1. done \subseteq known /\ bad \subseteq known /\ done \cap bad = {}
    BY DEF ItemsIn, HasRow, ItemStatus
  <1>2. IsFiniteSet(known) /\ IsFiniteSet(done) /\ IsFiniteSet(bad)
    <2>1. known \subseteq Item /\ done \subseteq Item /\ bad \subseteq Item
      BY DEF ItemsIn
    <2> QED BY <2>1, FiniteItems, FS_Subset
  <1>3. /\ Cardinality(done) \in Nat /\ Cardinality(bad) \in Nat
        /\ Cardinality(known) \in Nat
    BY <1>2, FS_CardinalityType
  <1>4. /\ Cardinality(done) <= Cardinality(known)
        /\ Cardinality(done) = Cardinality(known) => done = known
    BY <1>1, <1>2, <1>3, FS_Subset
  <1>5. bad # {} => Cardinality(done) < Cardinality(known)
    BY <1>1, <1>3, <1>4
  <1> QED BY <1>1, <1>2, <1>3, <1>4, <1>5

-----------------------------------------------------------------------------
(* The invariant, row by row *)

RowOK(row, ledger, rows, given) ==
  /\ FreshOK(row, ledger, rows, given)
  /\ LeaseOK(row, given)
  /\ CountsOK(row, ledger)
  /\ SuccessOK(row, ledger)
  /\ AttemptsOK(ledger)
  /\ OutboxOK(row, rows)

(* What the invariant says of one job.                                      *)
LEMMA RowView ==
  ASSUME IInv, NEW j \in Job
  PROVE  /\ RowOK(jobs[j], items[j], outbox[j], grants[j])
         /\ jobs[j] \in JobRow /\ items[j] \in [Item -> ItemRow]
         /\ outbox[j] \in Seq(OutboxRow) /\ grants[j] \in Seq(Worker)
  BY DEF IInv, TypeOK, Unborn, LeasePair, ProgressMatchesItems, SuccessIsComplete,
         AttemptsBounded, OutboxBounded, RowOK

(* A typed step that leaves every row of the invariant right keeps it.      *)
LEMMA RowsToIInv ==
  ASSUME TypeOK', \A j \in Job : RowOK(jobs'[j], items'[j], outbox'[j], grants'[j])
  PROVE  IInv'
  BY DEF IInv, TypeOK, Unborn, LeasePair, ProgressMatchesItems, SuccessIsComplete,
         AttemptsBounded, OutboxBounded, RowOK

(* Only the job that a step touches has to be looked at again.              *)
LEMMA Frame ==
  ASSUME IInv, TypeOK', NEW j \in Job,
         \A k \in Job \ {j} : /\ jobs'[k] = jobs[k] /\ items'[k] = items[k]
                              /\ outbox'[k] = outbox[k] /\ grants'[k] = grants[k],
         RowOK(jobs'[j], items'[j], outbox'[j], grants'[j])
  PROVE  IInv'
  <1>1. \A k \in Job : RowOK(jobs'[k], items'[k], outbox'[k], grants'[k])
    BY RowView
  <1> QED BY <1>1, RowsToIInv

(* A step on the job row alone, of a job that exists.                       *)
LEMMA JobStep ==
  ASSUME IInv, NEW j \in Job, NEW row \in JobRow, SetJob(j, row),
         UNCHANGED <<items, outbox, grants>>,
         jobs[j].status # "none", row.status # "none",
         LeaseOK(row, grants[j]), CountsOK(row, items[j]), SuccessOK(row, items[j])
  PROVE  IInv'
  <1>1. TypeOK'
    BY JobStepTypeOK DEF IInv
  <1>2. RowOK(jobs[j], items[j], outbox[j], grants[j])
    BY RowView
  <1>3. jobs'[j] = row /\ \A k \in Job \ {j} : jobs'[k] = jobs[k]
    BY JobUpdate DEF IInv, TypeOK
  <1>4. RowOK(row, items[j], outbox[j], grants[j])
    BY <1>2 DEF RowOK, FreshOK, OutboxOK
  <1> QED BY <1>1, <1>3, <1>4, Frame

(* A step on one item and the job row, under a lease.                       *)
LEMMA ItemStep ==
  ASSUME IInv, NEW j \in Job, NEW i \in Item,
         NEW row \in JobRow, SetJob(j, row),
         NEW itemRow \in ItemRow, SetItem(j, i, itemRow),
         UNCHANGED <<outbox, grants>>,
         jobs[j].status # "none", row.status # "none",
         itemRow.attempts <= itemRow.limit,
         LeaseOK(row, grants[j]),
         CountsOK(row, [items[j] EXCEPT ![i] = itemRow]),
         SuccessOK(row, [items[j] EXCEPT ![i] = itemRow])
  PROVE  IInv'
  <1>1. TypeOK'
    BY ItemStepTypeOK DEF IInv
  <1>2. RowOK(jobs[j], items[j], outbox[j], grants[j]) /\ items[j] \in [Item -> ItemRow]
    BY RowView
  <1>3. jobs'[j] = row /\ \A k \in Job \ {j} : jobs'[k] = jobs[k]
    BY JobUpdate DEF IInv, TypeOK
  <1>4. /\ items'[j] = [items[j] EXCEPT ![i] = itemRow]
        /\ \A k \in Job \ {j} : items'[k] = items[k]
    BY DEF SetItem, IInv, TypeOK
  <1>5. AttemptsOK(items'[j])
    BY <1>2, <1>4 DEF RowOK, AttemptsOK
  <1>6. RowOK(row, items'[j], outbox[j], grants[j])
    BY <1>2, <1>4, <1>5 DEF RowOK, FreshOK, OutboxOK
  <1> QED BY <1>1, <1>3, <1>4, <1>6, Frame

(* A step on the outbox of one existing job.                                *)
LEMMA OutboxStep ==
  ASSUME IInv, NEW j \in Job, NEW n \in DOMAIN outbox[j], NEW row \in OutboxRow,
         row.status = "pending" => outbox[j][n].status = "pending",
         outbox' = [outbox EXCEPT ![j][n] = row], UNCHANGED <<jobs, items, grants>>
  PROVE  IInv'
  <1>1. /\ outbox' \in [Job -> Seq(OutboxRow)]
        /\ outbox'[j] = [outbox[j] EXCEPT ![n] = row]
        /\ \A k \in Job \ {j} : outbox'[k] = outbox[k]
    BY RowUpdate DEF IInv
  <1>2. TypeOK'
    BY <1>1 DEF IInv, TypeOK
  <1>3. RowOK(jobs[j], items[j], outbox[j], grants[j]) /\ outbox[j] \in Seq(OutboxRow)
    BY RowView
  <1>4. OutboxOK(jobs[j], outbox'[j])
    BY <1>1, <1>3 DEF RowOK, OutboxOK
  <1>5. FreshOK(jobs[j], items[j], outbox'[j], grants[j])
    BY <1>1, <1>3 DEF RowOK, FreshOK
  <1>6. RowOK(jobs'[j], items'[j], outbox'[j], grants'[j])
    BY <1>3, <1>4, <1>5 DEF RowOK
  <1> QED BY <1>1, <1>2, <1>6, Frame

-----------------------------------------------------------------------------
(* Each transaction keeps the invariant *)

(* create_job: a new row, an empty ledger and its first message.            *)
LEMMA SubmitKeeps == IInv /\ Submit => IInv'
  <1> SUFFICES ASSUME IInv, NEW j \in Job, NEW kind \in Kind, NEW k \in Key \cup {None},
                      NEW r \in Request, NEW t \in Total, CreateJob(j, kind, k, r, t)
               PROVE  IInv'
    BY DEF Submit
  <1> DEFINE row == [NoJob EXCEPT !.status = "queued", !.kind = kind, !.key = k,
                                  !.request = r, !.total = t]
  <1>1. /\ RowOK(jobs[j], items[j], outbox[j], grants[j])
        /\ jobs[j].status = "none"
    BY RowView DEF CreateJob, Exists
  <1>2. jobs[j] = NoJob /\ items[j] = NoLedger /\ grants[j] = <<>>
    BY <1>1 DEF RowOK, FreshOK
  <1>3. t \in Nat
    BY TotalsAreCounts
  <1>4. /\ row \in JobRow
        /\ row.status = "queued" /\ row.total = t /\ row.completed = 0 /\ row.failed = 0
        /\ row.owner = None /\ row.epoch = 0 /\ row.lease = 0
    <2>1. "queued" \in Status
      BY Names
    <2>2. row \in JobRow
      BY <1>3, <2>1, NoJobRow DEF JobRow
    <2>3. /\ row.status = "queued" /\ row.total = t
          /\ row.completed = NoJob.completed /\ row.failed = NoJob.failed
      BY NoJobRow DEF JobRow
    <2>4. row.owner = NoJob.owner /\ row.epoch = NoJob.epoch /\ row.lease = NoJob.lease
      BY NoJobRow DEF JobRow
    <2> QED BY <2>2, <2>3, <2>4, NoJobRow
  <1>5. /\ jobs' \in [Job -> JobRow] /\ jobs'[j] = row
        /\ \A n \in Job \ {j} : jobs'[n] = jobs[n]
    BY <1>4, JobUpdate DEF CreateJob, IInv, TypeOK
  <1>6. NewRow \in OutboxRow
    BY DEF NewRow, OutboxRow
  <1>7. /\ outbox' \in [Job -> Seq(OutboxRow)] /\ outbox'[j] = <<NewRow>>
        /\ \A n \in Job \ {j} : outbox'[n] = outbox[n]
    BY <1>6 DEF CreateJob, IInv, TypeOK
  <1>8. TypeOK'
    BY <1>5, <1>7 DEF IInv, TypeOK, CreateJob
  <1> HIDE DEF row
  <1>9. RowOK(row, items[j], <<NewRow>>, grants[j])
    <2>1. /\ ItemsIn(NoLedger, {"succeeded"}) = {}
          /\ ItemsIn(NoLedger, {"failed"}) = {}
          /\ ItemsIn(NoLedger, HasRow) = {}
      BY DEF NoLedger, NoItem, ItemsIn, HasRow
    <2>2. CountsOK(row, items[j])
      <3>1. /\ Cardinality(ItemsIn(NoLedger, {"succeeded"})) = 0
            /\ Cardinality(ItemsIn(NoLedger, {"failed"})) = 0
            /\ Cardinality(ItemsIn(NoLedger, HasRow)) = 0
        BY <2>1, FS_EmptySet, Zenon
      <3>2. CountsOK(row, NoLedger)
        BY <1>3, <1>4, <3>1 DEF CountsOK
      <3> QED BY <1>2, <3>2
    <2>3. LeaseOK(row, grants[j])
      BY <1>2, <1>4 DEF LeaseOK
    <2>4. OutboxOK(row, <<NewRow>>)
      BY LimitsArePositive DEF OutboxOK
    <2> QED BY <1>1, <1>4, <2>2, <2>3, <2>4 DEF RowOK, FreshOK, SuccessOK
  <1> QED BY <1>5, <1>7, <1>8, <1>9, Frame DEF CreateJob

(* request_cancel: a queued job ends, a running one is only marked.         *)
LEMMA CancelKeeps == ASSUME IInv, NEW j \in Job, RequestCancel(j) PROVE IInv'
  <1> DEFINE row == [jobs[j] EXCEPT !.cancel = TRUE,
                                    !.status = IF @ = "queued" THEN "cancelled" ELSE @]
  <1>1. /\ RowOK(jobs[j], items[j], outbox[j], grants[j]) /\ jobs[j] \in JobRow
        /\ jobs[j].status \in {"queued", "running"}
    BY RowView DEF RequestCancel, Active
  <1>2. row \in JobRow
    BY <1>1, Names DEF JobRow
  <1>3. /\ row.status = IF jobs[j].status = "queued" THEN "cancelled" ELSE "running"
        /\ row.owner = jobs[j].owner /\ row.lease = jobs[j].lease
        /\ row.epoch = jobs[j].epoch /\ row.total = jobs[j].total
        /\ row.completed = jobs[j].completed /\ row.failed = jobs[j].failed
    BY <1>1 DEF JobRow
  <1>4. SetJob(j, row) /\ UNCHANGED <<items, outbox, grants>>
    BY DEF RequestCancel
  <1> HIDE DEF row
  <1>5. LeaseOK(row, grants[j])
    BY <1>1, <1>3 DEF RowOK, LeaseOK
  <1>6. CountsOK(row, items[j]) /\ SuccessOK(row, items[j])
    BY <1>1, <1>3 DEF RowOK, CountsOK, SuccessOK
  <1> QED BY <1>1, <1>2, <1>3, <1>4, <1>5, <1>6, JobStep

(* Claiming an outbox row leaves its delivery status alone.                 *)
LEMMA ClaimedRow ==
  ASSUME NEW row \in OutboxRow, NEW d \in Dispatcher
  PROVE  LET claimed == [row EXCEPT !.owner = d, !.epoch = @ + 1, !.live = TRUE]
         IN  claimed \in OutboxRow /\ claimed.status = row.status
  <1> DEFINE claimed == [row EXCEPT !.owner = d, !.epoch = @ + 1, !.live = TRUE]
  <1>1. row.epoch + 1 \in Nat
    BY DEF OutboxRow
  <1>2. claimed \in OutboxRow
    BY <1>1 DEF OutboxRow
  <1>3. claimed.status = row.status
    BY DEF OutboxRow
  <1> QED BY <1>2, <1>3

(* claim_outbox: a batch of claims changes no delivery status.              *)
LEMMA ClaimOutboxKeeps ==
  ASSUME IInv, NEW d \in Dispatcher, NEW batch \in SUBSET OutboxRows, ClaimOutbox(d, batch)
  PROVE  IInv'
  <1> DEFINE claimed(j, n) ==
               [outbox[j][n] EXCEPT !.owner = d, !.epoch = @ + 1, !.live = TRUE]
             row(j, n) == IF <<j, n>> \in batch THEN claimed(j, n) ELSE outbox[j][n]
  <1>1. \A j \in Job : /\ outbox[j] \in Seq(OutboxRow)
                       /\ RowOK(jobs[j], items[j], outbox[j], grants[j])
    BY RowView
  <1>2. \A j \in Job : \A n \in DOMAIN outbox[j] :
          row(j, n) \in OutboxRow /\ row(j, n).status = outbox[j][n].status
    <2> SUFFICES ASSUME NEW j \in Job, NEW n \in DOMAIN outbox[j]
                 PROVE  row(j, n) \in OutboxRow /\ row(j, n).status = outbox[j][n].status
      OBVIOUS
    <2>1. outbox[j][n] \in OutboxRow
      BY <1>1
    <2>2. claimed(j, n) \in OutboxRow /\ claimed(j, n).status = outbox[j][n].status
      BY <2>1, ClaimedRow
    <2> QED BY <2>1, <2>2
  <1>3. outbox' = [j \in Job |-> [n \in DOMAIN outbox[j] |-> row(j, n)]]
    BY DEF ClaimOutbox
  <1>4. \A j \in Job : /\ outbox'[j] \in Seq(OutboxRow)
                       /\ Len(outbox'[j]) = Len(outbox[j])
                       /\ DOMAIN outbox'[j] = DOMAIN outbox[j]
                       /\ \A n \in DOMAIN outbox[j] :
                            outbox'[j][n].status = outbox[j][n].status
    <2> SUFFICES ASSUME NEW j \in Job
                 PROVE  /\ outbox'[j] \in Seq(OutboxRow)
                        /\ Len(outbox'[j]) = Len(outbox[j])
                        /\ DOMAIN outbox'[j] = DOMAIN outbox[j]
                        /\ \A n \in DOMAIN outbox[j] :
                             outbox'[j][n].status = outbox[j][n].status
      OBVIOUS
    <2> HIDE DEF row
    <2>1. DOMAIN outbox[j] = 1 .. Len(outbox[j]) /\ Len(outbox[j]) \in Nat
      BY <1>1
    <2>2. outbox'[j] = [n \in 1 .. Len(outbox[j]) |-> row(j, n)]
      BY <1>3, <2>1
    <2>3. \A n \in 1 .. Len(outbox[j]) :
            row(j, n) \in OutboxRow /\ row(j, n).status = outbox[j][n].status
      BY <1>2, <2>1
    <2> QED BY <2>1, <2>2, <2>3
  <1>5. outbox' \in [Job -> Seq(OutboxRow)]
    BY <1>3, <1>4
  <1>6. TypeOK'
    BY <1>5 DEF IInv, TypeOK, ClaimOutbox
  <1>7. \A j \in Job : RowOK(jobs'[j], items'[j], outbox'[j], grants'[j])
    <2> SUFFICES ASSUME NEW j \in Job
                 PROVE  RowOK(jobs[j], items[j], outbox'[j], grants[j])
      BY DEF ClaimOutbox
    <2>1. OutboxOK(jobs[j], outbox'[j])
      BY <1>1, <1>4 DEF RowOK, OutboxOK
    <2>2. outbox[j] = <<>> => outbox'[j] = <<>>
      BY <1>1, <1>4
    <2> QED BY <1>1, <2>1, <2>2 DEF RowOK, FreshOK
  <1> QED BY <1>6, <1>7, RowsToIInv

(* mark_outbox_delivered and mark_outbox_retry rewrite one message row.     *)
LEMMA MarkKeeps ==
  ASSUME IInv, NEW d \in Dispatcher, NEW j \in Job, NEW n \in DOMAIN outbox[j],
         NEW e \in 0..MaxSends, MarkDelivered(d, j, n, e) \/ MarkRetry(d, j, n, e)
  PROVE  IInv'
  <1>1. outbox[j][n] \in OutboxRow /\ outbox[j][n].status = "pending"
    BY RowView DEF MarkDelivered, MarkRetry, OwnsRow
  <1>2. CASE MarkDelivered(d, j, n, e)
    <2> DEFINE row == [outbox[j][n] EXCEPT !.status = "delivered", !.owner = None,
                                           !.live = FALSE]
    <2>1. row \in OutboxRow
      BY <1>1 DEF OutboxRow
    <2>2. outbox' = [outbox EXCEPT ![j][n] = row]
      BY <1>2 DEF MarkDelivered
    <2> QED BY <1>1, <1>2, <2>1, <2>2, OutboxStep DEF MarkDelivered
  <1>3. CASE MarkRetry(d, j, n, e)
    <2> DEFINE row == [outbox[j][n] EXCEPT !.owner = None, !.live = FALSE]
    <2>1. row \in OutboxRow
      BY <1>1 DEF OutboxRow
    <2>2. outbox' = [outbox EXCEPT ![j][n] = row]
      BY <1>3 DEF MarkRetry
    <2> QED BY <1>1, <1>3, <2>1, <2>2, OutboxStep DEF MarkRetry
  <1> QED BY <1>2, <1>3

(* requeue_expired_jobs: another message, or a job sent back unleased.      *)
LEMMA RequeueKeeps ==
  ASSUME IInv, NEW batch \in SUBSET Job, RequeueExpired(batch)
  PROVE  IInv'
  <1>1. \A j \in Job : /\ RowOK(jobs[j], items[j], outbox[j], grants[j])
                       /\ jobs[j] \in JobRow /\ outbox[j] \in Seq(OutboxRow)
    BY RowView
  <1>2. NewRow \in OutboxRow /\ NewRow.status = "pending"
    BY DEF NewRow, OutboxRow
  <1>3. \A j \in Job : /\ jobs'[j] \in JobRow /\ outbox'[j] \in Seq(OutboxRow)
                       /\ RowOK(jobs'[j], items[j], outbox'[j], grants[j])
    <2> SUFFICES ASSUME NEW j \in Job
                 PROVE  /\ jobs'[j] \in JobRow /\ outbox'[j] \in Seq(OutboxRow)
                        /\ RowOK(jobs'[j], items[j], outbox'[j], grants[j])
      OBVIOUS
    <2>1. CASE j \notin batch
      <3>1. jobs'[j] = jobs[j] /\ outbox'[j] = outbox[j]
        BY <2>1 DEF RequeueExpired
      <3> QED BY <3>1, <1>1
    <2>2. CASE j \in batch /\ Exhausted(j)
      <3> DEFINE row == Closed(jobs[j], "queued", "delivery_unconfirmed")
      <3>1. jobs'[j] = row /\ outbox'[j] = outbox[j]
        BY <2>2 DEF RequeueExpired
      <3>2. jobs[j].status # "none"
        BY <2>2 DEF RequeueExpired, Recoverable
      <3>3. /\ row \in JobRow
            /\ row.status = "queued" /\ row.owner = None /\ row.lease = 0
            /\ row.epoch = jobs[j].epoch /\ row.total = jobs[j].total
            /\ row.completed = jobs[j].completed /\ row.failed = jobs[j].failed
        <4>1. "queued" \in Status /\ "delivery_unconfirmed" \in JobError
          BY Names
        <4> QED BY <1>1, <4>1, ClosedRow
      <3> HIDE DEF row
      <3>4. LeaseOK(row, grants[j]) /\ CountsOK(row, items[j])
        BY <1>1, <3>3 DEF RowOK, LeaseOK, CountsOK
      <3>5. OutboxOK(row, outbox[j])
        BY <1>1, <3>2 DEF RowOK, OutboxOK
      <3>6. RowOK(row, items[j], outbox[j], grants[j])
        BY <1>1, <3>3, <3>4, <3>5 DEF RowOK, FreshOK, SuccessOK
      <3> QED BY <1>1, <3>1, <3>3, <3>6
    <2>3. CASE j \in batch /\ ~Exhausted(j)
      <3>1. jobs'[j] = jobs[j] /\ outbox'[j] = Append(outbox[j], NewRow)
        BY <2>3 DEF RequeueExpired
      <3>2. jobs[j].status # "none" /\ Pending(j) = {}
        BY <2>3 DEF RequeueExpired, Recoverable
      <3>3. Len(outbox[j]) < MaxAutoDeliveries
        BY <1>1, <2>3, LimitsArePositive DEF Exhausted
      <3>4. \A n \in DOMAIN outbox[j] : outbox[j][n].status # "pending"
        BY <3>2 DEF Pending
      <3>5. OutboxOK(jobs[j], outbox'[j])
        <4>1. /\ outbox'[j] \in Seq(OutboxRow)
              /\ Len(outbox'[j]) = Len(outbox[j]) + 1
              /\ \A n \in 1..Len(outbox[j]) : outbox'[j][n] = outbox[j][n]
          BY <1>1, <1>2, <3>1
        <4>2. \A n \in DOMAIN outbox'[j] :
                outbox'[j][n].status = "pending" => n = Len(outbox[j]) + 1
          BY <1>1, <3>4, <4>1
        <4> QED BY <1>1, <3>3, <4>1, <4>2, LimitsArePositive DEF OutboxOK
      <3>6. outbox'[j] \in Seq(OutboxRow)
        BY <1>1, <1>2, <3>1
      <3> QED BY <1>1, <3>1, <3>2, <3>5, <3>6 DEF RowOK, FreshOK
    <2> QED BY <2>1, <2>2, <2>3
  <1>4. jobs' \in [Job -> JobRow] /\ outbox' \in [Job -> Seq(OutboxRow)]
    BY <1>3 DEF RequeueExpired
  <1>5. TypeOK'
    BY <1>4 DEF IInv, TypeOK, RequeueExpired
  <1> QED BY <1>3, <1>5, RowsToIInv DEF RequeueExpired

(* What _locked_active_job found: a running row of the presented epoch.     *)
LEMMA ActiveRow ==
  ASSUME IInv, NEW j \in Job, NEW w, NEW e, LockedActive(j, w, e)
  PROVE  /\ jobs[j] \in JobRow /\ items[j] \in [Item -> ItemRow]
         /\ jobs[j].status = "running" /\ jobs[j].owner # None /\ jobs[j].lease > 0
         /\ jobs[j].epoch = e /\ jobs[j].lease \in Nat /\ e \in Nat
         /\ LeaseOK(jobs[j], grants[j])
         /\ CountsOK(jobs[j], items[j]) /\ AttemptsOK(items[j])
  <1>1. RowOK(jobs[j], items[j], outbox[j], grants[j]) /\ jobs[j] \in JobRow
    BY RowView
  <1>2. jobs[j].lease \in Nat /\ jobs[j].epoch \in Nat
    BY <1>1 DEF JobRow
  <1> QED BY <1>1, <1>2, RowView DEF RowOK, LeaseOK, LockedActive

(* The row that a claim writes is a row.                                    *)
LEMMA ClaimedJobRow ==
  ASSUME NEW job \in JobRow, NEW w \in Worker
  PROVE  [job EXCEPT !.status = "running", !.owner = w, !.epoch = @ + 1,
                     !.claims = @ + 1, !.lease = LeaseTicks,
                     !.error = IF @ = "delivery_unconfirmed" THEN "none" ELSE @]
           \in JobRow
  <1> DEFINE error == IF job.error = "delivery_unconfirmed" THEN "none" ELSE job.error
  <1>1. job.epoch \in Nat /\ job.claims \in Nat /\ job.error \in JobError
    BY DEF JobRow
  <1>2. "running" \in Status /\ error \in JobError
    BY <1>1, Names
  <1>3. job.epoch + 1 \in Nat /\ job.claims + 1 \in Nat /\ LeaseTicks \in Nat
    BY <1>1, LimitsArePositive
  <1> HIDE DEF error
  <1>4. [job EXCEPT !.status = "running", !.owner = w, !.epoch = job.epoch + 1,
                    !.claims = job.claims + 1, !.lease = LeaseTicks, !.error = error]
          \in JobRow
    BY <1>2, <1>3 DEF JobRow
  <1> QED BY <1>4 DEF error, JobRow

(* claim_job: the new lease is the last grant.                              *)
LEMMA ClaimJobKeeps ==
  ASSUME IInv, NEW j \in Job, NEW w \in Worker, ClaimJob(j, w)
  PROVE  IInv'
  <1> DEFINE row == [jobs[j] EXCEPT
                       !.status = "running", !.owner = w, !.epoch = @ + 1,
                       !.claims = @ + 1, !.lease = LeaseTicks,
                       !.error = IF @ = "delivery_unconfirmed" THEN "none" ELSE @]
  <1>1. /\ RowOK(jobs[j], items[j], outbox[j], grants[j])
        /\ jobs[j] \in JobRow /\ grants[j] \in Seq(Worker)
        /\ jobs[j].status \in Active
    BY RowView DEF ClaimJob, Unclaimable
  <1>2. jobs[j].epoch \in Nat
    BY <1>1 DEF JobRow
  <1>4. row \in JobRow
    BY <1>1, ClaimedJobRow
  <1>5. /\ row.status = "running" /\ row.owner = w /\ row.epoch = jobs[j].epoch + 1
        /\ row.lease = LeaseTicks
    BY <1>1 DEF JobRow
  <1>6. /\ row.total = jobs[j].total
        /\ row.completed = jobs[j].completed /\ row.failed = jobs[j].failed
    BY <1>1 DEF JobRow
  <1>7. /\ SetJob(j, row) /\ UNCHANGED <<items, outbox>>
        /\ grants' = [grants EXCEPT ![j] = Append(grants[j], w)]
    BY DEF ClaimJob
  <1> HIDE DEF row
  <1>8. /\ jobs' \in [Job -> JobRow] /\ jobs'[j] = row
        /\ \A k \in Job \ {j} : jobs'[k] = jobs[k]
    BY <1>4, <1>7, JobUpdate DEF IInv, TypeOK
  <1>9. /\ grants'[j] = Append(grants[j], w)
        /\ grants'[j] \in Seq(Worker)
        /\ \A k \in Job \ {j} : grants'[k] = grants[k]
    BY <1>1, <1>7 DEF IInv, TypeOK
  <1>10. TypeOK'
    <2>1. grants' \in [Job -> Seq(Worker)]
      BY <1>7, <1>9 DEF IInv, TypeOK
    <2> QED BY <1>7, <1>8, <2>1 DEF IInv, TypeOK
  <1>11. LeaseOK(row, grants'[j])
    <2>1. Len(grants[j]) = jobs[j].epoch
      BY <1>1 DEF RowOK, LeaseOK
    <2>2. /\ Len(grants'[j]) = jobs[j].epoch + 1
          /\ grants'[j][jobs[j].epoch + 1] = w
      BY <1>1, <1>2, <1>9, <2>1
    <2>3. w # None
      BY NullIsFresh
    <2> QED BY <1>2, <1>5, <2>2, <2>3 DEF LeaseOK
  <1>12. CountsOK(row, items[j]) /\ SuccessOK(row, items[j])
    BY <1>1, <1>5, <1>6 DEF RowOK, CountsOK, SuccessOK
  <1>13. OutboxOK(row, outbox[j])
    BY <1>1, <1>5 DEF RowOK, OutboxOK, Active
  <1>14. RowOK(row, items[j], outbox[j], grants'[j])
    BY <1>1, <1>5, <1>11, <1>12, <1>13 DEF RowOK, FreshOK
  <1> QED BY <1>7, <1>8, <1>9, <1>10, <1>14, Frame

(* Closing an existing job with a status other than succeeded.              *)
LEMMA CloseKeeps ==
  ASSUME IInv, NEW j \in Job, jobs[j].status # "none",
         NEW status \in {"failed", "cancelled"}, NEW error \in JobError,
         SetJob(j, Closed(jobs[j], status, error)), UNCHANGED <<items, outbox, grants>>
  PROVE  IInv'
  <1> DEFINE row == Closed(jobs[j], status, error)
  <1>1. RowOK(jobs[j], items[j], outbox[j], grants[j]) /\ jobs[j] \in JobRow
    BY RowView
  <1>2. status \in Status
    BY Names
  <1>3. /\ row \in JobRow /\ row.status = status /\ row.owner = None /\ row.lease = 0
        /\ row.epoch = jobs[j].epoch /\ row.total = jobs[j].total
        /\ row.completed = jobs[j].completed /\ row.failed = jobs[j].failed
    BY <1>1, <1>2, ClosedRow
  <1> HIDE DEF row
  <1>4. LeaseOK(row, grants[j]) /\ CountsOK(row, items[j]) /\ SuccessOK(row, items[j])
    BY <1>1, <1>3 DEF RowOK, LeaseOK, CountsOK, SuccessOK
  <1>5. SetJob(j, row)
    BY DEF row
  <1> QED BY <1>3, <1>4, <1>5, JobStep

(* claim_job out of claims closes the job.                                  *)
LEMMA ClaimsSpentKeeps == ASSUME IInv, NEW j \in Job, ClaimsSpent(j) PROVE IInv'
  <1>1. jobs[j].status # "none"
    BY DEF ClaimsSpent, Unclaimable, Active
  <1>2. "none" \in JobError /\ "worker_attempts_exhausted" \in JobError
    BY Names
  <1>3. CASE jobs[j].cancel
    BY <1>1, <1>2, <1>3, CloseKeeps DEF ClaimsSpent
  <1>4. CASE ~jobs[j].cancel
    BY <1>1, <1>2, <1>4, CloseKeeps DEF ClaimsSpent
  <1> QED BY <1>3, <1>4

(* finish_job: success only with every item of the total succeeded.         *)
LEMMA FinishKeeps ==
  ASSUME IInv, NEW j \in Job, NEW w, NEW e, NEW status \in Terminal,
         NEW error \in {"none", "other"}, FinishJob(j, w, e, status, error)
  PROVE  IInv'
  <1>1. error \in JobError
    BY Names
  <1>2. /\ jobs[j].status = "running" /\ jobs[j] \in JobRow
        /\ items[j] \in [Item -> ItemRow]
        /\ CountsOK(jobs[j], items[j]) /\ LeaseOK(jobs[j], grants[j])
    BY ActiveRow DEF FinishJob
  <1>3. CASE status # "succeeded"
    BY <1>1, <1>2, <1>3, CloseKeeps DEF FinishJob, Terminal
  <1>4. CASE status = "succeeded"
    <2> DEFINE row == Closed(jobs[j], "succeeded", error)
    <2>1. "succeeded" \in Status
      BY Names
    <2>2. /\ row \in JobRow /\ row.status = "succeeded" /\ row.owner = None
          /\ row.lease = 0 /\ row.epoch = jobs[j].epoch /\ row.total = jobs[j].total
          /\ row.completed = jobs[j].completed /\ row.failed = jobs[j].failed
          /\ row.cancel = jobs[j].cancel
      BY <1>1, <1>2, <2>1, ClosedRow
    <2>3. SetJob(j, row)
      BY <1>4 DEF FinishJob
    <2> HIDE DEF row
    <2>4. LeaseOK(row, grants[j]) /\ CountsOK(row, items[j])
      BY <1>2, <2>2 DEF LeaseOK, CountsOK
    <2>5. Succeedable(j)
      BY <1>4 DEF FinishJob
    <2>6. Cardinality(ItemsIn(items[j], {"succeeded"})) = jobs[j].total
      BY <1>2, <2>5 DEF Succeedable, CountsOK
    <2>7. ItemsIn(items[j], HasRow) = ItemsIn(items[j], {"succeeded"})
      <3>1. jobs[j].total \in Nat
        BY <1>2 DEF JobRow
      <3> QED BY <1>2, <2>6, <3>1, ItemCountOrder DEF CountsOK
    <2>8. SuccessOK(row, items[j])
      BY <2>2, <2>5, <2>6, <2>7 DEF SuccessOK, Succeedable
    <2> QED BY <1>2, <2>2, <2>3, <2>4, <2>8, JobStep DEF FinishJob
  <1> QED BY <1>3, <1>4

(* heartbeat renews the lease of a running job.                             *)
LEMMA HeartbeatKeeps ==
  ASSUME IInv, NEW j \in Job, NEW w, NEW e, Heartbeat(j, w, e)
  PROVE  IInv'
  <1> DEFINE row == [jobs[j] EXCEPT !.lease = LeaseTicks]
  <1>1. /\ jobs[j] \in JobRow /\ jobs[j].status = "running" /\ jobs[j].owner # None
        /\ LeaseOK(jobs[j], grants[j]) /\ CountsOK(jobs[j], items[j])
    BY ActiveRow DEF Heartbeat
  <1>2. row \in JobRow
    BY <1>1, LimitsArePositive DEF JobRow
  <1>3. /\ row.status = "running" /\ row.owner = jobs[j].owner
        /\ row.epoch = jobs[j].epoch /\ row.total = jobs[j].total
        /\ row.completed = jobs[j].completed /\ row.failed = jobs[j].failed
    BY <1>1 DEF JobRow
  <1>4. SetJob(j, row) /\ UNCHANGED <<items, outbox, grants>>
    BY DEF Heartbeat
  <1> HIDE DEF row
  <1>5. LeaseOK(row, grants[j]) /\ CountsOK(row, items[j]) /\ SuccessOK(row, items[j])
    BY <1>1, <1>3 DEF LeaseOK, CountsOK, SuccessOK
  <1> QED BY <1>1, <1>2, <1>3, <1>4, <1>5, JobStep

(* set_total keeps the total above the items already known.                 *)
LEMMA SetTotalKeeps ==
  ASSUME IInv, NEW j \in Job, NEW w, NEW e, NEW t \in Total, SetTotal(j, w, e, t)
  PROVE  IInv'
  <1> DEFINE row == [jobs[j] EXCEPT !.total = t]
  <1>1. /\ jobs[j] \in JobRow /\ jobs[j].status = "running" /\ jobs[j].owner # None
        /\ LeaseOK(jobs[j], grants[j]) /\ CountsOK(jobs[j], items[j])
        /\ items[j] \in [Item -> ItemRow]
    BY ActiveRow DEF SetTotal
  <1>2. t \in Nat
    BY TotalsAreCounts
  <1>3. row \in JobRow
    BY <1>1, <1>2 DEF JobRow
  <1>4. /\ row.status = "running" /\ row.owner = jobs[j].owner /\ row.lease = jobs[j].lease
        /\ row.epoch = jobs[j].epoch /\ row.total = t
        /\ row.completed = jobs[j].completed /\ row.failed = jobs[j].failed
    BY <1>1 DEF JobRow
  <1>5. SetJob(j, row) /\ UNCHANGED <<items, outbox, grants>>
    BY DEF SetTotal
  <1> HIDE DEF row
  <1>6. Cardinality(ItemsIn(items[j], HasRow)) <= t
    BY <1>1, <1>2, ItemCountOrder DEF SetTotal, CountsOK
  <1>7. LeaseOK(row, grants[j]) /\ CountsOK(row, items[j]) /\ SuccessOK(row, items[j])
    BY <1>1, <1>4, <1>6 DEF LeaseOK, CountsOK, SuccessOK
  <1> QED BY <1>1, <1>3, <1>4, <1>5, <1>7, JobStep

(* set_stage moves nothing the invariant counts.                            *)
LEMMA SetStageKeeps ==
  ASSUME IInv, NEW j \in Job, NEW w, NEW e, NEW stage \in Nat, SetStage(j, w, e, stage)
  PROVE  IInv'
  <1> DEFINE row == [jobs[j] EXCEPT !.stage = stage]
  <1>1. /\ jobs[j] \in JobRow /\ jobs[j].status = "running" /\ jobs[j].owner # None
        /\ LeaseOK(jobs[j], grants[j]) /\ CountsOK(jobs[j], items[j])
    BY ActiveRow DEF SetStage
  <1>2. row \in JobRow
    BY <1>1 DEF JobRow
  <1>3. /\ row.status = "running" /\ row.owner = jobs[j].owner /\ row.lease = jobs[j].lease
        /\ row.epoch = jobs[j].epoch /\ row.total = jobs[j].total
        /\ row.completed = jobs[j].completed /\ row.failed = jobs[j].failed
    BY <1>1 DEF JobRow
  <1>4. SetJob(j, row) /\ UNCHANGED <<items, outbox, grants>>
    BY DEF SetStage
  <1> HIDE DEF row
  <1>5. LeaseOK(row, grants[j]) /\ CountsOK(row, items[j]) /\ SuccessOK(row, items[j])
    BY <1>1, <1>3 DEF LeaseOK, CountsOK, SuccessOK
  <1> QED BY <1>1, <1>2, <1>3, <1>4, <1>5, JobStep

(* The clock only runs leases and claims down.                              *)
LEMMA ClockKeeps == IInv /\ Clock => IInv'
  <1> SUFFICES ASSUME IInv, NEW j \in Job,
                      TickLease(j) \/ \E n \in DOMAIN outbox[j] : ExpireClaim(j, n)
               PROVE  IInv'
    BY DEF Clock
  <1>1. /\ RowOK(jobs[j], items[j], outbox[j], grants[j])
        /\ jobs[j] \in JobRow /\ outbox[j] \in Seq(OutboxRow)
    BY RowView
  <1>2. CASE TickLease(j)
    <2> DEFINE row == [jobs[j] EXCEPT !.lease = @ - 1]
    <2>1. jobs[j].lease \in Nat /\ jobs[j].lease > 0
      BY <1>1, <1>2 DEF TickLease, JobRow
    <2>2. jobs[j].lease - 1 \in Nat
      BY <2>1
    <2>3. row \in JobRow
      BY <1>1, <2>2 DEF JobRow
    <2>4. /\ row.status = jobs[j].status /\ row.owner = jobs[j].owner
          /\ row.lease = jobs[j].lease - 1
          /\ row.epoch = jobs[j].epoch /\ row.total = jobs[j].total
      BY <1>1 DEF JobRow
    <2>5. /\ row.completed = jobs[j].completed /\ row.failed = jobs[j].failed
          /\ row.cancel = jobs[j].cancel
      BY <1>1 DEF JobRow
    <2>6. SetJob(j, row) /\ UNCHANGED <<items, outbox, grants>>
      BY <1>2 DEF TickLease
    <2> HIDE DEF row
    <2>7. LeaseOK(row, grants[j])
      BY <1>1, <2>1, <2>4 DEF RowOK, LeaseOK
    <2>8. CountsOK(row, items[j]) /\ SuccessOK(row, items[j])
      BY <1>1, <2>4, <2>5 DEF RowOK, CountsOK, SuccessOK
    <2>9. jobs[j].status = "running"
      BY <1>1, <2>1 DEF RowOK, LeaseOK
    <2> QED BY <2>3, <2>4, <2>6, <2>7, <2>8, <2>9, JobStep
  <1>3. ASSUME NEW n \in DOMAIN outbox[j], ExpireClaim(j, n) PROVE IInv'
    <2> DEFINE row == [outbox[j][n] EXCEPT !.live = FALSE]
    <2>1. outbox[j][n] \in OutboxRow
      BY <1>1
    <2>2. row \in OutboxRow /\ row.status = outbox[j][n].status
      BY <2>1 DEF OutboxRow
    <2>3. outbox' = [outbox EXCEPT ![j][n] = row] /\ UNCHANGED <<jobs, items, grants>>
      BY <1>3 DEF ExpireClaim
    <2> HIDE DEF row
    <2> QED BY <2>2, <2>3, OutboxStep
  <1> QED BY <1>2, <1>3

-----------------------------------------------------------------------------
(* Each item transaction keeps the invariant *)

(* Counters that move by what the item's status gains or loses stay right.  *)
LEMMA CountsFollow ==
  ASSUME NEW row \in JobRow, NEW next \in JobRow, NEW ledger \in [Item -> ItemRow],
         NEW i \in Item, NEW new \in ItemRow, CountsOK(row, ledger),
         new.status # "none", ledger[i].status # "succeeded",
         next.total = row.total,
         next.completed = IF new.status = "succeeded" THEN row.completed + 1
                          ELSE row.completed,
         next.failed = IF new.status = "failed" /\ ledger[i].status # "failed"
                         THEN row.failed + 1
                       ELSE IF new.status # "failed" /\ ledger[i].status = "failed"
                         THEN row.failed - 1
                       ELSE row.failed,
         ledger[i].status = "none" => Cardinality(ItemsIn(ledger, HasRow)) < row.total
  PROVE  CountsOK(next, [ledger EXCEPT ![i] = new])
  <1> DEFINE after == [ledger EXCEPT ![i] = new]
  <1>1. row.total \in Nat /\ row.completed \in Int /\ row.failed \in Int
    BY DEF JobRow
  <1>2. next.completed = Cardinality(ItemsIn(after, {"succeeded"}))
    <2>1. row.completed = Cardinality(ItemsIn(ledger, {"succeeded"}))
      BY DEF CountsOK
    <2>2. CASE new.status = "succeeded"
      <3>1. Cardinality(ItemsIn(after, {"succeeded"}))
              = Cardinality(ItemsIn(ledger, {"succeeded"})) + 1
        BY <2>2, ItemCount
      <3> QED BY <2>1, <2>2, <3>1
    <2>3. CASE new.status # "succeeded"
      <3>1. ItemsIn(after, {"succeeded"}) = ItemsIn(ledger, {"succeeded"})
        BY <2>3, ItemCount
      <3> QED BY <2>1, <2>3, <3>1
    <2> QED BY <2>2, <2>3
  <1>3. next.failed = Cardinality(ItemsIn(after, {"failed"}))
    <2>1. row.failed = Cardinality(ItemsIn(ledger, {"failed"}))
      BY DEF CountsOK
    <2>2. CASE new.status = "failed" /\ ledger[i].status # "failed"
      <3>1. Cardinality(ItemsIn(after, {"failed"}))
              = Cardinality(ItemsIn(ledger, {"failed"})) + 1
        BY <2>2, ItemCount
      <3> QED BY <2>1, <2>2, <3>1
    <2>3. CASE new.status # "failed" /\ ledger[i].status = "failed"
      <3>1. Cardinality(ItemsIn(after, {"failed"}))
              = Cardinality(ItemsIn(ledger, {"failed"})) - 1
        BY <2>3, ItemCount
      <3> QED BY <2>1, <2>3, <3>1
    <2>4. CASE (new.status = "failed") <=> (ledger[i].status = "failed")
      <3>1. ItemsIn(after, {"failed"}) = ItemsIn(ledger, {"failed"})
        BY <2>4, ItemCount
      <3> QED BY <2>1, <2>4, <3>1
    <2> QED BY <2>2, <2>3, <2>4
  <1>4. Cardinality(ItemsIn(after, HasRow)) <= next.total
    <2>1. new.status \in HasRow /\ ledger[i].status \in ItemStatus
      BY DEF HasRow, ItemRow
    <2>2. CASE ledger[i].status = "none"
      <3>1. ledger[i].status \notin HasRow
        BY <2>2 DEF HasRow
      <3>2. /\ Cardinality(ItemsIn(after, HasRow))
                 = Cardinality(ItemsIn(ledger, HasRow)) + 1
            /\ Cardinality(ItemsIn(ledger, HasRow)) \in Nat
        BY <2>1, <3>1, ItemCount
      <3> QED BY <1>1, <2>2, <3>2
    <2>3. CASE ledger[i].status # "none"
      <3>1. ledger[i].status \in HasRow
        BY <2>1, <2>3 DEF HasRow
      <3>2. ItemsIn(after, HasRow) = ItemsIn(ledger, HasRow)
        BY <2>1, <3>1, ItemCount
      <3> QED BY <3>2 DEF CountsOK
    <2> QED BY <2>2, <2>3
  <1> QED BY <1>2, <1>3, <1>4 DEF CountsOK

(* A step on an item of a running job that keeps the job running.           *)
LEMMA RunningItemStep ==
  ASSUME IInv, NEW j \in Job, NEW i \in Item, NEW w, NEW e, LockedActive(j, w, e),
         NEW row \in JobRow, SetJob(j, row),
         NEW new \in ItemRow, SetItem(j, i, new), UNCHANGED <<outbox, grants>>,
         new.status # "none", new.attempts <= new.limit,
         items[j][i].status # "succeeded",
         row.status = "running", row.owner = jobs[j].owner,
         row.epoch = jobs[j].epoch, row.total = jobs[j].total,
         row.completed = IF new.status = "succeeded" THEN jobs[j].completed + 1
                         ELSE jobs[j].completed,
         row.failed = IF new.status = "failed" /\ items[j][i].status # "failed"
                        THEN jobs[j].failed + 1
                      ELSE IF new.status # "failed" /\ items[j][i].status = "failed"
                        THEN jobs[j].failed - 1
                      ELSE jobs[j].failed,
         items[j][i].status = "none" => Room(j)
  PROVE  IInv'
  <1>1. /\ jobs[j] \in JobRow /\ items[j] \in [Item -> ItemRow]
        /\ jobs[j].status = "running" /\ jobs[j].owner # None
        /\ LeaseOK(jobs[j], grants[j]) /\ CountsOK(jobs[j], items[j])
    BY ActiveRow
  <1>2. CountsOK(row, [items[j] EXCEPT ![i] = new])
    <2>1. items[j][i].status = "none"
            => Cardinality(ItemsIn(items[j], HasRow)) < jobs[j].total
      BY DEF Room, Known
    <2> QED BY <1>1, <2>1, CountsFollow
  <1>3. LeaseOK(row, grants[j])
    BY <1>1 DEF LeaseOK
  <1>4. SuccessOK(row, [items[j] EXCEPT ![i] = new])
    BY DEF SuccessOK
  <1> QED BY <1>1, <1>2, <1>3, <1>4, ItemStep

(* Rows whose counters move are rows.                                       *)
LEMMA JobCounters ==
  ASSUME NEW row \in JobRow
  PROVE  /\ [row EXCEPT !.failed = @ + 1] \in JobRow
         /\ [row EXCEPT !.completed = @ + 1] \in JobRow
         /\ \A n \in Int : [row EXCEPT !.completed = @ + 1, !.failed = n] \in JobRow
  <1>1. row.failed + 1 \in Int /\ row.completed + 1 \in Int
    BY DEF JobRow
  <1>2. [row EXCEPT !.failed = row.failed + 1] \in JobRow
    BY <1>1 DEF JobRow
  <1>3. [row EXCEPT !.completed = row.completed + 1] \in JobRow
    BY <1>1 DEF JobRow
  <1>4. ASSUME NEW n \in Int
        PROVE  [row EXCEPT !.completed = row.completed + 1, !.failed = n] \in JobRow
    BY <1>1 DEF JobRow
  <1> QED BY <1>2, <1>3, <1>4

(* claim_item, the first claim: one more row under the total.               *)
LEMMA ClaimNewItemKeeps ==
  ASSUME IInv, NEW j \in Job, NEW i \in Item, NEW w, NEW e, ClaimNewItem(j, w, e, i)
  PROVE  IInv'
  <1> DEFINE new == [NoItem EXCEPT !.status = "running", !.attempts = 1,
                                   !.limit = MaxAttempts, !.epoch = e]
  <1>1. LockedActive(j, w, e) /\ items[j][i].status = "none" /\ Room(j)
    BY DEF ClaimNewItem, MayClaim
  <1>2. jobs[j] \in JobRow /\ jobs[j].status = "running" /\ e \in Nat
    BY <1>1, ActiveRow
  <1>3. /\ new \in ItemRow
        /\ new.status = "running" /\ new.attempts = 1 /\ new.limit = MaxAttempts
    <2>1. "running" \in ItemStatus
      BY Names
    <2> QED BY <1>2, <2>1, LimitsArePositive DEF NoItem, ItemRow
  <1>4. SetItem(j, i, new) /\ SetJob(j, jobs[j]) /\ UNCHANGED <<outbox, grants>>
    BY DEF ClaimNewItem, SetJob, IInv, TypeOK
  <1>5. new.attempts <= new.limit
    BY <1>3, LimitsArePositive
  <1> HIDE DEF new
  <1> QED BY <1>1, <1>2, <1>3, <1>4, <1>5, RunningItemStep

(* claim_item, another attempt within the limit.                            *)
LEMMA RetryItemKeeps ==
  ASSUME IInv, NEW j \in Job, NEW i \in Item, NEW w, NEW e, RetryItem(j, w, e, i)
  PROVE  IInv'
  <1> DEFINE new == [items[j][i] EXCEPT !.status = "running", !.attempts = @ + 1,
                                        !.epoch = e]
  <1>1. /\ LockedActive(j, w, e) /\ items[j][i].status \in {"pending", "running"}
        /\ items[j][i].attempts < items[j][i].limit
    BY DEF RetryItem, MayClaim, Reclaimable
  <1>2. /\ jobs[j] \in JobRow /\ jobs[j].status = "running" /\ e \in Nat
        /\ items[j][i] \in ItemRow
    BY <1>1, ActiveRow
  <1>3. items[j][i].attempts \in Nat /\ items[j][i].limit \in Nat
    BY <1>2 DEF ItemRow
  <1>4. new \in ItemRow
    <2>1. "running" \in ItemStatus /\ items[j][i].attempts + 1 \in Nat
      BY <1>3, Names
    <2> QED BY <1>2, <2>1 DEF ItemRow
  <1>5. /\ new.status = "running" /\ new.attempts = items[j][i].attempts + 1
        /\ new.limit = items[j][i].limit
    BY <1>2 DEF ItemRow
  <1>6. SetItem(j, i, new) /\ SetJob(j, jobs[j]) /\ UNCHANGED <<outbox, grants>>
    BY DEF RetryItem, SetJob, IInv, TypeOK
  <1> HIDE DEF new
  <1>7. new.attempts <= new.limit
    BY <1>1, <1>3, <1>5
  <1> QED BY <1>1, <1>2, <1>4, <1>5, <1>6, <1>7, RunningItemStep

(* claim_item, out of attempts: the item is counted as failed.              *)
LEMMA ExhaustItemKeeps ==
  ASSUME IInv, NEW j \in Job, NEW i \in Item, NEW w, NEW e, ExhaustItem(j, w, e, i)
  PROVE  IInv'
  <1> DEFINE new == [items[j][i] EXCEPT !.status = "failed"]
             row == [jobs[j] EXCEPT !.failed = @ + 1]
  <1>1. LockedActive(j, w, e) /\ items[j][i].status \in {"pending", "running"}
    BY DEF ExhaustItem, MayClaim, Reclaimable
  <1>2. /\ jobs[j] \in JobRow /\ jobs[j].status = "running"
        /\ items[j][i] \in ItemRow /\ items[j][i].attempts <= items[j][i].limit
    BY <1>1, ActiveRow DEF AttemptsOK
  <1>3. new \in ItemRow
    BY <1>2, Names DEF ItemRow
  <1>4. new.status = "failed" /\ new.attempts <= new.limit
    BY <1>2 DEF ItemRow
  <1>5. row \in JobRow
    BY <1>2, JobCounters
  <1>6. /\ row.status = "running" /\ row.owner = jobs[j].owner /\ row.epoch = jobs[j].epoch
        /\ row.total = jobs[j].total /\ row.completed = jobs[j].completed
        /\ row.failed = jobs[j].failed + 1
    BY <1>2 DEF JobRow
  <1>7. SetItem(j, i, new) /\ SetJob(j, row) /\ UNCHANGED <<outbox, grants>>
    BY DEF ExhaustItem
  <1> HIDE DEF new, row
  <1> QED BY <1>1, <1>2, <1>3, <1>4, <1>5, <1>6, <1>7, RunningItemStep

(* complete_item counts the item it completes.                              *)
LEMMA CompleteItemKeeps ==
  ASSUME IInv, NEW j \in Job, NEW i \in Item, NEW w, NEW e, NEW r \in Ref,
         CompleteItem(j, w, e, i, r)
  PROVE  IInv'
  <1> DEFINE new == [items[j][i] EXCEPT !.status = "succeeded", !.ref = r]
             row == [jobs[j] EXCEPT !.completed = @ + 1]
  <1>1. LockedActive(j, w, e) /\ items[j][i].status = "running"
    BY DEF CompleteItem, OwnsItem
  <1>2. /\ jobs[j] \in JobRow /\ jobs[j].status = "running"
        /\ items[j][i] \in ItemRow /\ items[j][i].attempts <= items[j][i].limit
    BY <1>1, ActiveRow DEF AttemptsOK
  <1>3. new \in ItemRow
    BY <1>2, Names DEF ItemRow
  <1>4. new.status = "succeeded" /\ new.attempts <= new.limit
    BY <1>2 DEF ItemRow
  <1>5. row \in JobRow
    BY <1>2, JobCounters
  <1>6. /\ row.status = "running" /\ row.owner = jobs[j].owner /\ row.epoch = jobs[j].epoch
        /\ row.total = jobs[j].total /\ row.completed = jobs[j].completed + 1
        /\ row.failed = jobs[j].failed
    BY <1>2 DEF JobRow
  <1>7. SetItem(j, i, new) /\ SetJob(j, row) /\ UNCHANGED <<outbox, grants>>
    BY DEF CompleteItem
  <1> HIDE DEF new, row
  <1> QED BY <1>1, <1>2, <1>3, <1>4, <1>5, <1>6, <1>7, RunningItemStep

(* reconcile_item moves a failed item from one counter to the other.        *)
LEMMA ReconcileItemKeeps ==
  ASSUME IInv, NEW j \in Job, NEW i \in Item, NEW w, NEW e, NEW r \in Ref,
         ReconcileItem(j, w, e, i, r)
  PROVE  IInv'
  <1> DEFINE old == items[j][i]
             new == IF old.status = "none"
                    THEN [status |-> "succeeded", attempts |-> 1, limit |-> 1,
                          epoch |-> e, ref |-> r]
                    ELSE [old EXCEPT !.status = "succeeded", !.epoch = e, !.ref = r]
             lost == IF old.status = "failed" THEN jobs[j].failed - 1 ELSE jobs[j].failed
             row == [jobs[j] EXCEPT
                       !.completed = @ + 1,
                       !.failed = IF old.status = "failed" THEN @ - 1 ELSE @]
  <1>1. /\ LockedActive(j, w, e) /\ old.status # "succeeded"
        /\ old.status = "none" => Room(j)
    BY DEF ReconcileItem
  <1>2. /\ jobs[j] \in JobRow /\ jobs[j].status = "running" /\ e \in Nat
        /\ old \in ItemRow /\ old.attempts <= old.limit
    BY <1>1, ActiveRow DEF AttemptsOK
  <1>3. "succeeded" \in ItemStatus
    BY Names
  <1>4. new \in ItemRow /\ new.status = "succeeded" /\ new.attempts <= new.limit
    <2>1. CASE old.status = "none"
      <3>1. new = [status |-> "succeeded", attempts |-> 1, limit |-> 1,
                   epoch |-> e, ref |-> r]
        BY <2>1
      <3> HIDE DEF new
      <3> QED BY <1>2, <1>3, <3>1 DEF ItemRow
    <2>2. CASE old.status # "none"
      <3>1. new = [old EXCEPT !.status = "succeeded", !.epoch = e, !.ref = r]
        BY <2>2
      <3> HIDE DEF new
      <3> QED BY <1>2, <1>3, <3>1 DEF ItemRow
    <2> QED BY <2>1, <2>2
  <1>5. lost \in Int /\ jobs[j].completed + 1 \in Int
    BY <1>2 DEF JobRow
  <1>6. row = [jobs[j] EXCEPT !.completed = jobs[j].completed + 1, !.failed = lost]
    BY <1>2 DEF JobRow
  <1>7. row \in JobRow
    <2> HIDE DEF lost, row
    <2> QED BY <1>2, <1>5, <1>6 DEF JobRow
  <1>8. /\ row.status = "running" /\ row.owner = jobs[j].owner /\ row.epoch = jobs[j].epoch
        /\ row.total = jobs[j].total /\ row.completed = jobs[j].completed + 1
        /\ row.failed = lost
    <2> HIDE DEF lost, row
    <2> QED BY <1>2, <1>6 DEF JobRow
  <1>9. SetItem(j, i, new) /\ SetJob(j, row) /\ UNCHANGED <<outbox, grants>>
    BY DEF ReconcileItem
  <1> HIDE DEF new, row
  <1> QED BY <1>1, <1>2, <1>4, <1>7, <1>8, <1>9, RunningItemStep

(* fail_item counts a failure once no attempt is left.                      *)
LEMMA FailItemKeeps ==
  ASSUME IInv, NEW j \in Job, NEW i \in Item, NEW w, NEW e, NEW retryable \in BOOLEAN,
         FailItem(j, w, e, i, retryable)
  PROVE  IInv'
  <1> DEFINE old == items[j][i]
             terminal == ~retryable \/ old.attempts >= old.limit
  <1>1. LockedActive(j, w, e) /\ old.status = "running"
    BY DEF FailItem, OwnsItem
  <1>2. /\ jobs[j] \in JobRow /\ jobs[j].status = "running"
        /\ old \in ItemRow /\ old.attempts <= old.limit
    BY <1>1, ActiveRow DEF AttemptsOK
  <1>3. CASE terminal
    <2> DEFINE new == [old EXCEPT !.status = "failed"]
               row == [jobs[j] EXCEPT !.failed = @ + 1]
    <2>1. new \in ItemRow
      BY <1>2, Names DEF ItemRow
    <2>2. new.status = "failed" /\ new.attempts <= new.limit
      BY <1>2 DEF ItemRow
    <2>3. row \in JobRow
      BY <1>2, JobCounters
    <2>4. /\ row.status = "running" /\ row.owner = jobs[j].owner
          /\ row.epoch = jobs[j].epoch /\ row.total = jobs[j].total
          /\ row.completed = jobs[j].completed /\ row.failed = jobs[j].failed + 1
      BY <1>2 DEF JobRow
    <2>5. SetItem(j, i, new) /\ SetJob(j, row) /\ UNCHANGED <<outbox, grants>>
      BY <1>3 DEF FailItem
    <2> HIDE DEF new, row
    <2> QED BY <1>1, <1>2, <2>1, <2>2, <2>3, <2>4, <2>5, RunningItemStep
  <1>4. CASE ~terminal
    <2> DEFINE new == [old EXCEPT !.status = "pending"]
    <2>1. new \in ItemRow
      BY <1>2, Names DEF ItemRow
    <2>2. new.status = "pending" /\ new.attempts <= new.limit
      BY <1>2 DEF ItemRow
    <2>3. SetItem(j, i, new) /\ SetJob(j, jobs[j]) /\ UNCHANGED <<outbox, grants>>
      BY <1>4 DEF FailItem
    <2> HIDE DEF new
    <2> QED BY <1>1, <1>2, <2>1, <2>2, <2>3, RunningItemStep
  <1> QED BY <1>3, <1>4

(* activate_ingestion_job counts the last stage and closes the job.         *)
LEMMA ActivateKeeps ==
  ASSUME IInv, NEW j \in Job, NEW i \in Item, NEW w, NEW e, NEW q \in Request,
         NEW r \in Ref, ActivateIngestion(j, w, e, i, q, r)
  PROVE  IInv'
  <1> DEFINE new == [items[j][i] EXCEPT !.status = "succeeded", !.ref = r]
             shut == Closed(jobs[j], "succeeded", "none")
             row == [shut EXCEPT !.completed = @ + 1]
             after == [items[j] EXCEPT ![i] = new]
  <1>1. /\ LockedActive(j, w, e) /\ items[j][i].status = "running"
        /\ ~jobs[j].cancel /\ jobs[j].completed = jobs[j].total - 1
    BY DEF ActivateIngestion, OwnsItem, Activatable
  <1>2. /\ jobs[j] \in JobRow /\ jobs[j].status = "running"
        /\ items[j] \in [Item -> ItemRow]
        /\ items[j][i] \in ItemRow /\ items[j][i].attempts <= items[j][i].limit
        /\ LeaseOK(jobs[j], grants[j]) /\ CountsOK(jobs[j], items[j])
    BY <1>1, ActiveRow DEF AttemptsOK
  <1>3. new \in ItemRow
    BY <1>2, Names DEF ItemRow
  <1>4. new.status = "succeeded" /\ new.attempts <= new.limit
    BY <1>2 DEF ItemRow
  <1>5. /\ shut \in JobRow /\ shut.status = "succeeded" /\ shut.owner = None
        /\ shut.lease = 0 /\ shut.epoch = jobs[j].epoch /\ shut.total = jobs[j].total
        /\ shut.completed = jobs[j].completed /\ shut.failed = jobs[j].failed
        /\ shut.cancel = jobs[j].cancel
    <2>1. "succeeded" \in Status /\ "none" \in JobError
      BY Names
    <2> QED BY <1>2, <2>1, ClosedRow
  <1>6. SetItem(j, i, new) /\ SetJob(j, row) /\ UNCHANGED <<outbox, grants>>
    BY DEF ActivateIngestion
  <1> HIDE DEF new, shut
  <1>7. row \in JobRow
    BY <1>5, JobCounters
  <1>8. /\ row.status = "succeeded" /\ row.owner = None /\ row.lease = 0
        /\ row.epoch = jobs[j].epoch /\ row.total = jobs[j].total
        /\ row.completed = jobs[j].completed + 1 /\ row.failed = jobs[j].failed
        /\ row.cancel = jobs[j].cancel
    BY <1>5 DEF JobRow
  <1> HIDE DEF row
  <1>9. LeaseOK(row, grants[j])
    BY <1>2, <1>8 DEF LeaseOK
  <1>10. CountsOK(row, after)
    BY <1>1, <1>2, <1>3, <1>4, <1>7, <1>8, CountsFollow
  <1>11. SuccessOK(row, after)
    <2>1. after \in [Item -> ItemRow]
      BY <1>2, <1>3
    <2>2. jobs[j].total \in Nat
      BY <1>2 DEF JobRow
    <2>3. Cardinality(ItemsIn(after, {"succeeded"})) = row.total
      BY <1>1, <1>8, <1>10, <2>2 DEF CountsOK
    <2>4. ItemsIn(after, HasRow) = ItemsIn(after, {"succeeded"})
      <3> HIDE DEF after
      <3> QED BY <1>10, <2>1, <2>3, <1>8, <2>2, ItemCountOrder DEF CountsOK
    <2> QED BY <1>1, <1>8, <2>3, <2>4 DEF SuccessOK
  <1> QED BY <1>2, <1>3, <1>4, <1>6, <1>7, <1>8, <1>9, <1>10, <1>11, ItemStep

-----------------------------------------------------------------------------
(* The invariant holds *)

(* Empty tables satisfy the invariant.                                      *)
LEMMA InitInvariant == Init => IInv
  <1> SUFFICES ASSUME Init PROVE IInv
    OBVIOUS
  <1>1. TypeOK
    BY InitTypeOK
  <1>2. \A j \in Job : /\ jobs[j] = NoJob /\ items[j] = NoLedger
                       /\ outbox[j] = <<>> /\ grants[j] = <<>>
    BY DEF Init
  <1>3. RowOK(NoJob, NoLedger, <<>>, <<>>)
    <2>1. /\ ItemsIn(NoLedger, {"succeeded"}) = {}
          /\ ItemsIn(NoLedger, {"failed"}) = {}
          /\ ItemsIn(NoLedger, HasRow) = {}
      BY DEF NoLedger, NoItem, ItemsIn, HasRow
    <2>2. /\ Cardinality(ItemsIn(NoLedger, {"succeeded"})) = 0
          /\ Cardinality(ItemsIn(NoLedger, {"failed"})) = 0
          /\ Cardinality(ItemsIn(NoLedger, HasRow)) = 0
      BY <2>1, FS_EmptySet, Zenon
    <2>3. CountsOK(NoJob, NoLedger)
      BY <2>2, NoJobRow DEF CountsOK
    <2>4. LeaseOK(NoJob, <<>>)
      BY NoJobRow DEF LeaseOK
    <2>5. AttemptsOK(NoLedger)
      BY DEF AttemptsOK, NoLedger, NoItem
    <2>6. OutboxOK(NoJob, <<>>)
      BY NoJobRow, LimitsArePositive DEF OutboxOK
    <2> QED BY <2>3, <2>4, <2>5, <2>6, NoJobRow DEF RowOK, FreshOK, SuccessOK
  <1>4. \A j \in Job : RowOK(jobs[j], items[j], outbox[j], grants[j])
    BY <1>2, <1>3
  <1> QED BY <1>1, <1>4 DEF IInv, Unborn, LeasePair, ProgressMatchesItems,
       SuccessIsComplete, AttemptsBounded, OutboxBounded, RowOK

(* The dispatcher's transactions keep the invariant.                        *)
LEMMA DispatchKeeps == IInv /\ Dispatch => IInv'
  BY ClaimOutboxKeeps, MarkKeeps, RequeueKeeps DEF Dispatch

(* A worker that presents a lease it was granted keeps the invariant,       *)
(* whatever it calls.                                                       *)
LEMMA CallKeeps == IInv /\ Call => IInv'
  <1> SUFFICES ASSUME IInv, NEW j \in Job, NEW w \in Worker, NEW e \in DOMAIN grants[j],
                      JobCall(j, w, e) \/ \E i \in Item : ItemCall(j, w, e, i)
               PROVE  IInv'
    BY DEF Call
  <1>1. CASE JobCall(j, w, e)
    <2>1. CASE Heartbeat(j, w, e)
      BY <2>1, HeartbeatKeeps
    <2>2. CASE \E t \in Total : SetTotal(j, w, e, t)
      BY <2>2, SetTotalKeeps
    <2>3. CASE \E stage \in 0..LastStage(jobs[j].kind) : SetStage(j, w, e, stage)
      <3>1. LastStage(jobs[j].kind) \in Int
        BY LimitsArePositive DEF LastStage, Stages
      <3> QED BY <2>3, <3>1, SetStageKeeps
    <2>4. CASE \E status \in Terminal, error \in {"none", "other"} :
                 FinishJob(j, w, e, status, error)
      BY <2>4, FinishKeeps
    <2> QED BY <1>1, <2>1, <2>2, <2>3, <2>4 DEF JobCall
  <1>2. CASE \E i \in Item : ItemCall(j, w, e, i)
    <2>1. PICK i \in Item : ItemCall(j, w, e, i)
      BY <1>2
    <2>2. CASE ClaimNewItem(j, w, e, i) \/ RetryItem(j, w, e, i) \/ ExhaustItem(j, w, e, i)
      BY <2>2, ClaimNewItemKeeps, RetryItemKeeps, ExhaustItemKeeps
    <2>3. CASE \E r \in Ref : CompleteItem(j, w, e, i, r)
      BY <2>3, CompleteItemKeeps
    <2>4. CASE \E r \in Ref : ReconcileItem(j, w, e, i, r)
      BY <2>4, ReconcileItemKeeps
    <2>5. CASE \E retryable \in BOOLEAN : FailItem(j, w, e, i, retryable)
      BY <2>5, FailItemKeeps
    <2>6. CASE \E q \in Request, r \in Ref : ActivateIngestion(j, w, e, i, q, r)
      BY <2>6, ActivateKeeps
    <2> QED BY <2>1, <2>2, <2>3, <2>4, <2>5, <2>6 DEF ItemCall
  <1> QED BY <1>1, <1>2

(* No transaction, and no passage of time, breaks the invariant.            *)
LEMMA StepInvariant == IInv /\ [Next]_vars => IInv'
  <1> SUFFICES ASSUME IInv, [Next]_vars PROVE IInv'
    OBVIOUS
  <1>1. CASE Submit
    BY <1>1, SubmitKeeps
  <1>2. CASE \E j \in Job : RequestCancel(j)
    BY <1>2, CancelKeeps
  <1>3. CASE Dispatch
    BY <1>3, DispatchKeeps
  <1>4. CASE Claim
    BY <1>4, ClaimJobKeeps, ClaimsSpentKeeps DEF Claim
  <1>5. CASE Call
    BY <1>5, CallKeeps
  <1>6. CASE Clock
    BY <1>6, ClockKeeps DEF Clock
  <1>7. CASE UNCHANGED vars
    BY <1>7 DEF vars, IInv, TypeOK, Unborn, LeasePair, ProgressMatchesItems,
       SuccessIsComplete, AttemptsBounded, OutboxBounded
  <1> QED BY <1>1, <1>2, <1>3, <1>4, <1>5, <1>6, <1>7 DEF Next

(* The job tables keep their inductive invariant whatever the callers do:   *)
(* the base of every theorem below.                                         *)
THEOREM Invariance == Spec => []IInv
  BY InitInvariant, StepInvariant, PTL DEF Spec

(* Every row of every table keeps its type. *)
THEOREM TypeCorrectness == Spec => []TypeOK
  <1>1. IInv => TypeOK
    BY DEF IInv
  <1> QED BY <1>1, Invariance, PTL

(* The counters a client reads are those of the item ledger, through retries,
   reconciliation after a crash and writes of stale workers. *)
THEOREM CountsAreRight == Spec => []ProgressMatchesItems
  <1>1. IInv => ProgressMatchesItems
    BY DEF IInv
  <1> QED BY <1>1, Invariance, PTL

(* A job reported as succeeded has all its items and was never cancelled. *)
THEOREM SuccessIsHonest == Spec => []SuccessIsComplete
  <1>1. IInv => SuccessIsComplete
    BY DEF IInv
  <1> QED BY <1>1, Invariance, PTL

(* A job has an owner exactly while it runs, and it is the last grantee. *)
THEOREM LeasesArePaired == Spec => []LeasePair
  <1>1. IInv => LeasePair
    BY DEF IInv
  <1> QED BY <1>1, Invariance, PTL

(* Recovery never floods the queue: one undelivered message per job at a
   time and MaxAutoDeliveries in all. *)
THEOREM DeliveriesAreBounded == Spec => []OutboxBounded
  <1>1. IInv => OutboxBounded
    BY DEF IInv
  <1> QED BY <1>1, Invariance, PTL

(* No item is attempted beyond its limit, crashes included. *)
THEOREM AttemptsAreBounded == Spec => []AttemptsBounded
  <1>1. IInv => AttemptsBounded
    BY DEF IInv
  <1> QED BY <1>1, Invariance, PTL

(* The tables keep all of it together: types, leases, deliveries, attempts. *)
THEOREM TablesStaySound == Spec => []TablesAreSound
  <1>1. IInv => TablesAreSound
    BY DEF IInv, TablesAreSound
  <1> QED BY <1>1, Invariance, PTL

-----------------------------------------------------------------------------
(* One job per idempotency key *)

(* The identity of a row stays: it keeps its kind, key and request, and one *)
(* that is not active (never written, or at its end) is not written.        *)
SameIdentity(row, new) ==
  /\ new.kind = row.kind
  /\ new.key = row.key
  /\ new.request = row.request
  /\ row.status \notin Active => new = row

(* Rewriting one row without changing its identity changes no identity.     *)
LEMMA IdentityStep ==
  ASSUME TypeOK, NEW j \in Job, NEW row, SetJob(j, row), SameIdentity(jobs[j], row)
  PROVE  \A k \in Job : SameIdentity(jobs[k], jobs'[k])
  <1>1. jobs'[j] = row /\ \A k \in Job \ {j} : jobs'[k] = jobs[k]
    BY DEF SetJob, TypeOK
  <1> QED BY <1>1 DEF SameIdentity

(* Closing a row that is active keeps its identity.                         *)
LEMMA ClosedIdentity ==
  ASSUME NEW row \in JobRow, NEW status, NEW error, row.status \in Active
  PROVE  SameIdentity(row, Closed(row, status, error))
  BY DEF Closed, JobRow, SameIdentity

(* No transaction but a submission changes the identity of a row.           *)
LEMMA IdentityKept ==
  ASSUME TypeOK, LeasePair, [Next]_vars, ~Submit
  PROVE  \A k \in Job : SameIdentity(jobs[k], jobs'[k])
  <1>0. \A k \in Job : jobs[k] \in JobRow
    BY DEF TypeOK
  <1>1. CASE UNCHANGED jobs
    BY <1>1 DEF SameIdentity
  <1>2. ASSUME NEW j \in Job, RequestCancel(j)
        PROVE  \A k \in Job : SameIdentity(jobs[k], jobs'[k])
    <2>1. jobs[j].status \in Active
      BY <1>2 DEF RequestCancel, Active
    <2>2. SameIdentity(jobs[j], [jobs[j] EXCEPT !.cancel = TRUE,
                                   !.status = IF @ = "queued" THEN "cancelled" ELSE @])
      BY <1>0, <2>1 DEF SameIdentity, JobRow
    <2> QED BY <1>2, <2>2, IdentityStep DEF RequestCancel
  <1>3. CASE Dispatch
    <2>1. CASE \E batch \in SUBSET Job : RequeueExpired(batch)
      <3>1. PICK batch \in SUBSET Job : RequeueExpired(batch)
        BY <2>1
      <3>2. ASSUME NEW k \in Job PROVE SameIdentity(jobs[k], jobs'[k])
        <4>1. jobs'[k] = IF k \in batch /\ Exhausted(k)
                         THEN Closed(jobs[k], "queued", "delivery_unconfirmed")
                         ELSE jobs[k]
          BY <3>1 DEF RequeueExpired
        <4>2. CASE k \in batch /\ Exhausted(k)
          <5>1. jobs[k].status \in Active
            BY <3>1, <4>2 DEF RequeueExpired, Recoverable, Active
          <5> QED BY <1>0, <4>1, <4>2, <5>1, ClosedIdentity
        <4> QED BY <4>1, <4>2 DEF SameIdentity
      <3> QED BY <3>2
    <2>2. ASSUME NEW d, NEW batch, ClaimOutbox(d, batch) PROVE UNCHANGED jobs
      BY <2>2, Zenon DEF ClaimOutbox
    <2>3. ASSUME NEW d, NEW j, NEW n, NEW e, MarkDelivered(d, j, n, e) \/ MarkRetry(d, j, n, e)
          PROVE  UNCHANGED jobs
      BY <2>3, Zenon DEF MarkDelivered, MarkRetry
    <2> QED BY <1>1, <1>3, <2>1, <2>2, <2>3, Zenon DEF Dispatch
  <1>4. ASSUME NEW j \in Job, ~Unclaimable(j), ClaimsSpent(j)
        PROVE  \A k \in Job : SameIdentity(jobs[k], jobs'[k])
    <2>1. jobs[j].status \in Active
      BY <1>4 DEF Unclaimable, Active
    <2> QED BY <1>0, <1>4, <2>1, ClosedIdentity, IdentityStep DEF ClaimsSpent
  <1>5. ASSUME NEW j \in Job, NEW w \in Worker, ClaimJob(j, w)
        PROVE  \A k \in Job : SameIdentity(jobs[k], jobs'[k])
    <2>1. jobs[j].status \in Active
      BY <1>5 DEF ClaimJob, Unclaimable, Active
    <2> DEFINE new == [jobs[j] EXCEPT
                  !.status = "running", !.owner = w, !.epoch = @ + 1,
                  !.claims = @ + 1, !.lease = LeaseTicks,
                  !.error = IF @ = "delivery_unconfirmed" THEN "none" ELSE @]
    <2>2. SameIdentity(jobs[j], new)
      BY <1>0, <2>1 DEF SameIdentity, JobRow
    <2> QED BY <1>5, <2>2, IdentityStep DEF ClaimJob
  <1>6. CASE Claim
    <2>1. \A j \in Job : ClaimsSpent(j) => ~Unclaimable(j)
      BY DEF ClaimsSpent
    <2> QED BY <1>6, <2>1, <1>4, <1>5 DEF Claim
  <1>7. CASE Call
    <2>1. PICK j \in Job, w \in Worker : \E e \in DOMAIN grants[j] :
            JobCall(j, w, e) \/ \E i \in Item : ItemCall(j, w, e, i)
      BY <1>7 DEF Call
    <2>2. PICK e \in DOMAIN grants[j] :
            JobCall(j, w, e) \/ \E i \in Item : ItemCall(j, w, e, i)
      BY <2>1
    <2>3. ASSUME LockedActive(j, w, e) PROVE jobs[j].status \in Active
      BY <2>3 DEF LockedActive, Active
    <2>4. CASE JobCall(j, w, e)
      <3>1. LockedActive(j, w, e)
        BY <2>4 DEF JobCall, Heartbeat, SetTotal, SetStage, FinishJob
      <3>2. CASE Heartbeat(j, w, e)
        BY <1>0, <2>3, <3>1, <3>2, IdentityStep DEF Heartbeat, SameIdentity, JobRow
      <3>3. CASE \E t \in Total : SetTotal(j, w, e, t)
        BY <1>0, <2>3, <3>1, <3>3, IdentityStep DEF SetTotal, SameIdentity, JobRow
      <3>4. CASE \E stage \in 0..LastStage(jobs[j].kind) : SetStage(j, w, e, stage)
        BY <1>0, <2>3, <3>1, <3>4, IdentityStep DEF SetStage, SameIdentity, JobRow
      <3>5. CASE \E status \in Terminal, error \in {"none", "other"} :
                   FinishJob(j, w, e, status, error)
        BY <1>0, <2>3, <3>1, <3>5, ClosedIdentity, IdentityStep DEF FinishJob
      <3> QED BY <2>4, <3>2, <3>3, <3>4, <3>5 DEF JobCall
    <2>5. CASE \E i \in Item : ItemCall(j, w, e, i)
      <3>1. PICK i \in Item : ItemCall(j, w, e, i)
        BY <2>5
      <3>8. jobs[j].status \in Active
        BY <2>3, <3>1 DEF ItemCall, ClaimNewItem, RetryItem, ExhaustItem, CompleteItem,
                         ReconcileItem, FailItem, ActivateIngestion, MayClaim
      <3>2. CASE ClaimNewItem(j, w, e, i) \/ RetryItem(j, w, e, i)
        BY <1>1, <3>2 DEF ClaimNewItem, RetryItem
      <3>3. CASE ExhaustItem(j, w, e, i)
        BY <1>0, <3>8, <3>3, IdentityStep DEF ExhaustItem, SameIdentity, JobRow
      <3>4. CASE \E r \in Ref : CompleteItem(j, w, e, i, r)
        BY <1>0, <3>8, <3>4, IdentityStep DEF CompleteItem, SameIdentity, JobRow
      <3>5. CASE \E r \in Ref : ReconcileItem(j, w, e, i, r)
        <4> DEFINE new == [jobs[j] EXCEPT
                  !.completed = @ + 1,
                  !.failed = IF items[j][i].status = "failed" THEN @ - 1 ELSE @]
        <4>1. SameIdentity(jobs[j], new)
          BY <1>0, <3>8 DEF SameIdentity, JobRow
        <4> QED BY <3>5, <4>1, IdentityStep DEF ReconcileItem
      <3>6. CASE \E retryable \in BOOLEAN : FailItem(j, w, e, i, retryable)
        <4>1. SameIdentity(jobs[j], [jobs[j] EXCEPT !.failed = @ + 1])
          BY <1>0, <3>8 DEF SameIdentity, JobRow
        <4>2. SameIdentity(jobs[j], jobs[j])
          BY DEF SameIdentity
        <4>3. SetJob(j, [jobs[j] EXCEPT !.failed = @ + 1]) \/ SetJob(j, jobs[j])
          BY <3>6 DEF FailItem
        <4> QED BY <4>1, <4>2, <4>3, IdentityStep
      <3>7. CASE \E q \in Request, r \in Ref : ActivateIngestion(j, w, e, i, q, r)
        <4> DEFINE closed == Closed(jobs[j], "succeeded", "none")
        <4>1. jobs[j].status \in Active
          BY <3>7, <2>3 DEF ActivateIngestion
        <4>2. closed \in JobRow /\ SameIdentity(jobs[j], closed)
          <5>1. jobs[j] \in JobRow /\ "succeeded" \in Status /\ "none" \in JobError
            BY <1>0 DEF Status, Terminal, JobError
          <5>2. closed \in JobRow
            BY <5>1, ClosedRow
          <5>3. SameIdentity(jobs[j], closed)
            BY <4>1, <5>1, ClosedIdentity
          <5> QED BY <5>2, <5>3
        <4>3. SameIdentity(jobs[j], [closed EXCEPT !.completed = @ + 1])
          <5> HIDE DEF closed
          <5> QED BY <4>1, <4>2 DEF SameIdentity, JobRow
        <4>4. SetJob(j, [closed EXCEPT !.completed = @ + 1])
          BY <3>7 DEF ActivateIngestion
        <4> QED BY <4>3, <4>4, IdentityStep
      <3> QED BY <3>1, <3>2, <3>3, <3>4, <3>5, <3>6, <3>7 DEF ItemCall
    <2> QED BY <2>2, <2>4, <2>5
  <1>8. CASE Clock
    <2>1. ASSUME NEW j \in Job, TickLease(j)
          PROVE  \A k \in Job : SameIdentity(jobs[k], jobs'[k])
      <3>1. jobs[j].status \in Active
        BY <2>1 DEF TickLease, LeasePair, LeaseOK, Active
      <3>2. SameIdentity(jobs[j], [jobs[j] EXCEPT !.lease = @ - 1])
        BY <1>0, <3>1 DEF SameIdentity, JobRow
      <3> QED BY <2>1, <3>2, IdentityStep DEF TickLease
    <2> QED BY <1>1, <1>8, <2>1 DEF Clock, ExpireClaim
  <1>9. CASE UNCHANGED vars
    BY <1>1, <1>9 DEF vars
  <1> QED BY <1>2, <1>3, <1>6, <1>7, <1>8, <1>9 DEF Next

(* A job that has ended is never written again.                             *)
LEMMA EndsStay ==
  ASSUME TypeOK, LeasePair, [Next]_vars, NEW j \in Job, jobs[j].status \in Terminal
  PROVE  jobs'[j] = jobs[j]
  <1>1. CASE Submit
    <2>1. PICK l \in Job, kind \in Kind, k \in Key \cup {None} :
            \E r \in Request, t \in Total : CreateJob(l, kind, k, r, t)
      BY <1>1 DEF Submit
    <2>2. PICK r \in Request, t \in Total : CreateJob(l, kind, k, r, t)
      BY <2>1
    <2>3. l # j
      BY <2>2 DEF CreateJob, Exists, Terminal
    <2> QED BY <2>2, <2>3 DEF CreateJob, SetJob, TypeOK
  <1>2. CASE ~Submit
    BY <1>2, IdentityKept DEF SameIdentity, Terminal, Active
  <1> QED BY <1>1, <1>2

(* The request of a job is one that was submitted.                          *)
RequestsKnown == \A j \in Job : Exists(j) => jobs[j].request \in Request

LEMMA RequestsStay ==
  ASSUME TypeOK, LeasePair, RequestsKnown, [Next]_vars
  PROVE  RequestsKnown'
  <1>1. CASE Submit
    <2>1. PICK l \in Job, kind \in Kind, k \in Key \cup {None} :
            \E r \in Request, t \in Total : CreateJob(l, kind, k, r, t)
      BY <1>1 DEF Submit
    <2>2. PICK r \in Request, t \in Total : CreateJob(l, kind, k, r, t)
      BY <2>1
    <2>3. jobs'[l].request = r /\ \A m \in Job \ {l} : jobs'[m] = jobs[m]
      BY <2>2 DEF CreateJob, SetJob, TypeOK, NoJob
    <2> QED BY <2>3 DEF RequestsKnown, Exists
  <1>2. CASE ~Submit
    BY <1>2, IdentityKept DEF SameIdentity, RequestsKnown, Exists, Active
  <1> QED BY <1>1, <1>2

(* A submission takes a key of its kind only while no job holds it, and no  *)
(* other transaction gives, takes or moves a key: a repeated submission     *)
(* finds the job of the first one, whatever has become of it.               *)
THEOREM KeysAreUnique == Spec => []OneJobPerKey
  <1>1. Init => OneJobPerKey
    BY DEF Init, NoJob, OneJobPerKey, Exists
  <1>2. ASSUME IInv, OneJobPerKey, [Next]_vars PROVE OneJobPerKey'
    <2>0. TypeOK /\ LeasePair
      BY <1>2 DEF IInv
    <2>1. CASE Submit
      <3>1. PICK j \in Job, kind \in Kind, k \in Key \cup {None} :
              \E r \in Request, t \in Total : CreateJob(j, kind, k, r, t)
        BY <2>1 DEF Submit
      <3>2. PICK r \in Request, t \in Total : CreateJob(j, kind, k, r, t)
        BY <3>1
      <3>3. /\ jobs'[j].kind = kind /\ jobs'[j].key = k
            /\ \A l \in Job \ {j} : jobs'[l] = jobs[l]
        BY <2>0, <3>2 DEF CreateJob, SetJob, TypeOK, NoJob
      <3>4. \A l \in Job : Exists(l) /\ k # None => jobs[l].kind # kind \/ jobs[l].key # k
        BY <3>2 DEF CreateJob, Conflicting
      <3> QED BY <1>2, <3>3, <3>4 DEF OneJobPerKey, Exists
    <2>2. CASE ~Submit
      <3>1. \A k \in Job : SameIdentity(jobs[k], jobs'[k])
        BY <1>2, <2>0, <2>2, IdentityKept
      <3> QED BY <1>2, <3>1 DEF OneJobPerKey, Exists, SameIdentity, Active
    <2> QED BY <2>1, <2>2
  <1> QED BY <1>1, <1>2, Invariance, PTL DEF Spec

-----------------------------------------------------------------------------
(* What an update of the tables shows *)

(* A write of one job row shows in the entries of that job alone.           *)
LEMMA ViewJob ==
  ASSUME jobs \in [Job -> JobRow], NEW j \in Job, NEW row \in JobRow, SetJob(j, row)
  PROVE  /\ Phase' = [Phase EXCEPT ![j] = PhaseOf[row.status]]
         /\ Size' = [Size EXCEPT ![j] = row.total]
         /\ Turn' = [Turn EXCEPT ![j] = row.epoch]
         /\ Asked' = [Asked EXCEPT ![j] = row.cancel]
  <1>1. jobs'[j] = row /\ \A k \in Job \ {j} : jobs'[k] = jobs[k]
    BY JobUpdate
  <1>2. Phase' = [Phase EXCEPT ![j] = PhaseOf[row.status]]
    BY <1>1 DEF Phase
  <1>3. Size' = [Size EXCEPT ![j] = row.total]
    BY <1>1 DEF Size
  <1>4. Turn' = [Turn EXCEPT ![j] = row.epoch]
    BY <1>1 DEF Turn
  <1>5. Asked' = [Asked EXCEPT ![j] = row.cancel]
    BY <1>1 DEF Asked
  <1> QED BY <1>2, <1>3, <1>4, <1>5

(* The entries of a job as the tables give them.                            *)
LEMMA ViewOf ==
  ASSUME NEW j \in Job
  PROVE  /\ Phase[j] = PhaseOf[jobs[j].status]
         /\ Size[j] = jobs[j].total
         /\ Turn[j] = jobs[j].epoch
         /\ Asked[j] = jobs[j].cancel
         /\ \A i \in Item : CreditTable[j][i] = CreditOf(items[j][i])
  BY DEF Phase, Size, Turn, Asked, CreditTable

(* A write that leaves a field alone leaves its view alone.                 *)
LEMMA ViewKept ==
  ASSUME jobs \in [Job -> JobRow], NEW j \in Job, NEW row \in JobRow, SetJob(j, row)
  PROVE  /\ PhaseOf[row.status] = PhaseOf[jobs[j].status] => Phase' = Phase
         /\ row.total = jobs[j].total => Size' = Size
         /\ row.epoch = jobs[j].epoch => Turn' = Turn
         /\ row.cancel = jobs[j].cancel => Asked' = Asked
  <1>1. jobs'[j] = row /\ \A k \in Job \ {j} : jobs'[k] = jobs[k]
    BY JobUpdate
  <1>2. ASSUME PhaseOf[row.status] = PhaseOf[jobs[j].status] PROVE Phase' = Phase
    BY <1>1, <1>2 DEF Phase
  <1>3. ASSUME row.total = jobs[j].total PROVE Size' = Size
    BY <1>1, <1>3 DEF Size
  <1>4. ASSUME row.epoch = jobs[j].epoch PROVE Turn' = Turn
    BY <1>1, <1>4 DEF Turn
  <1>5. ASSUME row.cancel = jobs[j].cancel PROVE Asked' = Asked
    BY <1>1, <1>5 DEF Asked
  <1> QED BY <1>2, <1>3, <1>4, <1>5

(* A write of one item row shows in the credit of that item alone.          *)
LEMMA ViewItem ==
  ASSUME items \in [Job -> [Item -> ItemRow]],
         NEW j \in Job, NEW i \in Item, NEW row \in ItemRow, SetItem(j, i, row)
  PROVE  /\ CreditTable' = [CreditTable EXCEPT ![j] = [@ EXCEPT ![i] = CreditOf(row)]]
         /\ CreditOf(row) = CreditOf(items[j][i]) => CreditTable' = CreditTable
  <1>1. /\ items'[j][i] = row
        /\ \A k \in Item \ {i} : items'[j][k] = items[j][k]
        /\ \A k \in Job \ {j} : items'[k] = items[k]
    BY ItemUpdate
  <1> DEFINE old(k) == [n \in Item |-> CreditOf(items[k][n])]
             new(k) == [n \in Item |-> CreditOf(items'[k][n])]
  <1>2. \A k \in Job \ {j} : new(k) = old(k)
    BY <1>1
  <1>3. new(j) = [old(j) EXCEPT ![i] = CreditOf(row)]
    BY <1>1
  <1>4. CreditTable = [k \in Job |-> old(k)] /\ CreditTable' = [k \in Job |-> new(k)]
    BY DEF CreditTable, CreditOf
  <1>5. CreditOf(row) = CreditOf(items[j][i]) => new(j) = old(j)
    BY <1>1
  <1> HIDE DEF old, new
  <1>6. CreditTable' = [CreditTable EXCEPT ![j] = [@ EXCEPT ![i] = CreditOf(row)]]
    BY <1>2, <1>3, <1>4
  <1>7. CreditOf(row) = CreditOf(items[j][i]) => CreditTable' = CreditTable
    BY <1>2, <1>4, <1>5
  <1> QED BY <1>6, <1>7

(* The credited items are the succeeded ones.                               *)
LEMMA CreditedItems ==
  ASSUME NEW j \in Job
  PROVE  Contract!Credited(j) = ItemsIn(items[j], {"succeeded"})
  BY ViewOf DEF Contract!Credited, CreditOf, ItemsIn

(* The contract counts them as the tables do.                               *)
LEMMA SameCount ==
  ASSUME NEW j \in Job
  PROVE  Contract!Cardinality(Contract!Credited(j))
           = Cardinality(ItemsIn(items[j], {"succeeded"}))
  <1>1. \A S : Contract!Cardinality(S) = Cardinality(S)
    BY DEF Contract!Cardinality, Cardinality
  <1> QED BY <1>1, CreditedItems, Zenon

(* What the contract sees.                                                  *)
View == <<Phase, Size, Turn, Asked, CreditTable>>

(* A write of a job row that keeps the fields of the view.                  *)
LEMMA HiddenJobStep ==
  ASSUME IInv, NEW j \in Job, NEW row \in JobRow, SetJob(j, row), items' = items,
         row.status = jobs[j].status, row.total = jobs[j].total,
         row.epoch = jobs[j].epoch, row.cancel = jobs[j].cancel
  PROVE  UNCHANGED View
  <1>1. jobs \in [Job -> JobRow]
    BY DEF IInv, TypeOK
  <1>2. CreditTable' = CreditTable
    BY DEF CreditTable
  <1> QED BY <1>1, <1>2, ViewKept DEF View

(* A write of an item row that is not succeeded, before or after.           *)
LEMMA HiddenItemStep ==
  ASSUME IInv, NEW j \in Job, NEW i \in Item, NEW row \in JobRow, SetJob(j, row),
         NEW new \in ItemRow, SetItem(j, i, new),
         new.status # "succeeded", items[j][i].status # "succeeded",
         row.status = jobs[j].status, row.total = jobs[j].total,
         row.epoch = jobs[j].epoch, row.cancel = jobs[j].cancel
  PROVE  UNCHANGED View
  <1>1. jobs \in [Job -> JobRow] /\ items \in [Job -> [Item -> ItemRow]]
    BY DEF IInv, TypeOK
  <1>2. CreditOf(new) = CreditOf(items[j][i])
    BY DEF CreditOf
  <1>3. CreditTable' = CreditTable
    BY <1>1, <1>2, ViewItem
  <1> QED BY <1>1, <1>3, ViewKept DEF View

(* A step that changes no job and no item.                                  *)
LEMMA HiddenOutboxStep == UNCHANGED <<jobs, items>> => UNCHANGED View
  BY DEF View, Phase, Size, Turn, Asked, CreditTable

-----------------------------------------------------------------------------
(* Each transaction as a step of the contract *)

(* A step that the contract allows, or does not see.                        *)
ContractStep == Contract!Next \/ UNCHANGED View

(* A submission makes a waiting job of the declared size.                   *)
LEMMA SubmitStep == IInv /\ Submit => ContractStep
  <1> SUFFICES ASSUME IInv, NEW j \in Job, NEW kind \in Kind, NEW k \in Key \cup {None},
                      NEW r \in Request, NEW t \in Total, CreateJob(j, kind, k, r, t)
               PROVE  Contract!Submit(j, t)
    BY DEF Submit, ContractStep, Contract!Next
  <1> DEFINE row == [NoJob EXCEPT !.status = "queued", !.kind = kind, !.key = k,
                                  !.request = r, !.total = t]
  <1>1. jobs[j] = NoJob /\ jobs[j].status = "none"
    BY RowView DEF CreateJob, Exists, RowOK, FreshOK
  <1>2. /\ row \in JobRow /\ row.status = "queued" /\ row.total = t
        /\ row.epoch = jobs[j].epoch /\ row.cancel = jobs[j].cancel
    <2>1. "queued" \in Status /\ t \in Nat
      BY Names, TotalsAreCounts
    <2>2. row \in JobRow
      BY <2>1, NoJobRow DEF JobRow
    <2>3. row.status = "queued" /\ row.total = t
      BY NoJobRow DEF JobRow
    <2>4. row.epoch = NoJob.epoch /\ row.cancel = NoJob.cancel
      BY NoJobRow DEF JobRow
    <2> QED BY <1>1, <2>2, <2>3, <2>4
  <1>3. SetJob(j, row) /\ items' = items
    BY DEF CreateJob
  <1> HIDE DEF row
  <1>4. jobs \in [Job -> JobRow]
    BY DEF IInv, TypeOK
  <1>5. Phase' = [Phase EXCEPT ![j] = "waiting"] /\ Size' = [Size EXCEPT ![j] = t]
    BY <1>2, <1>3, <1>4, ViewJob DEF PhaseOf
  <1>6. Turn' = Turn /\ Asked' = Asked
    BY <1>2, <1>3, <1>4, ViewKept
  <1>7. CreditTable' = CreditTable
    BY <1>3 DEF CreditTable
  <1>8. Phase[j] = "none"
    BY <1>1, ViewOf DEF PhaseOf
  <1> QED BY <1>5, <1>6, <1>7, <1>8 DEF Contract!Submit, Contract!Move

(* A cancellation ends a waiting job and marks an active one.               *)
LEMMA CancelStep ==
  ASSUME IInv, NEW j \in Job, RequestCancel(j)
  PROVE  Contract!AskCancel(j)
  <1> DEFINE row == [jobs[j] EXCEPT !.cancel = TRUE,
                                    !.status = IF @ = "queued" THEN "cancelled" ELSE @]
  <1>0. jobs \in [Job -> JobRow]
    BY DEF IInv, TypeOK
  <1>1. jobs[j] \in JobRow /\ jobs[j].status \in {"queued", "running"}
    BY RowView DEF RequestCancel, Active
  <1>2. row \in JobRow
    BY <1>1, Names DEF JobRow
  <1>3. /\ row.status = IF jobs[j].status = "queued" THEN "cancelled" ELSE "running"
        /\ row.epoch = jobs[j].epoch /\ row.total = jobs[j].total /\ row.cancel = TRUE
    BY <1>1 DEF JobRow
  <1>4. SetJob(j, row) /\ items' = items
    BY DEF RequestCancel
  <1> HIDE DEF row
  <1>5. /\ Phase' = [Phase EXCEPT ![j] = PhaseOf[row.status]]
        /\ Asked' = [Asked EXCEPT ![j] = TRUE]
    BY <1>0, <1>2, <1>3, <1>4, ViewJob
  <1>6. Size' = Size /\ Turn' = Turn
    BY <1>0, <1>2, <1>3, <1>4, ViewKept
  <1>7. CreditTable' = CreditTable
    BY <1>4 DEF CreditTable
  <1>8. /\ Phase[j] \in {"waiting", "active"}
        /\ PhaseOf[row.status] = IF Phase[j] = "waiting" THEN "cancelled" ELSE "active"
    BY <1>1, <1>3, ViewOf DEF PhaseOf
  <1> QED BY <1>5, <1>6, <1>7, <1>8 DEF Contract!AskCancel, Contract!Move

(* Recovery takes the turn from the running jobs it gives up on.            *)
LEMMA RequeueStep ==
  ASSUME IInv, NEW batch \in SUBSET Job, RequeueExpired(batch)
  PROVE  \E lost \in SUBSET Job : Contract!GiveUp(lost)
  <1> DEFINE lost == {j \in batch : Exhausted(j) /\ jobs[j].status = "running"}
             row(j) == Closed(jobs[j], "queued", "delivery_unconfirmed")
  <1>1. \A j \in Job : /\ row(j).status = "queued"
                       /\ row(j).total = jobs[j].total /\ row(j).epoch = jobs[j].epoch
                       /\ row(j).cancel = jobs[j].cancel
    <2>1. "queued" \in Status /\ "delivery_unconfirmed" \in JobError
      BY Names
    <2> QED BY <2>1, RowView, ClosedRow
  <1>2. \A j \in Job : jobs'[j] = IF j \in batch /\ Exhausted(j) THEN row(j) ELSE jobs[j]
    BY DEF RequeueExpired
  <1>3. \A j \in batch : jobs[j].status \in {"queued", "running"}
    BY DEF RequeueExpired, Recoverable
  <1> HIDE DEF row
  <1>4. Size' = Size /\ Turn' = Turn /\ Asked' = Asked
    BY <1>1, <1>2 DEF Size, Turn, Asked
  <1>5. CreditTable' = CreditTable
    BY DEF RequeueExpired, CreditTable
  <1>6. \A j \in Job : PhaseOf[jobs'[j].status]
                         = IF j \in lost THEN "waiting" ELSE PhaseOf[jobs[j].status]
    BY <1>1, <1>2, <1>3 DEF PhaseOf
  <1>7. \A j \in lost : Phase[j] = "active"
    BY ViewOf DEF PhaseOf
  <1>8. Phase' = [j \in Job |-> IF j \in lost THEN "waiting" ELSE Phase[j]]
    BY <1>6 DEF Phase
  <1>9. lost \in SUBSET Job
    OBVIOUS
  <1> HIDE DEF lost
  <1> QED BY <1>4, <1>5, <1>7, <1>8, <1>9 DEF Contract!GiveUp

(* A claim, whoever takes it, starts a new turn.                            *)
LEMMA ClaimJobStep ==
  ASSUME IInv, NEW j \in Job, NEW w \in Worker, ClaimJob(j, w)
  PROVE  Contract!TakeTurn(j)
  <1> DEFINE row == [jobs[j] EXCEPT
                       !.status = "running", !.owner = w, !.epoch = @ + 1,
                       !.claims = @ + 1, !.lease = LeaseTicks,
                       !.error = IF @ = "delivery_unconfirmed" THEN "none" ELSE @]
  <1>1. jobs \in [Job -> JobRow]
    BY DEF IInv, TypeOK
  <1>2. jobs[j] \in JobRow /\ jobs[j].status \in {"queued", "running"}
    BY RowView DEF ClaimJob, Unclaimable, Active
  <1>3. row \in JobRow
    BY <1>2, ClaimedJobRow
  <1>4. /\ row.status = "running" /\ row.epoch = jobs[j].epoch + 1
        /\ row.total = jobs[j].total /\ row.cancel = jobs[j].cancel
    BY <1>2 DEF JobRow
  <1>5. SetJob(j, row) /\ items' = items
    BY DEF ClaimJob
  <1> HIDE DEF row
  <1>6. /\ Phase' = [Phase EXCEPT ![j] = "active"]
        /\ Turn' = [Turn EXCEPT ![j] = jobs[j].epoch + 1]
    BY <1>1, <1>3, <1>4, <1>5, ViewJob DEF PhaseOf
  <1>7. Size' = Size /\ Asked' = Asked
    BY <1>1, <1>3, <1>4, <1>5, ViewKept
  <1>8. CreditTable' = CreditTable
    BY <1>5 DEF CreditTable
  <1>9. Phase[j] \in {"waiting", "active"} /\ Turn[j] = jobs[j].epoch /\ j \in DOMAIN Turn
    BY <1>2, ViewOf DEF PhaseOf, Turn
  <1>10. Turn' = [Turn EXCEPT ![j] = @ + 1]
    BY <1>6, <1>9
  <1> QED BY <1>6, <1>7, <1>8, <1>9, <1>10 DEF Contract!TakeTurn, Contract!Move

(* Closing a job that waits or runs, with a status it may end in.           *)
LEMMA CloseStep ==
  ASSUME IInv, NEW j \in Job, jobs[j].status \in {"queued", "running"},
         NEW status \in {"failed", "cancelled"}, NEW error \in JobError,
         status = "cancelled" => jobs[j].cancel,
         SetJob(j, Closed(jobs[j], status, error)), items' = items
  PROVE  Contract!Stop(j, status)
  <1> DEFINE row == Closed(jobs[j], status, error)
  <1>1. jobs \in [Job -> JobRow]
    BY DEF IInv, TypeOK
  <1>2. jobs[j] \in JobRow /\ status \in Status
    BY RowView, Names
  <1>3. /\ row \in JobRow /\ row.status = status /\ row.epoch = jobs[j].epoch
        /\ row.total = jobs[j].total /\ row.cancel = jobs[j].cancel
    BY <1>2, ClosedRow
  <1> HIDE DEF row
  <1>4. SetJob(j, row)
    BY DEF row
  <1>5. Phase' = [Phase EXCEPT ![j] = status]
    BY <1>1, <1>3, <1>4, ViewJob DEF PhaseOf
  <1>6. Size' = Size /\ Turn' = Turn /\ Asked' = Asked
    BY <1>1, <1>3, <1>4, ViewKept
  <1>7. CreditTable' = CreditTable
    BY DEF CreditTable
  <1>8. Phase[j] \in {"waiting", "active"} /\ Asked[j] = jobs[j].cancel
    BY ViewOf DEF PhaseOf
  <1> QED BY <1>5, <1>6, <1>7, <1>8 DEF Contract!Stop, Contract!Move

(* Running out of claims ends the job as cancelled or failed.               *)
LEMMA ClaimsSpentStep ==
  ASSUME IInv, NEW j \in Job, ClaimsSpent(j)
  PROVE  \E end \in {"failed", "cancelled"} : Contract!Stop(j, end)
  <1>1. jobs[j].status \in {"queued", "running"} /\ items' = items
    BY DEF ClaimsSpent, Unclaimable, Active
  <1>2. "none" \in JobError /\ "worker_attempts_exhausted" \in JobError
    BY Names
  <1>3. CASE jobs[j].cancel
    BY <1>1, <1>2, <1>3, CloseStep DEF ClaimsSpent
  <1>4. CASE ~jobs[j].cancel
    BY <1>1, <1>2, <1>4, CloseStep DEF ClaimsSpent
  <1> QED BY <1>3, <1>4

(* A worker that finishes its job succeeds, or stops, in the contract too.  *)
LEMMA FinishStep ==
  ASSUME IInv, NEW j \in Job, NEW w, NEW e, NEW status \in Terminal,
         NEW error \in {"none", "other"}, FinishJob(j, w, e, status, error)
  PROVE  \/ Contract!Succeed(j)
         \/ \E end \in {"failed", "cancelled"} : Contract!Stop(j, end)
  <1>1. error \in JobError
    BY Names
  <1>2. /\ jobs[j].status = "running" /\ jobs[j] \in JobRow
        /\ CountsOK(jobs[j], items[j])
    BY ActiveRow DEF FinishJob
  <1>3. CASE status # "succeeded"
    <2>1. status \in {"failed", "cancelled"}
      BY <1>3 DEF Terminal
    <2>2. /\ status = "cancelled" => jobs[j].cancel
          /\ SetJob(j, Closed(jobs[j], status, error)) /\ items' = items
      BY DEF FinishJob
    <2>3. Contract!Stop(j, status)
      BY <1>1, <1>2, <2>1, <2>2, CloseStep
    <2> QED BY <2>1, <2>3, Zenon
  <1>4. CASE status = "succeeded"
    <2> DEFINE row == Closed(jobs[j], "succeeded", error)
    <2>1. jobs \in [Job -> JobRow] /\ "succeeded" \in Status
      BY Names DEF IInv, TypeOK
    <2>2. /\ row \in JobRow /\ row.status = "succeeded" /\ row.epoch = jobs[j].epoch
          /\ row.total = jobs[j].total /\ row.cancel = jobs[j].cancel
      BY <1>1, <1>2, <2>1, ClosedRow
    <2>3. SetJob(j, row) /\ items' = items
      BY <1>4 DEF FinishJob
    <2> HIDE DEF row
    <2>4. Phase' = [Phase EXCEPT ![j] = "succeeded"]
      BY <2>1, <2>2, <2>3, ViewJob DEF PhaseOf
    <2>5. Size' = Size /\ Turn' = Turn /\ Asked' = Asked
      BY <2>1, <2>2, <2>3, ViewKept
    <2>6. CreditTable' = CreditTable
      BY <2>3 DEF CreditTable
    <2>7. /\ Phase[j] = "active" /\ ~Asked[j]
          /\ Contract!Cardinality(Contract!Credited(j)) = Size[j]
      <3>1. Cardinality(ItemsIn(items[j], {"succeeded"})) = jobs[j].total
        BY <1>2, <1>4 DEF FinishJob, Succeedable, CountsOK
      <3>2. Contract!Cardinality(Contract!Credited(j)) = jobs[j].total
        BY <3>1, SameCount
      <3>3. ~jobs[j].cancel
        BY <1>4 DEF FinishJob, Succeedable
      <3> QED BY <1>2, <3>2, <3>3, ViewOf DEF PhaseOf
    <2> QED BY <2>4, <2>5, <2>6, <2>7 DEF Contract!Succeed, Contract!Move
  <1> QED BY <1>3, <1>4

(* Declaring the total is a step of the contract the first time only.       *)
LEMMA SetTotalStep ==
  ASSUME IInv, NEW j \in Job, NEW w, NEW e, NEW t \in Total, SetTotal(j, w, e, t)
  PROVE  Contract!Declare(j, t) \/ UNCHANGED View
  <1> DEFINE row == [jobs[j] EXCEPT !.total = t]
  <1>1. jobs \in [Job -> JobRow]
    BY DEF IInv, TypeOK
  <1>2. jobs[j] \in JobRow /\ jobs[j].status = "running"
    BY ActiveRow DEF SetTotal
  <1>3. row \in JobRow
    BY <1>2, TotalsAreCounts DEF JobRow
  <1>4. /\ row.status = jobs[j].status /\ row.epoch = jobs[j].epoch
        /\ row.total = t /\ row.cancel = jobs[j].cancel
    BY <1>2 DEF JobRow
  <1>5. SetJob(j, row) /\ items' = items /\ jobs[j].total \in {0, t}
    BY DEF SetTotal
  <1> HIDE DEF row
  <1>6. CASE jobs[j].total = t
    BY <1>3, <1>4, <1>5, <1>6, HiddenJobStep
  <1>7. CASE jobs[j].total = 0
    <2>1. Size' = [Size EXCEPT ![j] = t]
      BY <1>1, <1>3, <1>4, <1>5, ViewJob
    <2>2. Phase' = Phase /\ Turn' = Turn /\ Asked' = Asked
      BY <1>1, <1>3, <1>4, <1>5, ViewKept
    <2>3. CreditTable' = CreditTable
      BY <1>5 DEF CreditTable
    <2>4. Phase[j] = "active" /\ Size[j] = 0
      BY <1>2, <1>7, ViewOf DEF PhaseOf
    <2> QED BY <2>1, <2>2, <2>3, <2>4 DEF Contract!Declare
  <1> QED BY <1>5, <1>6, <1>7

(* The lease and the stage of a job are not seen.                           *)
LEMMA LeaseStep ==
  ASSUME IInv, NEW j \in Job, NEW w, NEW e,
         Heartbeat(j, w, e) \/ \E stage \in Nat : SetStage(j, w, e, stage)
  PROVE  UNCHANGED View
  <1>1. jobs[j] \in JobRow
    BY RowView
  <1>2. CASE Heartbeat(j, w, e)
    <2> DEFINE row == [jobs[j] EXCEPT !.lease = LeaseTicks]
    <2>1. row \in JobRow
      BY <1>1, LimitsArePositive DEF JobRow
    <2>2. /\ row.status = jobs[j].status /\ row.total = jobs[j].total
          /\ row.epoch = jobs[j].epoch /\ row.cancel = jobs[j].cancel
      BY <1>1 DEF JobRow
    <2>3. SetJob(j, row) /\ items' = items
      BY <1>2 DEF Heartbeat
    <2> HIDE DEF row
    <2> QED BY <2>1, <2>2, <2>3, HiddenJobStep
  <1>3. ASSUME NEW stage \in Nat, SetStage(j, w, e, stage) PROVE UNCHANGED View
    <2> DEFINE row == [jobs[j] EXCEPT !.stage = stage]
    <2>1. row \in JobRow
      BY <1>1 DEF JobRow
    <2>2. /\ row.status = jobs[j].status /\ row.total = jobs[j].total
          /\ row.epoch = jobs[j].epoch /\ row.cancel = jobs[j].cancel
      BY <1>1 DEF JobRow
    <2>3. SetJob(j, row) /\ items' = items
      BY <1>3 DEF SetStage
    <2> HIDE DEF row
    <2> QED BY <2>1, <2>2, <2>3, HiddenJobStep
  <1> QED BY <1>2, <1>3

(* Nor is the clock.                                                        *)
LEMMA ClockStep == IInv /\ Clock => UNCHANGED View
  <1> SUFFICES ASSUME IInv, NEW j \in Job,
                      TickLease(j) \/ \E n \in DOMAIN outbox[j] : ExpireClaim(j, n)
               PROVE  UNCHANGED View
    BY DEF Clock
  <1>1. CASE TickLease(j)
    <2> DEFINE row == [jobs[j] EXCEPT !.lease = @ - 1]
    <2>1. jobs[j] \in JobRow
      BY RowView
    <2>2. jobs[j].lease - 1 \in Nat
      BY <1>1, <2>1 DEF TickLease, JobRow
    <2>3. row \in JobRow
      BY <2>1, <2>2 DEF JobRow
    <2>4. /\ row.status = jobs[j].status /\ row.total = jobs[j].total
          /\ row.epoch = jobs[j].epoch /\ row.cancel = jobs[j].cancel
      BY <2>1 DEF JobRow
    <2>5. SetJob(j, row) /\ items' = items
      BY <1>1 DEF TickLease
    <2> HIDE DEF row
    <2> QED BY <2>3, <2>4, <2>5, HiddenJobStep
  <1>2. ASSUME NEW n \in DOMAIN outbox[j], ExpireClaim(j, n) PROVE UNCHANGED View
    BY <1>2, HiddenOutboxStep DEF ExpireClaim
  <1> QED BY <1>1, <1>2

(* Crediting an item adds one to the completed count and keeps the rest.    *)
LEMMA CreditedJobRow ==
  ASSUME NEW j \in Job, jobs[j] \in JobRow, NEW i \in Item, NEW w, NEW e, NEW r \in Ref,
         CompleteItem(j, w, e, i, r) \/ ReconcileItem(j, w, e, i, r)
  PROVE  \E row \in JobRow : /\ SetJob(j, row) /\ row.status = jobs[j].status
                             /\ row.total = jobs[j].total /\ row.epoch = jobs[j].epoch
                             /\ row.cancel = jobs[j].cancel
  <1> DEFINE lost == IF items[j][i].status = "failed" THEN jobs[j].failed - 1
                     ELSE jobs[j].failed
             credited == [jobs[j] EXCEPT !.completed = jobs[j].completed + 1]
             repaired == [jobs[j] EXCEPT !.completed = jobs[j].completed + 1,
                                         !.failed = lost]
  <1>1. lost \in Int /\ jobs[j].completed + 1 \in Int
    BY DEF JobRow
  <1> HIDE DEF lost
  <1>2. /\ credited \in JobRow /\ credited.status = jobs[j].status
        /\ credited.total = jobs[j].total /\ credited.epoch = jobs[j].epoch
        /\ credited.cancel = jobs[j].cancel
    BY <1>1 DEF JobRow
  <1>3. /\ repaired \in JobRow /\ repaired.status = jobs[j].status
        /\ repaired.total = jobs[j].total /\ repaired.epoch = jobs[j].epoch
        /\ repaired.cancel = jobs[j].cancel
    BY <1>1 DEF JobRow
  <1>4. CASE CompleteItem(j, w, e, i, r)
    <2>1. SetJob(j, credited)
      BY <1>4 DEF CompleteItem, JobRow
    <2> HIDE DEF credited
    <2> QED BY <1>2, <2>1
  <1>5. CASE ReconcileItem(j, w, e, i, r)
    <2>1. SetJob(j, repaired)
      BY <1>5 DEF ReconcileItem, lost
    <2> HIDE DEF repaired
    <2> QED BY <1>3, <2>1
  <1> QED BY <1>4, <1>5

(* The credited row records the result and the epoch of the lease.          *)
LEMMA CreditedItemRow ==
  ASSUME NEW j \in Job, NEW i \in Item, items[j][i] \in ItemRow,
         NEW w, NEW e \in Nat, NEW r \in Ref,
         CompleteItem(j, w, e, i, r) \/ ReconcileItem(j, w, e, i, r)
  PROVE  \E new \in ItemRow : /\ SetItem(j, i, new)
                              /\ new.status = "succeeded" /\ new.epoch = e /\ new.ref = r
  <1>1. "succeeded" \in ItemStatus
    BY Names
  <1>2. CASE CompleteItem(j, w, e, i, r)
    <2> DEFINE new == [items[j][i] EXCEPT !.status = "succeeded", !.ref = r]
    <2>1. items[j][i].epoch = e /\ SetItem(j, i, new)
      BY <1>2 DEF CompleteItem, OwnsItem
    <2>2. new \in ItemRow /\ new.status = "succeeded" /\ new.ref = r
      BY <1>1 DEF ItemRow
    <2>3. new.epoch = e
      BY <2>1 DEF ItemRow
    <2> HIDE DEF new
    <2> QED BY <2>1, <2>2, <2>3
  <1>3. CASE ReconcileItem(j, w, e, i, r) /\ items[j][i].status = "none"
    <2> DEFINE new == [status |-> "succeeded", attempts |-> 1, limit |-> 1,
                       epoch |-> e, ref |-> r]
    <2>1. SetItem(j, i, new)
      BY <1>3 DEF ReconcileItem
    <2>2. new \in ItemRow /\ new.status = "succeeded" /\ new.ref = r /\ new.epoch = e
      BY <1>1 DEF ItemRow
    <2> HIDE DEF new
    <2> QED BY <2>1, <2>2
  <1>4. CASE ReconcileItem(j, w, e, i, r) /\ items[j][i].status # "none"
    <2> DEFINE new == [items[j][i] EXCEPT !.status = "succeeded", !.epoch = e, !.ref = r]
    <2>1. SetItem(j, i, new)
      BY <1>4 DEF ReconcileItem
    <2>2. new \in ItemRow /\ new.status = "succeeded" /\ new.ref = r /\ new.epoch = e
      BY <1>1 DEF ItemRow
    <2> HIDE DEF new
    <2> QED BY <2>1, <2>2
  <1> QED BY <1>2, <1>3, <1>4

(* An item not yet credited leaves the credits below the declared total.    *)
LEMMA RoomForOneMore ==
  ASSUME NEW j \in Job, NEW i \in Item, NEW w, NEW e, NEW r,
         jobs[j] \in JobRow, items[j] \in [Item -> ItemRow], CountsOK(jobs[j], items[j]),
         CompleteItem(j, w, e, i, r) \/ ReconcileItem(j, w, e, i, r)
  PROVE  Cardinality(ItemsIn(items[j], {"succeeded"})) < jobs[j].total
  <1> DEFINE done == ItemsIn(items[j], {"succeeded"})
             known == ItemsIn(items[j], HasRow)
  <1>1. /\ done \subseteq known
        /\ Cardinality(done) \in Nat /\ Cardinality(known) \in Nat
        /\ Cardinality(done) <= Cardinality(known)
        /\ Cardinality(done) = Cardinality(known) => done = known
    BY ItemCountOrder
  <1>2. jobs[j].total \in Nat /\ Cardinality(known) <= jobs[j].total
    BY DEF JobRow, CountsOK
  <1>3. CASE items[j][i].status = "none"
    <2>1. Cardinality(known) < jobs[j].total
      BY <1>3 DEF CompleteItem, ReconcileItem, OwnsItem, Room, Known
    <2> QED BY <1>1, <1>2, <2>1
  <1>4. CASE items[j][i].status # "none"
    <2>1. i \in known
      BY <1>4 DEF ItemsIn, HasRow, ItemRow
    <2>2. i \notin done
      BY DEF CompleteItem, ReconcileItem, OwnsItem, ItemsIn
    <2> QED BY <1>1, <1>2, <2>1, <2>2
  <1> QED BY <1>3, <1>4

(* The credit of an item, at the turn of its lease.                         *)
LEMMA CreditStep ==
  ASSUME IInv, NEW j \in Job, NEW i \in Item, NEW w, NEW e, NEW r \in Ref,
         CompleteItem(j, w, e, i, r) \/ ReconcileItem(j, w, e, i, r)
  PROVE  Contract!Credit(j, i, r)
  <1>1. LockedActive(j, w, e) /\ items[j][i].status # "succeeded"
    BY DEF CompleteItem, ReconcileItem, OwnsItem
  <1>2. /\ jobs[j] \in JobRow /\ jobs[j].status = "running" /\ jobs[j].epoch = e
        /\ e \in Nat /\ items[j] \in [Item -> ItemRow] /\ items[j][i] \in ItemRow
        /\ CountsOK(jobs[j], items[j])
    BY <1>1, ActiveRow
  <1>3. /\ jobs \in [Job -> JobRow] /\ items \in [Job -> [Item -> ItemRow]]
    BY DEF IInv, TypeOK
  <1>4. PICK row \in JobRow : /\ SetJob(j, row) /\ row.status = jobs[j].status
                              /\ row.total = jobs[j].total /\ row.epoch = jobs[j].epoch
                              /\ row.cancel = jobs[j].cancel
    BY <1>2, CreditedJobRow
  <1>5. PICK new \in ItemRow : /\ SetItem(j, i, new)
                               /\ new.status = "succeeded" /\ new.epoch = e /\ new.ref = r
    BY <1>1, <1>2, CreditedItemRow
  <1>6. Phase' = Phase /\ Size' = Size /\ Turn' = Turn /\ Asked' = Asked
    BY <1>3, <1>4, ViewKept
  <1>7. CreditTable' = [CreditTable EXCEPT ![j] = [@ EXCEPT ![i] = {[ref |-> r, turn |-> e]}]]
    <2>1. CreditOf(new) = {[ref |-> r, turn |-> e]}
      BY <1>5 DEF CreditOf
    <2>2. CreditTable' = [CreditTable EXCEPT ![j] = [@ EXCEPT ![i] = CreditOf(new)]]
      BY <1>3, <1>5, ViewItem
    <2> QED BY <2>1, <2>2, Zenon
  <1>8. CreditTable[j][i] = {} /\ Phase[j] = "active" /\ Turn[j] = e
    <2>1. CreditTable[j][i] = {}
      BY <1>1 DEF CreditTable, CreditOf
    <2>2. Phase[j] = "active"
      BY <1>2 DEF Phase, PhaseOf
    <2>3. Turn[j] = e
      BY <1>2 DEF Turn
    <2> QED BY <2>1, <2>2, <2>3
  <1>9. Contract!Cardinality(Contract!Credited(j)) < Size[j]
    <2>1. Cardinality(ItemsIn(items[j], {"succeeded"})) < jobs[j].total
      BY <1>1, <1>2, RoomForOneMore
    <2> QED BY <2>1, SameCount, ViewOf
  <1> QED BY <1>6, <1>7, <1>8, <1>9 DEF Contract!Credit, Contract!Give

(* Starting, retrying, exhausting and failing an item credit nothing.       *)
LEMMA UncreditedStep ==
  ASSUME IInv, NEW j \in Job, NEW i \in Item, NEW w, NEW e,
         \/ ClaimNewItem(j, w, e, i)
         \/ RetryItem(j, w, e, i)
         \/ ExhaustItem(j, w, e, i)
         \/ \E retryable \in BOOLEAN : FailItem(j, w, e, i, retryable)
  PROVE  UNCHANGED View
  <1> DEFINE old == items[j][i]
             failing == [jobs[j] EXCEPT !.failed = @ + 1]
  <1>1. LockedActive(j, w, e) /\ old.status # "succeeded"
    BY DEF ClaimNewItem, RetryItem, ExhaustItem, FailItem, MayClaim, Reclaimable, OwnsItem
  <1>2. jobs[j] \in JobRow /\ old \in ItemRow /\ e \in Nat /\ jobs \in [Job -> JobRow]
    BY <1>1, ActiveRow DEF IInv, TypeOK
  <1>3. /\ failing \in JobRow /\ failing.status = jobs[j].status
        /\ failing.total = jobs[j].total /\ failing.epoch = jobs[j].epoch
        /\ failing.cancel = jobs[j].cancel
    <2>1. failing \in JobRow
      BY <1>2, JobCounters
    <2> QED BY <1>2, <2>1 DEF JobRow
  <1>4. "running" \in ItemStatus /\ "failed" \in ItemStatus /\ "pending" \in ItemStatus
    BY Names
  <1>5. jobs' = jobs => SetJob(j, jobs[j])
    BY <1>2 DEF SetJob
  <1>6. CASE ClaimNewItem(j, w, e, i)
    <2> DEFINE new == [NoItem EXCEPT !.status = "running", !.attempts = 1,
                                     !.limit = MaxAttempts, !.epoch = e]
    <2>1. new \in ItemRow /\ new.status = "running"
      BY <1>2, <1>4, LimitsArePositive DEF NoItem, ItemRow
    <2>2. SetItem(j, i, new) /\ jobs' = jobs
      BY <1>6 DEF ClaimNewItem
    <2> HIDE DEF new
    <2> QED BY <1>1, <1>2, <1>5, <2>1, <2>2, HiddenItemStep
  <1>7. CASE RetryItem(j, w, e, i)
    <2> DEFINE new == [old EXCEPT !.status = "running", !.attempts = @ + 1, !.epoch = e]
    <2>1. old.attempts + 1 \in Nat
      BY <1>2 DEF ItemRow
    <2>2. new \in ItemRow /\ new.status = "running"
      BY <1>2, <1>4, <2>1 DEF ItemRow
    <2>3. SetItem(j, i, new) /\ jobs' = jobs
      BY <1>7 DEF RetryItem
    <2> HIDE DEF new
    <2> QED BY <1>1, <1>2, <1>5, <2>2, <2>3, HiddenItemStep
  <1>8. CASE ExhaustItem(j, w, e, i)
    <2> DEFINE new == [old EXCEPT !.status = "failed"]
    <2>1. new \in ItemRow /\ new.status = "failed"
      BY <1>2, <1>4 DEF ItemRow
    <2>2. SetItem(j, i, new) /\ SetJob(j, failing)
      BY <1>8 DEF ExhaustItem
    <2> HIDE DEF new, failing
    <2> QED BY <1>1, <1>3, <2>1, <2>2, HiddenItemStep
  <1>9. ASSUME NEW retryable \in BOOLEAN, FailItem(j, w, e, i, retryable)
        PROVE  UNCHANGED View
    <2> DEFINE terminal == ~retryable \/ old.attempts >= old.limit
               new == [old EXCEPT !.status = IF terminal THEN "failed" ELSE "pending"]
    <2>1. new \in ItemRow /\ new.status # "succeeded"
      BY <1>2, <1>4 DEF ItemRow
    <2>2. /\ SetItem(j, i, new)
          /\ IF terminal THEN SetJob(j, failing) ELSE SetJob(j, jobs[j])
      BY <1>9 DEF FailItem
    <2> HIDE DEF new, failing, terminal
    <2> QED BY <1>1, <1>2, <1>3, <2>1, <2>2, HiddenItemStep
  <1> QED BY <1>6, <1>7, <1>8, <1>9

(* Activation credits the last stage and succeeds in one step.              *)
LEMMA ActivateStep ==
  ASSUME IInv, NEW j \in Job, NEW i \in Item, NEW w, NEW e, NEW q \in Request,
         NEW r \in Ref, ActivateIngestion(j, w, e, i, q, r)
  PROVE  Contract!CreditAndSucceed(j, i, r)
  <1> DEFINE new == [items[j][i] EXCEPT !.status = "succeeded", !.ref = r]
             shut == Closed(jobs[j], "succeeded", "none")
             row == [shut EXCEPT !.completed = @ + 1]
  <1>1. /\ LockedActive(j, w, e) /\ items[j][i].status = "running"
        /\ items[j][i].epoch = e
        /\ ~jobs[j].cancel /\ jobs[j].completed = jobs[j].total - 1
    BY DEF ActivateIngestion, OwnsItem, Activatable
  <1>2. /\ jobs[j] \in JobRow /\ jobs[j].status = "running" /\ jobs[j].epoch = e
        /\ items[j][i] \in ItemRow /\ CountsOK(jobs[j], items[j])
    BY <1>1, ActiveRow
  <1>3. jobs \in [Job -> JobRow] /\ items \in [Job -> [Item -> ItemRow]]
    BY DEF IInv, TypeOK
  <1>4. new \in ItemRow /\ new.status = "succeeded" /\ new.ref = r
    BY <1>2, Names DEF ItemRow
  <1>5. new.epoch = e
    BY <1>1, <1>2 DEF ItemRow
  <1>6. /\ shut \in JobRow /\ shut.status = "succeeded"
        /\ shut.epoch = jobs[j].epoch /\ shut.total = jobs[j].total
        /\ shut.cancel = jobs[j].cancel
    <2>1. "succeeded" \in Status /\ "none" \in JobError
      BY Names
    <2> QED BY <1>2, <2>1, ClosedRow
  <1>7. SetItem(j, i, new) /\ SetJob(j, row)
    BY DEF ActivateIngestion
  <1> HIDE DEF new, shut
  <1>8. row \in JobRow
    BY <1>6, JobCounters
  <1>9. /\ row.status = "succeeded" /\ row.epoch = jobs[j].epoch
        /\ row.total = jobs[j].total /\ row.cancel = jobs[j].cancel
    BY <1>6 DEF JobRow
  <1> HIDE DEF row
  <1>10. Phase' = [Phase EXCEPT ![j] = "succeeded"]
    BY <1>3, <1>7, <1>8, <1>9, ViewJob DEF PhaseOf
  <1>11. Size' = Size /\ Turn' = Turn /\ Asked' = Asked
    BY <1>3, <1>7, <1>8, <1>9, ViewKept
  <1>12. CreditTable' = [CreditTable EXCEPT
                           ![j] = [@ EXCEPT ![i] = {[ref |-> r, turn |-> e]}]]
    <2>1. CreditOf(new) = {[ref |-> r, turn |-> e]}
      BY <1>4, <1>5 DEF CreditOf
    <2>2. CreditTable' = [CreditTable EXCEPT ![j] = [@ EXCEPT ![i] = CreditOf(new)]]
      BY <1>3, <1>4, <1>7, ViewItem
    <2> QED BY <2>1, <2>2, Zenon
  <1>13. CreditTable[j][i] = {} /\ Phase[j] = "active" /\ Turn[j] = e /\ ~Asked[j]
    <2>1. CreditTable[j][i] = {}
      BY <1>1 DEF CreditTable, CreditOf
    <2>2. Phase[j] = "active"
      BY <1>2 DEF Phase, PhaseOf
    <2>3. Turn[j] = e /\ ~Asked[j]
      BY <1>1, <1>2 DEF Turn, Asked
    <2> QED BY <2>1, <2>2, <2>3
  <1>14. Contract!Cardinality(Contract!Credited(j)) = Size[j] - 1
    <2>1. Cardinality(ItemsIn(items[j], {"succeeded"})) = jobs[j].total - 1
      BY <1>1, <1>2 DEF CountsOK
    <2> QED BY <2>1, SameCount, ViewOf
  <1> QED BY <1>10, <1>11, <1>12, <1>13, <1>14
       DEF Contract!CreditAndSucceed, Contract!Give, Contract!Move

-----------------------------------------------------------------------------
(* The refinement *)

(* Empty tables are a system with no jobs.                                  *)
LEMMA InitMaps == Init => Contract!Init
  BY DEF Init, Contract!Init, Phase, PhaseOf, Size, Turn, Asked, CreditTable, CreditOf,
         NoJob, NoLedger, NoItem

(* A call under a lease is a step of the contract or hidden.                *)
LEMMA CallStep == IInv /\ Call => ContractStep
  <1> SUFFICES ASSUME IInv, NEW j \in Job, NEW w \in Worker, NEW e \in DOMAIN grants[j],
                      JobCall(j, w, e) \/ \E i \in Item : ItemCall(j, w, e, i)
               PROVE  ContractStep
    BY DEF Call
  <1>1. CASE Heartbeat(j, w, e)
    BY <1>1, LeaseStep DEF ContractStep
  <1>2. CASE \E t \in Total : SetTotal(j, w, e, t)
    BY <1>2, SetTotalStep DEF ContractStep, Contract!Next
  <1>3. CASE \E stage \in 0..LastStage(jobs[j].kind) : SetStage(j, w, e, stage)
    <2>1. LastStage(jobs[j].kind) \in Int
      BY LimitsArePositive DEF LastStage, Stages
    <2>2. \E stage \in Nat : SetStage(j, w, e, stage)
      BY <1>3, <2>1
    <2> QED BY <2>2, LeaseStep DEF ContractStep
  <1>4. CASE \E status \in Terminal, error \in {"none", "other"} :
               FinishJob(j, w, e, status, error)
    BY <1>4, FinishStep DEF ContractStep, Contract!Next
  <1>5. ASSUME NEW i \in Item, ItemCall(j, w, e, i) PROVE ContractStep
    <2>1. CASE \/ ClaimNewItem(j, w, e, i) \/ RetryItem(j, w, e, i)
               \/ ExhaustItem(j, w, e, i)
               \/ \E retryable \in BOOLEAN : FailItem(j, w, e, i, retryable)
      BY <2>1, UncreditedStep DEF ContractStep
    <2>2. CASE \E r \in Ref : CompleteItem(j, w, e, i, r) \/ ReconcileItem(j, w, e, i, r)
      BY <2>2, CreditStep DEF ContractStep, Contract!Next
    <2>3. CASE \E q \in Request, r \in Ref : ActivateIngestion(j, w, e, i, q, r)
      BY <2>3, ActivateStep DEF ContractStep, Contract!Next
    <2> QED BY <1>5, <2>1, <2>2, <2>3 DEF ItemCall
  <1> QED BY <1>1, <1>2, <1>3, <1>4, <1>5 DEF JobCall

(* Every step of the tables is a step of the contract or hidden from it.    *)
LEMMA StepMaps == IInv /\ [Next]_vars => [Contract!Next]_(Contract!vars)
  <1> SUFFICES ASSUME IInv, [Next]_vars PROVE ContractStep
    BY DEF ContractStep, View, Contract!vars
  <1>1. CASE Submit
    BY <1>1, SubmitStep
  <1>2. CASE \E j \in Job : RequestCancel(j)
    BY <1>2, CancelStep DEF ContractStep, Contract!Next
  <1>3. CASE Dispatch
    <2>1. CASE \E batch \in SUBSET Job : RequeueExpired(batch)
      BY <2>1, RequeueStep DEF ContractStep, Contract!Next
    <2>2. CASE UNCHANGED <<jobs, items>>
      BY <2>2, HiddenOutboxStep DEF ContractStep
    <2> QED BY <1>3, <2>1, <2>2 DEF Dispatch, ClaimOutbox, MarkDelivered, MarkRetry
  <1>4. CASE Claim
    BY <1>4, ClaimJobStep, ClaimsSpentStep DEF Claim, ContractStep, Contract!Next
  <1>5. CASE Call
    BY <1>5, CallStep
  <1>6. CASE Clock
    BY <1>6, ClockStep DEF ContractStep
  <1>7. CASE UNCHANGED vars
    BY <1>7, HiddenOutboxStep DEF vars, ContractStep
  <1> QED BY <1>1, <1>2, <1>3, <1>4, <1>5, <1>6, <1>7 DEF Next

(* The job tables implement the contract of a job, for every number of      *)
(* jobs, items, workers and dispatchers: no crash, late message or stale    *)
(* lease makes them credit an item twice, move a finished job, or report a  *)
(* success that is not one.                                                 *)
THEOREM Refinement == Spec => ImplementsContract
  <1>1. Init => Contract!Init
    BY InitMaps
  <1>2. IInv /\ [Next]_vars => [Contract!Next]_(Contract!vars)
    BY StepMaps
  <1> QED BY <1>1, <1>2, Invariance, PTL DEF Spec, ImplementsContract, Contract!Spec

-----------------------------------------------------------------------------
(* The service around the store: its processes keep to the transactions of  *)
(* JobStore, under leases they were granted.  The work of a job, and the    *)
(* theorems about it, are in the modules that extend this one.              *)

-----------------------------------------------------------------------------
(* Types *)

Letter == [job: Job, row: Nat, epoch: 0..MaxSends]

SenderRow == [mail: SUBSET Letter, out: {None} \cup [letter: Letter, ok: BOOLEAN]]

(* Where a task may be: in process_job itself, in the loop of an evaluation *)
(* or after it, in a stage of an ingestion.                                 *)
Place ==
  {"idle", "start", "succeed", "finish", "lost",
   "check", "claim", "credit", "evaluate", "run", "check again", "complete", "fail",
   "last check", "to aggregating", "aggregate", "to completed", "check success",
   "mark", "act", "activate", "refused", "swap", "confirm"}

(* References are of the kind of the work: see the modules that extend this. *)
TaskRow(References) ==
  [pc: Place, job: Job \cup {None}, tries: Nat, epoch: Nat, stage: Nat, next: Nat,
   ref: References, lost: BOOLEAN, status: {"failed", "cancelled"},
   error: {"none", "other"}]

ServiceTyped(References) ==
  /\ sender \in [Dispatcher -> SenderRow]
  /\ task \in [Worker -> TaskRow(References)]

(* A task works under a lease of its job that its worker was granted.       *)
LeaseHeld(w) ==
  task[w].pc # "idle" => task[w].job \in Job /\ Holds(w, task[w].job, task[w].epoch)

-----------------------------------------------------------------------------
(* What a step leaves of the frame of a worker *)

OthersRest(w) == \A v \in Worker \ {w} : task'[v] = task[v]

SameClaim(w) ==
  /\ task'[w].job = task[w].job
  /\ task'[w].epoch = task[w].epoch
  /\ task'[w].stage = task[w].stage

SamePlace(w) == SameClaim(w) /\ task'[w].next = task[w].next /\ task'[w].ref = task[w].ref

(* The worker goes elsewhere and keeps what it knows.                       *)
LEMMA GotoWrites ==
  ASSUME NEW R, ServiceTyped(R), NEW w \in Worker, NEW pc \in Place, Goto(w, pc)
  PROVE  /\ task' \in [Worker -> TaskRow(R)]
         /\ OthersRest(w) /\ SamePlace(w) /\ task'[w].pc = pc
  <1>1. task[w] \in TaskRow(R)
    BY DEF ServiceTyped
  <1>2. [task[w] EXCEPT !.pc = pc] \in TaskRow(R)
    BY <1>1 DEF TaskRow
  <1>3. task' = [task EXCEPT ![w] = [task[w] EXCEPT !.pc = pc]]
    BY DEF Goto
  <1>4. task'[w] = [task[w] EXCEPT !.pc = pc]
    BY <1>3 DEF ServiceTyped
  <1>5. SamePlace(w) /\ task'[w].pc = pc
    BY <1>1, <1>4 DEF SamePlace, SameClaim, TaskRow
  <1> QED BY <1>2, <1>3, <1>5 DEF ServiceTyped, OthersRest

(* The worker leaves the work with a verdict.                               *)
LEMMA GoFailWrites ==
  ASSUME NEW R, ServiceTyped(R), NEW w \in Worker, GoFail(w, "other") \/ GoCancel(w)
  PROVE  /\ task' \in [Worker -> TaskRow(R)]
         /\ OthersRest(w) /\ SamePlace(w) /\ task'[w].pc = "finish"
  <1>1. task[w] \in TaskRow(R)
    BY DEF ServiceTyped
  <1>2. ASSUME NEW s \in {"failed", "cancelled"}, NEW x \in {"none", "other"},
               task' = [task EXCEPT ![w].pc = "finish", ![w].status = s, ![w].error = x]
        PROVE  /\ task' \in [Worker -> TaskRow(R)]
               /\ OthersRest(w) /\ SamePlace(w) /\ task'[w].pc = "finish"
    <2> DEFINE new == [task[w] EXCEPT !.pc = "finish", !.status = s, !.error = x]
    <2>0. "finish" \in Place
      BY DEF Place
    <2>1. new \in TaskRow(R)
      BY <1>1, <2>0 DEF TaskRow
    <2>2. task' = [task EXCEPT ![w] = new]
      BY <1>2 DEF ServiceTyped
    <2>3. task'[w] = new
      BY <2>2 DEF ServiceTyped
    <2>4. SamePlace(w) /\ task'[w].pc = "finish"
      BY <1>1, <2>3 DEF SamePlace, SameClaim, TaskRow
    <2> QED BY <2>1, <2>2, <2>4 DEF ServiceTyped, OthersRest
  <1> QED BY <1>2 DEF GoFail, GoCancel

(* A check of the heartbeat goes on or leaves the work, and writes nothing. *)
LEMMA CheckGoes ==
  ASSUME NEW R, ServiceTyped(R), NEW w \in Worker, NEW onward \in Place, Check(w, onward)
  PROVE  /\ task' \in [Worker -> TaskRow(R)] /\ OthersRest(w) /\ SamePlace(w)
         /\ task'[w].pc \in {onward, "lost", "finish"}
         /\ UNCHANGED <<vars, sender>>
  <1>1. "lost" \in Place
    BY DEF Place
  <1>2. Goto(w, "lost") \/ GoCancel(w) \/ Goto(w, onward)
    BY DEF Check
  <1>3. UNCHANGED <<vars, sender>>
    BY DEF Check
  <1> QED BY <1>1, <1>2, <1>3, GotoWrites, GoFailWrites

-----------------------------------------------------------------------------
(* What a transaction leaves of the tables *)

(* The items, and how far each job has come.                                *)
KeepsWork == items' = items /\ \A j \in Job : jobs'[j].stage = jobs[j].stage

(* A transaction that writes a job row and not its stage.                   *)
LEMMA RowKeepsWork ==
  ASSUME TypeOK, NEW j \in Job, NEW row, SetJob(j, row), UNCHANGED items,
         row.stage = jobs[j].stage
  PROVE  KeepsWork
  BY DEF TypeOK, SetJob, KeepsWork

LEMMA ClosedKeepsStage ==
  ASSUME NEW row \in JobRow, NEW s, NEW x
  PROVE  Closed(row, s, x).stage = row.stage
  BY DEF Closed, JobRow

(* The transactions that are not about stages or items.                     *)
LEMMA LeaseCallsKeepWork ==
  ASSUME TypeOK, NEW j \in Job, NEW w, NEW e, NEW s, NEW x,
         \/ ClaimJob(j, w) \/ ClaimsSpent(j) \/ RequestCancel(j) \/ TickLease(j)
         \/ Heartbeat(j, w, e) \/ FinishJob(j, w, e, s, x)
  PROVE  KeepsWork
  <1> jobs[j] \in JobRow
    BY DEF TypeOK
  <1>1. CASE ClaimJob(j, w)
    <2> DEFINE row == [jobs[j] EXCEPT
                  !.status = "running", !.owner = w, !.epoch = @ + 1,
                  !.claims = @ + 1, !.lease = LeaseTicks,
                  !.error = IF @ = "delivery_unconfirmed" THEN "none" ELSE @]
    <2>1. row.stage = jobs[j].stage
      BY DEF JobRow
    <2>2. SetJob(j, row) /\ UNCHANGED items
      BY <1>1 DEF ClaimJob
    <2> QED BY <2>1, <2>2, RowKeepsWork
  <1>2. CASE ClaimsSpent(j)
    BY <1>2, RowKeepsWork, ClosedKeepsStage DEF ClaimsSpent
  <1>3. CASE RequestCancel(j)
    <2> DEFINE row == [jobs[j] EXCEPT !.cancel = TRUE,
                                      !.status = IF @ = "queued" THEN "cancelled" ELSE @]
    <2>1. row.stage = jobs[j].stage
      BY DEF JobRow
    <2>2. SetJob(j, row) /\ UNCHANGED items
      BY <1>3 DEF RequestCancel
    <2> QED BY <2>1, <2>2, RowKeepsWork
  <1>4. CASE TickLease(j) \/ Heartbeat(j, w, e)
    <2>1. \A n : [jobs[j] EXCEPT !.lease = n].stage = jobs[j].stage
      BY DEF JobRow
    <2>2. PICK n : SetJob(j, [jobs[j] EXCEPT !.lease = n]) /\ UNCHANGED items
      BY <1>4 DEF TickLease, Heartbeat
    <2> QED BY <2>1, <2>2, RowKeepsWork
  <1>5. CASE FinishJob(j, w, e, s, x)
    BY <1>5, RowKeepsWork, ClosedKeepsStage DEF FinishJob
  <1> QED BY <1>1, <1>2, <1>3, <1>4, <1>5

(* No item becomes a success, none is lost, and no stage is recorded.       *)
NoNewCredit ==
  /\ \A j \in Job, i \in Item :
       items[j][i].status = "succeeded" \/ items'[j][i].status = "succeeded"
         => items'[j][i] = items[j][i]
  /\ \A j \in Job : jobs'[j].stage = jobs[j].stage

LEMMA KeptWorkIsNoCredit == KeepsWork => NoNewCredit
  BY DEF KeepsWork, NoNewCredit

(* One item is written, which was not a success before; no stage is.        *)
OneItem(j, i) ==
  /\ items[j][i].status # "succeeded"
  /\ \A k \in Job, l \in Item : k # j \/ l # i => items'[k][l] = items[k][l]
  /\ \A k \in Job : jobs'[k].stage = jobs[k].stage

LEMMA OneItemWritten ==
  ASSUME TypeOK, NEW j \in Job, NEW i \in Item, NEW itemRow, SetItem(j, i, itemRow),
         items[j][i].status # "succeeded",
         UNCHANGED jobs \/ \E row : SetJob(j, row) /\ row.stage = jobs[j].stage
  PROVE  OneItem(j, i) /\ items'[j][i] = itemRow
  <1>1. items \in [Job -> [Item -> ItemRow]] /\ jobs \in [Job -> JobRow]
    BY DEF TypeOK
  <1>2. items' = [items EXCEPT ![j] = [items[j] EXCEPT ![i] = itemRow]]
    BY DEF SetItem
  <1>3. items'[j] = [items[j] EXCEPT ![i] = itemRow] /\ \A k \in Job \ {j} : items'[k] = items[k]
    BY <1>1, <1>2
  <1>4. items'[j][i] = itemRow /\ \A l \in Item \ {i} : items'[j][l] = items[j][l]
    BY <1>1, <1>3
  <1>5. \A k \in Job : jobs'[k].stage = jobs[k].stage
    BY <1>1 DEF SetJob
  <1> QED BY <1>3, <1>4, <1>5 DEF OneItem

(* Claims and failures of an item credit nothing.                           *)
LEMMA ClaimsCreditNothing ==
  ASSUME TypeOK, NEW j \in Job, NEW i \in Item, NEW w, NEW e,
         \/ ClaimNewItem(j, w, e, i) \/ RetryItem(j, w, e, i) \/ ExhaustItem(j, w, e, i)
         \/ FailItem(j, w, e, i, FALSE)
  PROVE  NoNewCredit
  <1> items[j][i] \in ItemRow /\ jobs[j] \in JobRow
    BY DEF TypeOK
  <1>1. ASSUME OneItem(j, i), items'[j][i].status # "succeeded" PROVE NoNewCredit
    <2>1. ASSUME NEW k \in Job, NEW l \in Item,
                 items[k][l].status = "succeeded" \/ items'[k][l].status = "succeeded"
          PROVE  items'[k][l] = items[k][l]
      BY <1>1, <2>1 DEF OneItem
    <2> QED BY <1>1, <2>1 DEF OneItem, NoNewCredit
  <1>2. \A n : [jobs[j] EXCEPT !.failed = n].stage = jobs[j].stage
    BY DEF JobRow
  <1>3. CASE ClaimNewItem(j, w, e, i)
    <2> DEFINE row == [NoItem EXCEPT !.status = "running", !.attempts = 1,
                                     !.limit = MaxAttempts, !.epoch = e]
    <2>1. row.status = "running"
      BY DEF NoItem
    <2>2. SetItem(j, i, row) /\ UNCHANGED jobs /\ items[j][i].status = "none"
      BY <1>3 DEF ClaimNewItem
    <2> HIDE DEF row
    <2> QED BY <1>1, <2>1, <2>2, OneItemWritten
  <1>4. CASE RetryItem(j, w, e, i)
    <2> DEFINE row == [items[j][i] EXCEPT !.status = "running", !.attempts = @ + 1, !.epoch = e]
    <2>1. row.status = "running"
      BY DEF ItemRow
    <2>2. SetItem(j, i, row) /\ UNCHANGED jobs /\ items[j][i].status # "succeeded"
      BY <1>4 DEF RetryItem, Reclaimable
    <2> HIDE DEF row
    <2> QED BY <1>1, <2>1, <2>2, OneItemWritten
  <1>5. CASE ExhaustItem(j, w, e, i)
    <2> DEFINE row == [items[j][i] EXCEPT !.status = "failed"]
    <2>1. row.status = "failed"
      BY DEF ItemRow
    <2>2. /\ SetItem(j, i, row) /\ items[j][i].status # "succeeded"
          /\ SetJob(j, [jobs[j] EXCEPT !.failed = jobs[j].failed + 1])
      BY <1>5 DEF ExhaustItem, Reclaimable
    <2> HIDE DEF row
    <2> QED BY <1>1, <1>2, <2>1, <2>2, OneItemWritten
  <1>6. CASE FailItem(j, w, e, i, FALSE)
    <2> DEFINE row == [items[j][i] EXCEPT !.status = "failed"]
    <2>1. row.status = "failed"
      BY DEF ItemRow
    <2>2. /\ SetItem(j, i, row) /\ items[j][i].status # "succeeded"
          /\ SetJob(j, [jobs[j] EXCEPT !.failed = jobs[j].failed + 1])
      BY <1>6 DEF FailItem, OwnsItem
    <2> HIDE DEF row
    <2> QED BY <1>1, <1>2, <2>1, <2>2, OneItemWritten
  <1> QED BY <1>3, <1>4, <1>5, <1>6

(* A credit is new, and of the reference that is presented.                 *)
LEMMA CreditsAreNew ==
  ASSUME TypeOK, NEW j \in Job, NEW i \in Item, NEW w, NEW e, NEW r,
         CompleteItem(j, w, e, i, r) \/ ReconcileItem(j, w, e, i, r)
  PROVE  OneItem(j, i) /\ items'[j][i].status = "succeeded" /\ items'[j][i].ref = r
  <1> items[j][i] \in ItemRow /\ jobs[j] \in JobRow
    BY DEF TypeOK
  <1>1. CASE CompleteItem(j, w, e, i, r)
    <2> DEFINE row == [items[j][i] EXCEPT !.status = "succeeded", !.ref = r]
    <2>1. row.status = "succeeded" /\ row.ref = r
      BY DEF ItemRow
    <2> DEFINE counted == [jobs[j] EXCEPT !.completed = @ + 1]
    <2>2. counted.stage = jobs[j].stage
      BY DEF JobRow
    <2>3. /\ SetItem(j, i, row) /\ items[j][i].status # "succeeded"
          /\ SetJob(j, counted)
      BY <1>1 DEF CompleteItem, OwnsItem
    <2> HIDE DEF row, counted
    <2> QED BY <2>1, <2>2, <2>3, OneItemWritten
  <1>2. CASE ReconcileItem(j, w, e, i, r)
    <2> DEFINE new == [status |-> "succeeded", attempts |-> 1, limit |-> 1, epoch |-> e,
                       ref |-> r]
               old == [items[j][i] EXCEPT !.status = "succeeded", !.epoch = e, !.ref = r]
    <2>1. /\ new.status = "succeeded" /\ new.ref = r
          /\ old.status = "succeeded" /\ old.ref = r
      BY DEF ItemRow
    <2> DEFINE counted == [jobs[j] EXCEPT
                            !.completed = @ + 1,
                            !.failed = IF items[j][i].status = "failed" THEN @ - 1 ELSE @]
    <2>2. counted.stage = jobs[j].stage
      BY DEF JobRow
    <2>3. /\ items[j][i].status # "succeeded"
          /\ SetItem(j, i, IF items[j][i].status = "none" THEN new ELSE old)
          /\ SetJob(j, counted)
      BY <1>2 DEF ReconcileItem
    <2> HIDE DEF new, old, counted
    <2>4. PICK row : SetItem(j, i, row) /\ row.status = "succeeded" /\ row.ref = r
      BY <2>1, <2>3
    <2> QED BY <2>2, <2>3, <2>4, OneItemWritten
  <1> QED BY <1>1, <1>2

(* A stage that is recorded is recorded of one job.                         *)
LEMMA StageWritten ==
  ASSUME TypeOK, NEW j \in Job, NEW w, NEW e, NEW stage, SetStage(j, w, e, stage)
  PROVE  /\ UNCHANGED items
         /\ jobs'[j].stage = stage /\ \A k \in Job \ {j} : jobs'[k] = jobs[k]
  <1>1. jobs[j] \in JobRow /\ jobs \in [Job -> JobRow]
    BY DEF TypeOK
  <1>2. jobs' = [jobs EXCEPT ![j] = [jobs[j] EXCEPT !.stage = stage]] /\ UNCHANGED items
    BY DEF SetStage, SetJob
  <1>3. [jobs[j] EXCEPT !.stage = stage].stage = stage
    BY <1>1 DEF JobRow
  <1> QED BY <1>1, <1>2, <1>3

(* An activation credits the last stage and ends its job, and no other.     *)
LEMMA ActivationIsNew ==
  ASSUME TypeOK, NEW j \in Job, NEW i \in Item, NEW w, NEW e, NEW q, NEW r,
         ActivateIngestion(j, w, e, i, q, r)
  PROVE  /\ OneItem(j, i) /\ items'[j][i].status = "succeeded"
         /\ jobs'[j].status = "succeeded" /\ \A k \in Job \ {j} : jobs'[k] = jobs[k]
  <1>1. items[j][i] \in ItemRow /\ jobs[j] \in JobRow /\ jobs \in [Job -> JobRow]
    BY DEF TypeOK
  <1> DEFINE row == [items[j][i] EXCEPT !.status = "succeeded", !.ref = r]
             ended == [Closed(jobs[j], "succeeded", "none") EXCEPT !.completed = @ + 1]
  <1>2. row.status = "succeeded"
    BY <1>1 DEF ItemRow
  <1>3. ended.status = "succeeded" /\ ended.stage = jobs[j].stage
    <2>1. Closed(jobs[j], "succeeded", "none").status = "succeeded"
      BY <1>1 DEF Closed, JobRow
    <2>2. Closed(jobs[j], "succeeded", "none").stage = jobs[j].stage
      BY <1>1, ClosedKeepsStage
    <2>3. DOMAIN Closed(jobs[j], "succeeded", "none") = DOMAIN jobs[j]
      BY <1>1 DEF Closed
    <2>4. "status" \in DOMAIN jobs[j] /\ "stage" \in DOMAIN jobs[j]
      BY <1>1 DEF JobRow
    <2> QED BY <2>1, <2>2, <2>3, <2>4
  <1>4. SetItem(j, i, row) /\ items[j][i].status # "succeeded" /\ SetJob(j, ended)
    BY DEF ActivateIngestion, OwnsItem
  <1> HIDE DEF row, ended
  <1>5. OneItem(j, i) /\ items'[j][i] = row
    BY <1>1, <1>3, <1>4, OneItemWritten
  <1>6. jobs'[j] = ended /\ \A k \in Job \ {j} : jobs'[k] = jobs[k]
    BY <1>1, <1>4 DEF SetJob
  <1> QED BY <1>2, <1>3, <1>5, <1>6

-----------------------------------------------------------------------------
(* Who makes a success of a job *)

NoNewSuccess == \A j \in Job : jobs'[j].status = "succeeded" => jobs[j].status = "succeeded"

LEMMA RowIsNoSuccess ==
  ASSUME TypeOK, NEW j \in Job, NEW row, SetJob(j, row),
         row.status # "succeeded" \/ row.status = jobs[j].status
  PROVE  NoNewSuccess
  BY DEF TypeOK, SetJob, NoNewSuccess

LEMMA ClosedStatus ==
  ASSUME NEW row \in JobRow, NEW s, NEW x
  PROVE  Closed(row, s, x).status = s
  BY DEF Closed, JobRow

(* The transactions about a lease make one only where they are told to.     *)
LEMMA LeaseCallsAreNoSuccess ==
  ASSUME TypeOK, NEW j \in Job, NEW w, NEW e, NEW s, NEW x, s # "succeeded",
         \/ ClaimJob(j, w) \/ ClaimsSpent(j) \/ RequestCancel(j) \/ TickLease(j)
         \/ Heartbeat(j, w, e) \/ FinishJob(j, w, e, s, x)
  PROVE  NoNewSuccess
  <1> jobs[j] \in JobRow
    BY DEF TypeOK
  <1>1. CASE ClaimJob(j, w)
    <2> DEFINE row == [jobs[j] EXCEPT
                  !.status = "running", !.owner = w, !.epoch = @ + 1,
                  !.claims = @ + 1, !.lease = LeaseTicks,
                  !.error = IF @ = "delivery_unconfirmed" THEN "none" ELSE @]
    <2>1. row.status = "running"
      BY DEF JobRow
    <2>2. SetJob(j, row)
      BY <1>1 DEF ClaimJob
    <2> QED BY <2>1, <2>2, RowIsNoSuccess
  <1>2. CASE ClaimsSpent(j)
    <2>1. PICK status \in {"cancelled", "failed"} :
                 \E error : SetJob(j, Closed(jobs[j], status, error))
      BY <1>2 DEF ClaimsSpent
    <2> QED BY <2>1, RowIsNoSuccess, ClosedStatus
  <1>3. CASE RequestCancel(j)
    <2> DEFINE row == [jobs[j] EXCEPT !.cancel = TRUE,
                                      !.status = IF @ = "queued" THEN "cancelled" ELSE @]
    <2>1. row.status # "succeeded" \/ row.status = jobs[j].status
      BY DEF JobRow
    <2>2. SetJob(j, row)
      BY <1>3 DEF RequestCancel
    <2> HIDE DEF row
    <2> QED BY <2>1, <2>2, RowIsNoSuccess
  <1>4. CASE TickLease(j) \/ Heartbeat(j, w, e)
    <2>1. \A n : [jobs[j] EXCEPT !.lease = n].status = jobs[j].status
      BY DEF JobRow
    <2>2. PICK n : SetJob(j, [jobs[j] EXCEPT !.lease = n])
      BY <1>4 DEF TickLease, Heartbeat
    <2> QED BY <2>1, <2>2, RowIsNoSuccess
  <1>5. CASE FinishJob(j, w, e, s, x)
    BY <1>5, RowIsNoSuccess, ClosedStatus DEF FinishJob
  <1> QED BY <1>1, <1>2, <1>3, <1>4, <1>5

(* Nor do the calls of a stage or an item, but for an activation.           *)
LEMMA WorkIsNoSuccess ==
  ASSUME TypeOK, NEW j \in Job, NEW i \in Item, NEW w, NEW e, NEW stage, NEW r,
         \/ SetStage(j, w, e, stage) \/ CompleteItem(j, w, e, i, r)
         \/ ClaimNewItem(j, w, e, i) \/ RetryItem(j, w, e, i) \/ ExhaustItem(j, w, e, i)
         \/ FailItem(j, w, e, i, FALSE)
  PROVE  NoNewSuccess
  <1>1. jobs[j] \in JobRow
    BY DEF TypeOK
  <1>2. /\ \A n : [jobs[j] EXCEPT !.stage = n].status = jobs[j].status
        /\ \A n : [jobs[j] EXCEPT !.completed = n].status = jobs[j].status
        /\ \A n : [jobs[j] EXCEPT !.failed = n].status = jobs[j].status
    BY <1>1 DEF JobRow
  <1>3. \/ UNCHANGED jobs
        \/ \E n : SetJob(j, [jobs[j] EXCEPT !.stage = n])
        \/ \E n : SetJob(j, [jobs[j] EXCEPT !.completed = n])
        \/ \E n : SetJob(j, [jobs[j] EXCEPT !.failed = n])
    BY DEF SetStage, CompleteItem, ClaimNewItem, RetryItem, ExhaustItem, FailItem
  <1> QED BY <1>2, <1>3, RowIsNoSuccess DEF NoNewSuccess

(* Clients, clocks and dispatchers make none.                               *)
LEMMA OutsideIsNoSuccess ==
  ASSUME TypeOK, NEW kind, NEW total, Client(kind, total) \/ PassTime \/ Post
  PROVE  NoNewSuccess
  <1>1. UNCHANGED jobs => NoNewSuccess
    BY DEF NoNewSuccess
  <1>2. ASSUME NEW j \in Job, RequestCancel(j) \/ TickLease(j) PROVE NoNewSuccess
    BY <1>2, LeaseCallsAreNoSuccess
  <1>3. ASSUME NEW j \in Job, NEW k, NEW r, CreateJob(j, kind, k, r, total) PROVE NoNewSuccess
    <2> DEFINE row == [NoJob EXCEPT !.status = "queued", !.kind = kind, !.key = k,
                                    !.request = r, !.total = total]
    <2>1. row.status = "queued"
      BY DEF NoJob
    <2>2. SetJob(j, row)
      BY <1>3 DEF CreateJob
    <2> HIDE DEF row
    <2> QED BY <2>1, <2>2, RowIsNoSuccess
  <1>4. ASSUME NEW d \in Dispatcher, Scan(d) PROVE NoNewSuccess
    <2>1. PICK batch \in SUBSET Job : RequeueExpired(batch)
      BY <1>4 DEF Scan
    <2>2. jobs' = [j \in Job |->
            IF j \in batch /\ Exhausted(j)
            THEN Closed(jobs[j], "queued", "delivery_unconfirmed") ELSE jobs[j]]
      BY <2>1 DEF RequeueExpired
    <2>3. \A j \in Job : Closed(jobs[j], "queued", "delivery_unconfirmed").status = "queued"
      BY ClosedStatus DEF TypeOK
    <2> QED BY <2>2, <2>3 DEF NoNewSuccess
  <1>5. CASE Client(kind, total)
    BY <1>2, <1>3, <1>5 DEF Client
  <1>6. CASE PassTime
    BY <1>1, <1>2, <1>6 DEF PassTime, ExpireClaim
  <1>7. CASE Post
    BY <1>1, <1>4, <1>7 DEF Post, Collect, Publish, Settle, StopDispatcher, Lose, vars,
                            ClaimOutbox, MarkDelivered, MarkRetry
  <1> QED BY <1>5, <1>6, <1>7

(* process_job itself makes one only for an evaluation that is done.        *)
LEMMA ProcessIsNoSuccess ==
  ASSUME TypeOK, NEW R, ServiceTyped(R), NEW w \in Worker, LeaseHeld(w), Process(w),
         task[w].pc # "succeed"
  PROVE  NoNewSuccess
  <1>1. UNCHANGED vars => NoNewSuccess
    BY DEF NoNewSuccess, vars
  <1>2. ASSUME NEW j \in Job, ClaimJob(j, w) \/ ClaimsSpent(j) PROVE NoNewSuccess
    BY <1>2, LeaseCallsAreNoSuccess
  <1>3. CASE \E j \in Job, t \in Try : Take(w, j, t)
    BY <1>1, <1>2, <1>3 DEF Take
  <1>4. CASE Beat(w)
    <2>1. task[w].job \in Job
      BY <1>4 DEF Beat, Beating, LeaseHeld
    <2>2. Heartbeat(task[w].job, w, task[w].epoch) \/ UNCHANGED vars
      BY <1>4 DEF Beat
    <2> QED BY <1>1, <2>1, <2>2, LeaseCallsAreNoSuccess
  <1>5. CASE Finish(w)
    <2>1. task[w].job \in Job
      BY <1>5 DEF Finish, LeaseHeld
    <2>2. task[w].status # "succeeded"
      BY DEF ServiceTyped, TaskRow
    <2>3. \/ FinishJob(task[w].job, w, task[w].epoch, task[w].status, task[w].error)
          \/ UNCHANGED vars
      BY <1>5 DEF Finish
    <2> QED BY <1>1, <2>1, <2>2, <2>3, LeaseCallsAreNoSuccess
  <1> QED BY <1>1, <1>3, <1>4, <1>5 DEF Process, BeatFails, Succeed, Retry

(* Leases once granted stay on record.                                      *)
GrantsStay == \A j \in Job : \A e \in DOMAIN grants[j] :
                e \in DOMAIN grants'[j] /\ grants'[j][e] = grants[j][e]

LEMMA StepsKeepGrants ==
  ASSUME TypeOK, [Next]_vars
  PROVE  GrantsStay
  <1>1. CASE UNCHANGED grants
    BY <1>1 DEF GrantsStay
  <1>2. ASSUME NEW j \in Job, NEW w \in Worker, ClaimJob(j, w) PROVE GrantsStay
    <2>1. grants' = [grants EXCEPT ![j] = Append(grants[j], w)]
      BY <1>2 DEF ClaimJob
    <2>2. \A e \in DOMAIN grants[j] :
            e \in DOMAIN Append(grants[j], w) /\ Append(grants[j], w)[e] = grants[j][e]
      BY DEF TypeOK
    <2> QED BY <2>1, <2>2 DEF TypeOK, GrantsStay
  <1>3. CASE UNCHANGED vars
    BY <1>1, <1>3 DEF vars
  <1>4. CASE Submit \/ Dispatch \/ \E j \in Job : RequestCancel(j)
    BY <1>1, <1>4 DEF Submit, Dispatch, CreateJob, RequestCancel, ClaimOutbox, MarkDelivered,
                      MarkRetry, RequeueExpired
  <1>5. CASE Claim
    BY <1>1, <1>2, <1>5 DEF Claim, ClaimsSpent
  <1>6. CASE Call
    <2>0. PICK j \in Job, w \in Worker : \E e \in DOMAIN grants[j] :
                 Holds(w, j, e) /\ (JobCall(j, w, e) \/ \E i \in Item : ItemCall(j, w, e, i))
      BY <1>6, Zenon DEF Call
    <2>1. PICK e \in DOMAIN grants[j] :
                 JobCall(j, w, e) \/ \E i \in Item : ItemCall(j, w, e, i)
      BY <2>0, Zenon
    <2>2. JobCall(j, w, e) => UNCHANGED grants
      BY DEF JobCall, Heartbeat, SetTotal, SetStage, FinishJob
    <2>3. ASSUME NEW i \in Item, ItemCall(j, w, e, i) PROVE UNCHANGED grants
      BY <2>3 DEF ItemCall, ClaimNewItem, RetryItem, ExhaustItem, CompleteItem, ReconcileItem,
                  FailItem, ActivateIngestion
    <2> QED BY <1>1, <2>1, <2>2, <2>3
  <1>7. CASE Clock
    BY <1>1, <1>7 DEF Clock, TickLease, ExpireClaim
  <1> QED BY <1>3, <1>4, <1>5, <1>6, <1>7 DEF Next

(* A worker that rests, or goes on under its lease, still holds it.         *)
LEMMA LeaseStaysHeld ==
  ASSUME NEW w \in Worker, LeaseHeld(w), GrantsStay,
         task'[w] = task[w] \/ (task[w].pc # "idle" /\ SameClaim(w))
  PROVE  LeaseHeld(w)'
  BY DEF LeaseHeld, Holds, GrantsStay, SameClaim

(* A call under a lease that was granted is a transaction of the store.     *)
LEMMA CallsAreCalls ==
  ASSUME NEW w \in Worker, LeaseHeld(w), task[w].pc # "idle",
         \/ JobCall(task[w].job, w, task[w].epoch)
         \/ \E i \in Item : ItemCall(task[w].job, w, task[w].epoch, i)
  PROVE  Next
  <1>1. task[w].job \in Job /\ Holds(w, task[w].job, task[w].epoch)
    BY DEF LeaseHeld
  <1>2. task[w].epoch \in DOMAIN grants[task[w].job]
    BY <1>1 DEF Holds
  <1>3. Call
    BY <1>1, <1>2 DEF Call
  <1> QED BY <1>3 DEF Next
-----------------------------------------------------------------------------
(* The processes *)

(* Clients submit jobs and cancel them.                                     *)
LEMMA ClientsKeepToTheStore ==
  ASSUME IInv, NEW kind \in Kind, NEW total \in Total, Client(kind, total)
  PROVE  Next /\ KeepsWork /\ UNCHANGED serviceVars
  <1>1. TypeOK
    BY DEF IInv
  <1>2. ASSUME NEW j \in Job, RequestCancel(j) PROVE Next /\ KeepsWork
    BY <1>1, <1>2, LeaseCallsKeepWork DEF Next
  <1>3. ASSUME NEW j \in Job, NEW k \in Key \cup {None}, NEW r \in Request,
               CreateJob(j, kind, k, r, total)
        PROVE  Next /\ KeepsWork
    <2>1. Next
      BY <1>3 DEF Next, Submit
    <2>2. jobs[j].stage = NoJob.stage
      BY <1>3 DEF CreateJob, Exists, IInv, Unborn, FreshOK
    <2> DEFINE row == [NoJob EXCEPT !.status = "queued", !.kind = kind, !.key = k,
                                    !.request = r, !.total = total]
    <2>3. row.stage = NoJob.stage
      BY NoJobRow DEF JobRow
    <2>4. SetJob(j, row) /\ UNCHANGED items
      BY <1>3 DEF CreateJob
    <2> QED BY <1>1, <2>1, <2>2, <2>3, <2>4, RowKeepsWork
  <1> QED BY <1>2, <1>3 DEF Client

(* Leases run out.                                                          *)
LEMMA ClocksKeepToTheStore ==
  ASSUME IInv, PassTime
  PROVE  Next /\ KeepsWork /\ UNCHANGED <<sender, task>>
  <1>1. TypeOK
    BY DEF IInv
  <1>2. ASSUME NEW j \in Job, TickLease(j) PROVE Next /\ KeepsWork
    BY <1>1, <1>2, LeaseCallsKeepWork DEF Next, Clock
  <1>3. ASSUME NEW j \in Job, NEW n \in DOMAIN outbox[j], ExpireClaim(j, n)
        PROVE  Next /\ KeepsWork
    BY <1>3 DEF Next, Clock, ExpireClaim, KeepsWork
  <1> QED BY <1>2, <1>3 DEF PassTime, serviceVars

(* Dispatchers settle the rows they have claimed, under the epoch of the    *)
(* claim; the broker touches no table.                                      *)
LEMMA PostKeepsToTheStore ==
  ASSUME IInv, NEW R, ServiceTyped(R), Post
  PROVE  [Next]_vars /\ KeepsWork /\ UNCHANGED task /\ sender' \in [Dispatcher -> SenderRow]
  <1>1. TypeOK
    BY DEF IInv
  <1>2. UNCHANGED vars => [Next]_vars /\ KeepsWork
    BY DEF vars, KeepsWork
  <1>3. ASSUME NEW d \in Dispatcher, Scan(d) PROVE Next /\ KeepsWork /\ UNCHANGED <<task, sender>>
    <2>1. PICK batch \in SUBSET Job : RequeueExpired(batch)
      BY <1>3 DEF Scan
    <2>2. Next
      BY <2>1 DEF Next, Dispatch
    <2>3. UNCHANGED items /\ jobs' = [j \in Job |->
            IF j \in batch /\ Exhausted(j)
            THEN Closed(jobs[j], "queued", "delivery_unconfirmed") ELSE jobs[j]]
      BY <2>1 DEF RequeueExpired
    <2>4. \A j \in Job : jobs[j] \in JobRow
      BY <1>1 DEF TypeOK
    <2>5. KeepsWork
      BY <2>3, <2>4, ClosedKeepsStage DEF KeepsWork
    <2> QED BY <1>3, <2>2, <2>5 DEF Scan, serviceVars
  <1>4. ASSUME NEW d \in Dispatcher, Collect(d)
        PROVE  Next /\ KeepsWork /\ UNCHANGED task /\ sender' \in [Dispatcher -> SenderRow]
    <2> DEFINE Mail(batch) ==
          {[job |-> p[1], row |-> p[2], epoch |-> outbox[p[1]][p[2]].epoch + 1] : p \in batch}
    <2>1. PICK batch \in SUBSET OutboxRows :
                 ClaimOutbox(d, batch) /\ sender' = [sender EXCEPT ![d].mail = Mail(batch)]
      BY <1>4 DEF Collect
    <2>2. Next /\ KeepsWork
      BY <2>1 DEF Next, Dispatch, ClaimOutbox, KeepsWork
    <2>3. ASSUME NEW p \in batch
          PROVE  [job |-> p[1], row |-> p[2], epoch |-> outbox[p[1]][p[2]].epoch + 1] \in Letter
      <3>1. p[1] \in Job /\ p[2] \in Nat /\ p[2] \in DOMAIN outbox[p[1]]
        BY LimitsArePositive DEF OutboxRows
      <3>2. outbox[p[1]][p[2]].epoch < MaxSends
        BY <2>1 DEF ClaimOutbox, Claimable
      <3>3. outbox[p[1]][p[2]].epoch \in Nat
        <4>1. outbox[p[1]] \in Seq(OutboxRow)
          BY <1>1, <3>1 DEF TypeOK
        <4>2. outbox[p[1]][p[2]] \in OutboxRow
          BY <3>1, <4>1
        <4> QED BY <4>2 DEF OutboxRow
      <3>4. outbox[p[1]][p[2]].epoch + 1 \in 0..MaxSends
        BY <3>2, <3>3, LimitsArePositive
      <3> QED BY <3>1, <3>4 DEF Letter
    <2>4. Mail(batch) \in SUBSET Letter
      BY <2>3
    <2> HIDE DEF Mail
    <2>5. sender' \in [Dispatcher -> SenderRow]
      BY <2>1, <2>4 DEF ServiceTyped, SenderRow
    <2> QED BY <1>4, <2>2, <2>5 DEF Collect
  <1>5. ASSUME NEW d \in Dispatcher, Publish(d)
        PROVE  UNCHANGED vars /\ UNCHANGED task /\ sender' \in [Dispatcher -> SenderRow]
    <2>1. PICK letter \in sender[d].mail, ok \in BOOLEAN :
                 sender' = [sender EXCEPT ![d].mail = @ \ {letter},
                                          ![d].out = [letter |-> letter, ok |-> ok]]
      BY <1>5 DEF Publish
    <2>2. letter \in Letter
      BY DEF ServiceTyped, SenderRow
    <2>3. sender' \in [Dispatcher -> SenderRow]
      BY <2>1, <2>2 DEF ServiceTyped, SenderRow
    <2> QED BY <1>5, <2>3 DEF Publish
  <1>6. ASSUME NEW d \in Dispatcher, Settle(d)
        PROVE  [Next]_vars /\ KeepsWork /\ UNCHANGED task /\ sender' \in [Dispatcher -> SenderRow]
    <2>1. sender[d].out.letter \in Letter
      BY <1>6 DEF Settle, ServiceTyped, SenderRow
    <2>2. PICK l \in Letter : \/ UNCHANGED vars
                              \/ MarkDelivered(d, l.job, l.row, l.epoch)
                              \/ MarkRetry(d, l.job, l.row, l.epoch)
      BY <1>6, <2>1 DEF Settle
    <2>3. l.job \in Job /\ l.epoch \in 0..MaxSends
      BY DEF Letter
    <2>4. ASSUME MarkDelivered(d, l.job, l.row, l.epoch) \/ MarkRetry(d, l.job, l.row, l.epoch)
          PROVE  Next /\ KeepsWork
      <3>1. l.row \in DOMAIN outbox[l.job]
        BY <2>4 DEF MarkDelivered, MarkRetry, OwnsRow
      <3> QED BY <2>3, <2>4, <3>1 DEF Next, Dispatch, MarkDelivered, MarkRetry, KeepsWork
    <2>5. sender' \in [Dispatcher -> SenderRow]
      BY <1>6 DEF Settle, ServiceTyped, SenderRow
    <2> QED BY <1>2, <1>6, <2>2, <2>4, <2>5 DEF Settle
  <1>7. ASSUME NEW d \in Dispatcher, StopDispatcher(d)
        PROVE  UNCHANGED vars /\ UNCHANGED task /\ sender' \in [Dispatcher -> SenderRow]
    BY <1>7 DEF StopDispatcher, ServiceTyped, SenderRow, Quiet
  <1>8. ASSUME NEW j \in Job, NEW t \in Try, Lose(j, t)
        PROVE  UNCHANGED vars /\ UNCHANGED <<task, sender>>
    BY <1>8 DEF Lose
  <1> QED BY <1>2, <1>3, <1>4, <1>5, <1>6, <1>7, <1>8 DEF Post, ServiceTyped

(* What process_job itself does leaves the worker where it was, takes a     *)
(* task to its start, or ends it.                                           *)
ProcessStep(w) ==
  \/ task'[w].pc = task[w].pc /\ SamePlace(w)
  \/ task'[w].pc = "start" /\ task'[w].next = 1
  \/ task'[w].pc \in {"idle", "finish", "lost"}

LEMMA IdleRow ==
  ASSUME NEW R, None \in R
  PROVE  Idle \in TaskRow(R) /\ Idle.pc = "idle"
  BY DEF Idle, TaskRow, Place

LEMMA ProcessesKeepToTheStore ==
  ASSUME IInv, NEW R, None \in R, ServiceTyped(R), NEW w \in Worker, LeaseHeld(w), Process(w)
  PROVE  /\ [Next]_vars /\ KeepsWork
         /\ ServiceTyped(R)' /\ LeaseHeld(w)' /\ OthersRest(w) /\ ProcessStep(w)
  <1>0. TypeOK /\ task[w] \in TaskRow(R) /\ Idle \in TaskRow(R) /\ Idle.pc = "idle"
    BY IdleRow DEF IInv, ServiceTyped
  <1>1. UNCHANGED vars => [Next]_vars /\ KeepsWork
    BY DEF vars, KeepsWork
  <1>2. UNCHANGED sender
    BY DEF Process, Take, Beat, BeatFails, Succeed, Finish, Retry
  <1>3. {"finish", "lost", "start"} \subseteq Place
    BY DEF Place
  <1>4. ASSUME task' = [task EXCEPT ![w] = Idle]
        PROVE  ServiceTyped(R)' /\ LeaseHeld(w)' /\ OthersRest(w) /\ ProcessStep(w)
    <2>1. task'[w] = Idle /\ task' \in [Worker -> TaskRow(R)] /\ OthersRest(w)
      BY <1>0, <1>4 DEF ServiceTyped, OthersRest
    <2> QED BY <1>0, <1>2, <2>1 DEF ServiceTyped, LeaseHeld, ProcessStep
  <1>5. ASSUME [Next]_vars, task[w].pc # "idle", task' \in [Worker -> TaskRow(R)], OthersRest(w),
               SamePlace(w), task'[w].pc \in {task[w].pc, "finish", "lost"}
        PROVE  ServiceTyped(R)' /\ LeaseHeld(w)' /\ OthersRest(w) /\ ProcessStep(w)
    <2>1. LeaseHeld(w)'
      BY <1>0, <1>5, StepsKeepGrants, LeaseStaysHeld DEF SamePlace
    <2>2. ServiceTyped(R)'
      BY <1>2, <1>5 DEF ServiceTyped
    <2>3. ProcessStep(w)
      BY <1>5 DEF ProcessStep
    <2> QED BY <1>5, <2>1, <2>2, <2>3
  <1>6. ASSUME NEW j \in Job, NEW t \in Try, Take(w, j, t)
        PROVE  /\ [Next]_vars /\ KeepsWork
               /\ ServiceTyped(R)' /\ LeaseHeld(w)' /\ OthersRest(w) /\ ProcessStep(w)
    <2>0. task[w].pc = "idle"
      BY <1>0, <1>6 DEF Take
    <2>1. CASE UNCHANGED task /\ (UNCHANGED vars \/ ClaimsSpent(j))
      <3>1. [Next]_vars /\ KeepsWork
        BY <1>0, <1>1, <2>1, LeaseCallsKeepWork DEF Next, Claim
      <3>2. ServiceTyped(R)' /\ LeaseHeld(w)' /\ OthersRest(w) /\ ProcessStep(w)
        BY <1>2, <2>0, <2>1 DEF ServiceTyped, LeaseHeld, OthersRest, ProcessStep, SamePlace,
                                SameClaim
      <3> QED BY <3>1, <3>2
    <2>2. ASSUME ClaimJob(j, w), NEW pc \in {"start", "finish"},
                 task' = [task EXCEPT ![w] = Started(w, j, t, pc)]
          PROVE  /\ [Next]_vars /\ KeepsWork
                 /\ ServiceTyped(R)' /\ LeaseHeld(w)' /\ OthersRest(w) /\ ProcessStep(w)
      <3> DEFINE new == Started(w, j, t, pc)
      <3>1. [Next]_vars /\ KeepsWork
        BY <1>0, <2>2, LeaseCallsKeepWork DEF Next, Claim
      <3>2. jobs[j].epoch \in Nat /\ jobs[j].stage \in Nat
        BY <1>0 DEF TypeOK, JobRow
      <3>3. t \in Nat
        BY BoundsAreCounts DEF Try
      <3>4. new = [Idle EXCEPT !.pc = pc, !.job = j, !.tries = t, !.epoch = jobs[j].epoch + 1,
                               !.stage = jobs[j].stage,
                               !.error = IF pc = "finish" THEN "other" ELSE "none"]
        BY DEF Started
      <3>5. /\ new \in TaskRow(R) /\ new.pc = pc /\ new.job = j /\ new.next = Idle.next
            /\ new.epoch = jobs[j].epoch + 1
        <4> DEFINE x == IF pc = "finish" THEN "other" ELSE "none"
        <4>1. x \in {"none", "other"} /\ pc \in Place /\ jobs[j].epoch + 1 \in Nat
          BY <1>3, <3>2
        <4> HIDE DEF x
        <4>2. [Idle EXCEPT !.pc = pc, !.job = j, !.tries = t, !.epoch = jobs[j].epoch + 1,
                           !.stage = jobs[j].stage, !.error = x] \in TaskRow(R)
          BY <1>0, <3>2, <3>3, <4>1 DEF TaskRow
        <4>3. new = [Idle EXCEPT !.pc = pc, !.job = j, !.tries = t,
                                 !.epoch = jobs[j].epoch + 1, !.stage = jobs[j].stage,
                                 !.error = x]
          BY <3>4 DEF x
        <4>4. new.pc = pc /\ new.job = j /\ new.next = Idle.next
          BY <1>0, <4>3 DEF TaskRow
        <4>5. new.epoch = jobs[j].epoch + 1
          BY <1>0, <4>3 DEF TaskRow
        <4> QED BY <4>2, <4>3, <4>4, <4>5
      <3> HIDE DEF new
      <3>6. task'[w] = new /\ task' \in [Worker -> TaskRow(R)] /\ OthersRest(w)
        BY <2>2, <3>5 DEF ServiceTyped, OthersRest, new
      <3>7. Len(grants[j]) = jobs[j].epoch /\ grants[j] \in Seq(Worker)
        BY <1>0, RowView DEF RowOK, LeaseOK, TypeOK
      <3>8. grants'[j] = Append(grants[j], w)
        BY <1>0, <2>2 DEF ClaimJob, TypeOK
      <3>9. jobs[j].epoch + 1 \in DOMAIN grants'[j] /\ grants'[j][jobs[j].epoch + 1] = w
        BY <3>7, <3>8
      <3>10. LeaseHeld(w)'
        BY <3>5, <3>6, <3>9 DEF LeaseHeld, Holds
      <3>11. ProcessStep(w)
        BY <2>2, <3>5, <3>6 DEF ProcessStep, Idle
      <3> QED BY <1>2, <3>1, <3>6, <3>10, <3>11 DEF ServiceTyped
    <2> QED BY <1>6, <2>1, <2>2 DEF Take
  <1>7. ASSUME Beat(w) \/ BeatFails(w)
        PROVE  /\ [Next]_vars /\ KeepsWork
               /\ ServiceTyped(R)' /\ LeaseHeld(w)' /\ OthersRest(w) /\ ProcessStep(w)
    <2>1. task[w].pc # "idle"
      BY <1>7 DEF Beat, BeatFails, Beating
    <2>2. task[w].job \in Job
      BY <2>1 DEF LeaseHeld
    <2>3. CASE Heartbeat(task[w].job, w, task[w].epoch) /\ UNCHANGED task
      <3>1. [Next]_vars
        BY <2>1, <2>3, CallsAreCalls DEF JobCall
      <3>2. KeepsWork
        BY <1>0, <2>2, <2>3, LeaseCallsKeepWork
      <3> QED BY <1>5, <2>1, <2>3, <3>1, <3>2 DEF OthersRest, SamePlace, SameClaim, ServiceTyped
    <2>4. CASE task' = [task EXCEPT ![w].lost = TRUE] /\ UNCHANGED vars
      <3> DEFINE new == [task[w] EXCEPT !.lost = TRUE]
      <3>1. new \in TaskRow(R)
        BY <1>0 DEF TaskRow
      <3>2. task' = [task EXCEPT ![w] = new]
        BY <2>4
      <3>3. task'[w] = new
        BY <3>2 DEF ServiceTyped
      <3>4. SamePlace(w) /\ task'[w].pc = task[w].pc
        BY <1>0, <3>3 DEF SamePlace, SameClaim, TaskRow
      <3>5. task' \in [Worker -> TaskRow(R)] /\ OthersRest(w)
        BY <3>1, <3>2 DEF ServiceTyped, OthersRest
      <3> QED BY <1>1, <1>5, <2>1, <2>4, <3>4, <3>5
    <2> QED BY <1>7, <2>3, <2>4 DEF Beat, BeatFails
  <1>8. ASSUME Succeed(w)
        PROVE  /\ [Next]_vars /\ KeepsWork
               /\ ServiceTyped(R)' /\ LeaseHeld(w)' /\ OthersRest(w) /\ ProcessStep(w)
    <2>1. task[w].pc # "idle" /\ task[w].job \in Job
      BY <1>8 DEF Succeed, LeaseHeld
    <2>2. CASE FinishJob(task[w].job, w, task[w].epoch, "succeeded", "none")
               /\ task' = [task EXCEPT ![w] = Idle]
      <3>1. [Next]_vars
        BY <2>1, <2>2, CallsAreCalls DEF JobCall, Terminal
      <3>2. KeepsWork
        BY <1>0, <2>1, <2>2, LeaseCallsKeepWork
      <3> QED BY <1>4, <2>2, <3>1, <3>2
    <2>3. CASE (GoFail(w, "other") \/ Goto(w, "lost")) /\ UNCHANGED vars
      BY <1>1, <1>3, <1>5, <2>1, <2>3, GotoWrites, GoFailWrites
    <2> QED BY <1>8, <2>2, <2>3 DEF Succeed
  <1>9. ASSUME Finish(w)
        PROVE  /\ [Next]_vars /\ KeepsWork
               /\ ServiceTyped(R)' /\ LeaseHeld(w)' /\ OthersRest(w) /\ ProcessStep(w)
    <2>1. task[w].pc # "idle" /\ task[w].job \in Job
      BY <1>9 DEF Finish, LeaseHeld
    <2>2. task[w].status \in Terminal /\ task[w].error \in {"none", "other"}
      BY <1>0 DEF TaskRow, Terminal
    <2>3. CASE FinishJob(task[w].job, w, task[w].epoch, task[w].status, task[w].error)
      <3>1. [Next]_vars
        BY <2>1, <2>2, <2>3, CallsAreCalls DEF JobCall
      <3>2. KeepsWork
        BY <1>0, <2>1, <2>3, LeaseCallsKeepWork
      <3> QED BY <1>4, <1>9, <3>1, <3>2 DEF Finish
    <2> QED BY <1>1, <1>4, <1>9, <2>3 DEF Finish
  <1>10. ASSUME Retry(w)
         PROVE  /\ [Next]_vars /\ KeepsWork
                /\ ServiceTyped(R)' /\ LeaseHeld(w)' /\ OthersRest(w) /\ ProcessStep(w)
    BY <1>1, <1>4, <1>10 DEF Retry
  <1> QED BY <1>6, <1>7, <1>8, <1>9, <1>10 DEF Process
================================================================================
