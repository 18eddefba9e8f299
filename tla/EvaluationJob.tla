---------------------------- MODULE EvaluationJob ----------------------------
(***************************************************************************)
(* Evaluation jobs end to end: run_evaluation_job of jobs/handlers.py over *)
(* the job service.  Each case leaves an immutable artifact in the M2      *)
(* experiment store; the item of the case is credited in the job tables    *)
(* afterwards, in a transaction of its own.  The experiment lock (flock)   *)
(* is held by the process and goes with it.  Every case is a work unit of  *)
(* its own (no session groups), with one attempt (max_retries = 0).        *)
(***************************************************************************)
EXTENDS JobService

CONSTANT Cases      (* Number of cases of the registered dataset.          *)

ASSUME ItemsAreCases == Cases \in Nat /\ Item = 1..Cases
(* The total of the registration is one that a submission may declare.     *)
ASSUME CasesAreATotal == Cases \in Total

VARIABLES
  dir,      (* dir[j]: the experiment directory is missing, is there       *)
            (* without a manifest ("torn"), or is ready.                   *)
  attempt,  (* attempt[j][i]: the attempt file of case i: a result, or     *)
            (* "failed".                                                   *)
  artifact, (* artifact[j][i]: the result of case i with its complete      *)
            (* marker.                                                     *)
  lock      (* lock[j]: the worker whose process holds the experiment lock.*)

disk == <<dir, attempt, artifact>>

evaluationVars == <<vars, serviceVars, disk, lock>>

(* Stages of an evaluation: received, evaluating, aggregating, completed. *)
Evaluating == 1
Aggregating == 2
Completed == 3

EvaluationInit ==
  /\ ServiceInit
  /\ dir = [j \in Job |-> "missing"]
  /\ attempt = [j \in Job |-> [i \in Item |-> None]]
  /\ artifact = [j \in Job |-> [i \in Item |-> None]]
  /\ lock = [j \in Job |-> None]

JobOf(w) == task[w].job
Case(w) == task[w].next

Unlock(w) == lock' = [lock EXCEPT ![JobOf(w)] = None]

(* check_active inside the lock: leaving the work gives the lock back. *)
CheckHeld(w, onward) ==
  /\ Check(w, onward)
  /\ IF task'[w].pc = onward THEN UNCHANGED lock ELSE Unlock(w)
  /\ UNCHANGED disk

(* The write was refused: the lease is lost. *)
Refused(w) ==
  /\ ~LockedActive(JobOf(w), w, task[w].epoch)
  /\ Goto(w, "lost")
  /\ Unlock(w)
  /\ UNCHANGED vars

(* Mutant: the last case is left out. *)
NextCase_OneShort(w) ==
  /\ task' = [task EXCEPT ![w].next = @ + 1, ![w].ref = None,
                           ![w].pc = IF Case(w) >= Cases - 1 THEN "last check" ELSE "check"]
  /\ UNCHANGED lock

(* On to the next case, or out of the loop. *)
NextCase(w) ==
  /\ task' = [task EXCEPT ![w].next = @ + 1, ![w].ref = None,
                           ![w].pc = IF Case(w) = Cases THEN "last check" ELSE "check"]
  /\ UNCHANGED lock

(* Mutant: no experiment lock. *)
AcquireLock_Free(w) ==
  /\ task[w].pc = "start"
  /\ lock' = [lock EXCEPT ![JobOf(w)] = w]
  /\ Goto(w, IF Cases = 0 THEN "last check" ELSE "check")
  /\ UNCHANGED <<vars, broker, sender, faults, disk>>

(* _experiment_lock blocks until no other process holds it. *)
AcquireLock(w) ==
  /\ task[w].pc = "start"
  /\ lock[JobOf(w)] = None
  /\ lock' = [lock EXCEPT ![JobOf(w)] = w]
  /\ Goto(w, IF Cases = 0 THEN "last check" ELSE "check")
  /\ UNCHANGED <<vars, broker, sender, faults, disk>>

CheckCase(w) == task[w].pc = "check" /\ CheckHeld(w, "claim")

(* claim_item, then the artifact already on disk decides. *)
ClaimCase(w) ==
  LET j == JobOf(w)  e == task[w].epoch  i == Case(w)
      found == artifact[j][i]
      held == LockedActive(j, w, e)
      succeeded == held /\ ~jobs[j].cancel /\ items[j][i].status = "succeeded"
      claimed == ClaimNewItem(j, w, e, i) \/ RetryItem(j, w, e, i)
      unclaimed == /\ \/ ~MayClaim(j, w, e)
                      \/ items[j][i].status \in {"succeeded", "failed"}
                      \/ OwnsItem(j, e, i)
                      \/ items[j][i].status = "none" /\ ~Room(j)
                   /\ UNCHANGED vars
      asked == claimed \/ ExhaustItem(j, w, e, i) \/ unclaimed
  IN  /\ task[w].pc = "claim"
      /\ \/ /\ succeeded /\ found # None /\ found = items[j][i].ref
            /\ NextCase(w)
            /\ UNCHANGED vars
         \/ /\ succeeded /\ (found = None \/ found # items[j][i].ref)
            /\ GoFail(w, "other")
            /\ Unlock(w)
            /\ UNCHANGED vars
         \/ /\ ~succeeded /\ found # None
            /\ asked
            /\ Goto(w, "credit")
            /\ UNCHANGED lock
         \/ /\ dir[j] = "torn"
            /\ asked
            /\ GoFail(w, "other")
            /\ Unlock(w)
         \/ /\ found = None /\ dir[j] # "torn" /\ task[w].stage < Aggregating
            /\ claimed
            /\ Goto(w, "evaluate")
            /\ UNCHANGED lock
         \/ /\ ~succeeded /\ found = None /\ dir[j] # "torn"
            /\ \/ claimed /\ task[w].stage >= Aggregating
               \/ ExhaustItem(j, w, e, i)
               \/ unclaimed
            /\ IF task[w].stage >= Aggregating THEN GoFail(w, "other")
               ELSE IF ~held THEN Goto(w, "lost")
               ELSE IF jobs[j].cancel THEN GoCancel(w)
               ELSE GoFail(w, "other")
            /\ Unlock(w)
      /\ UNCHANGED <<broker, sender, faults, disk>>

(* reconcile_item credits the artifact an earlier attempt left behind.  It  *)
(* refuses an item that is credited already, as ClaimCase lets one pass     *)
(* when a cancellation hides its status; that reads as a lost lease.        *)
CreditCase(w) ==
  /\ task[w].pc = "credit"
  /\ \/ /\ ReconcileItem(JobOf(w), w, task[w].epoch, Case(w), artifact[JobOf(w)][Case(w)])
        /\ NextCase(w)
     \/ /\ items[JobOf(w)][Case(w)].status = "succeeded"
        /\ Goto(w, "lost") /\ Unlock(w) /\ UNCHANGED vars
     \/ Refused(w)
  /\ UNCHANGED <<broker, sender, faults, disk>>

MarkEvaluating(w) ==
  /\ task[w].pc = "evaluate"
  /\ \/ /\ SetStage(JobOf(w), w, task[w].epoch, Evaluating)
        /\ Goto(w, "run")
        /\ UNCHANGED lock
     \/ Refused(w)
  /\ UNCHANGED <<broker, sender, faults, disk>>

Untried(j) == {i \in Item : attempt[j][i] = None}

(* The runner takes the untried cases in order, and stops at the first that *)
(* succeeds: those before case k have failed, and k left the attempt a.     *)
Attempts(j, k, a) ==
  [i \in Item |-> IF i > k \/ i \notin Untried(j) THEN attempt[j][i]
                 ELSE IF i = k THEN a ELSE "failed"]

(* A result gets its complete marker right after its attempt file, or, when *)
(* a crash came between the two, before the next case is taken.             *)
Completes(j, attempts) ==
  artifact' = [artifact EXCEPT ![j] =
                 [i \in Item |-> IF attempts[i] = "failed" THEN None ELSE attempts[i]]]

(* Mutant: the result is reported before it is on disk. *)
RunCase_NotDurable(w) ==
  /\ task[w].pc = "run"
  /\ \E r \in Ref :
       task' = [task EXCEPT ![w].ref = r, ![w].pc = "check again"]
  /\ UNCHANGED <<vars, broker, sender, faults, disk, lock>>

(* run_experiment or resume_experiment, up to one more success: of this     *)
(* case, of a later one (this one was completed first, or failed), or none. *)
RunCase(w) ==
  /\ task[w].pc = "run"
  /\ LET j == JobOf(w)
     IN  /\ \E k \in Untried(j) \cup {Cases + 1}, r \in Ref :
              attempt' = [attempt EXCEPT ![j] = Attempts(j, k, r)]
         /\ Completes(j, attempt'[j])
         /\ dir' = [dir EXCEPT ![j] = "ready"]
         /\ IF artifact'[j][Case(w)] = None THEN Goto(w, "fail")
            ELSE task' = [task EXCEPT ![w].ref = artifact'[j][Case(w)],
                                      ![w].pc = "check again"]
  /\ UNCHANGED <<vars, broker, sender, faults, lock>>

(* The process dies within run_experiment or resume_experiment: before the  *)
(* manifest is written, or after an attempt file, which then has no marker. *)
RunCut(j) ==
  \/ /\ dir[j] = "missing"
     /\ dir' = [dir EXCEPT ![j] = "torn"]
     /\ UNCHANGED <<attempt, artifact>>
  \/ /\ dir' = [dir EXCEPT ![j] = "ready"]
     /\ Completes(j, attempt[j])
     /\ \/ UNCHANGED attempt
        \/ \E k \in Untried(j), a \in Ref \cup {"failed"} :
             attempt' = [attempt EXCEPT ![j] = Attempts(j, k, a)]

CheckResult(w) == task[w].pc = "check again" /\ CheckHeld(w, "complete")

CompleteCase(w) ==
  /\ task[w].pc = "complete"
  /\ \/ CompleteItem(JobOf(w), w, task[w].epoch, Case(w), task[w].ref) /\ NextCase(w)
     \/ Refused(w)
  /\ UNCHANGED <<broker, sender, faults, disk>>

(* fail_item is not retryable, and whether it wrote anything is ignored. *)
FailCase(w) ==
  /\ task[w].pc = "fail"
  /\ \/ FailItem(JobOf(w), w, task[w].epoch, Case(w), FALSE)
     \/ /\ ~LockedActive(JobOf(w), w, task[w].epoch)
           \/ ~OwnsItem(JobOf(w), task[w].epoch, Case(w))
        /\ UNCHANGED vars
  /\ GoFail(w, "other")
  /\ Unlock(w)
  /\ UNCHANGED <<broker, sender, faults, disk>>

LastCheck(w) ==
  /\ task[w].pc = "last check"
  /\ CheckHeld(w, IF task[w].stage = Completed THEN "aggregate" ELSE "to aggregating")

MarkAggregating(w) ==
  /\ task[w].pc = "to aggregating"
  /\ \/ /\ SetStage(JobOf(w), w, task[w].epoch, Aggregating)
        /\ Goto(w, "aggregate")
        /\ UNCHANGED lock
     \/ Refused(w)
  /\ UNCHANGED <<broker, sender, faults, disk>>

(* The aggregation writes files only; it may fail. *)
Aggregate(w) ==
  /\ task[w].pc = "aggregate"
  /\ \/ task[w].stage = Completed /\ Goto(w, "check success") /\ Unlock(w)
     \/ task[w].stage # Completed /\ Goto(w, "to completed") /\ UNCHANGED lock
     \/ GoFail(w, "other") /\ Unlock(w)
  /\ UNCHANGED <<vars, broker, sender, faults, disk>>

MarkCompleted(w) ==
  /\ task[w].pc = "to completed"
  /\ \/ /\ SetStage(JobOf(w), w, task[w].epoch, Completed)
        /\ Goto(w, "check success")
        /\ Unlock(w)
     \/ Refused(w)
  /\ UNCHANGED <<broker, sender, faults, disk>>

CheckSuccess(w) ==
  /\ task[w].pc = "check success"
  /\ Check(w, "succeed")
  /\ UNCHANGED <<disk, lock>>

(* An exception between two steps, such as a lost database connection.      *)
(* Inside the try of a case it fails the item first.                        *)
Break(w) ==
  /\ task[w].pc \notin {"idle", "lost"}
  /\ Fault
  /\ CASE task[w].pc \in {"evaluate", "run", "check again", "complete"} ->
            Goto(w, "fail") /\ UNCHANGED lock
       [] task[w].pc = "finish" -> Goto(w, "lost") /\ UNCHANGED lock
       [] OTHER -> /\ GoFail(w, "other")
                   /\ IF lock[JobOf(w)] = w THEN Unlock(w) ELSE UNCHANGED lock
  /\ UNCHANGED <<vars, broker, sender, disk>>

Evaluate(w) ==
  \/ AcquireLock(w) \/ CheckCase(w) \/ ClaimCase(w) \/ CreditCase(w)
  \/ MarkEvaluating(w) \/ RunCase(w) \/ CheckResult(w) \/ CompleteCase(w) \/ FailCase(w)
  \/ LastCheck(w) \/ MarkAggregating(w) \/ Aggregate(w) \/ MarkCompleted(w)
  \/ CheckSuccess(w)

Die(w) ==
  /\ Crash(w)
  /\ IF lock[JobOf(w)] = w THEN Unlock(w) ELSE UNCHANGED lock
  /\ UNCHANGED disk \/ (task[w].pc = "run" /\ RunCut(JobOf(w)))

EvaluationNext ==
  \/ (Client("evaluation", Cases) \/ PassTime \/ Post) /\ UNCHANGED <<disk, lock>>
  \/ \E w \in Worker :
       \/ Process(w) /\ UNCHANGED <<disk, lock>>
       \/ Evaluate(w) \/ Break(w) \/ Die(w)

EvaluationSafety == EvaluationInit /\ [][EvaluationNext]_evaluationVars

(* The loops of the dispatcher and of the workers go on, and time passes.   *)
(* Nothing makes a client act or a fault happen.                            *)
Fair ==
  /\ \A d \in Dispatcher :
       WF_evaluationVars((Scan(d) \/ Collect(d) \/ Publish(d) \/ Settle(d))
                         /\ UNCHANGED <<disk, lock>>)
  /\ \A w \in Worker :
       WF_evaluationVars(\/ Evaluate(w)
                         \/ (Succeed(w) \/ Finish(w) \/ Retry(w)
                               \/ \E j \in Job, t \in Try : Take(w, j, t))
                            /\ UNCHANGED <<disk, lock>>)
  /\ WF_evaluationVars(PassTime /\ UNCHANGED <<disk, lock>>)

EvaluationSpec == EvaluationSafety /\ Fair

-----------------------------------------------------------------------------
(* Properties *)

(* Every process keeps to the transactions of JobStore, under leases it was *)
(* granted: what holds of the tables holds of the service.                  *)
KeepsToTheStore == Spec

(* A case whose item is credited has exactly that result on disk, whatever  *)
(* crash or takeover came between the two writes.                           *)
CreditedArtifacts ==
  \A j \in Job, i \in Item :
    items[j][i].status = "succeeded" => artifact[j][i] = items[j][i].ref
                                        /\ artifact[j][i] # None

(* A worker about to evaluate a case has no result of it to overwrite: that *)
(* it found none stays true until it runs, even if its lease is long gone.  *)
NothingToOverwrite ==
  \A w \in Worker :
    task[w].pc \in {"evaluate", "run"} => artifact[JobOf(w)][Case(w)] = None

(* The ledger of the items and the directory of results, which share no     *)
(* transaction, agree.                                                      *)
LedgerMatchesDisk == CreditedArtifacts /\ NothingToOverwrite

(* The aggregation reads a complete set of results: it never runs, and its  *)
(* stage is never recorded, before every case is credited; so the guard for *)
(* a stage that is ahead of the items never fires.                          *)
AggregationIsComplete ==
  /\ \A w \in Worker : task[w].pc \in {"to aggregating", "aggregate", "to completed"} =>
       \A i \in Item : items[JobOf(w)][i].status = "succeeded"
  /\ \A j \in Job : jobs[j].stage >= Aggregating =>
       \A i \in Item : items[j][i].status = "succeeded"

(* Every accepted job ends, or is reported as not deliverable, in spite of  *)
(* crashes, lost messages and broker outages.                               *)
Settled(j) == jobs[j].status \in Terminal \/ jobs[j].error = "delivery_unconfirmed"

JobsSettle == \A j \in Job : Exists(j) ~> Settled(j)
=============================================================================
