---------------------------- MODULE IngestionJob ----------------------------
(***************************************************************************)
(* Ingestion jobs end to end: run_ingestion_job of jobs/handlers.py over   *)
(* the job service and the snapshot catalog.  Item i is the i-th stage.    *)
(* All jobs of an instance share one registration: the snapshot to import  *)
(* and the profile it must have.  Operators move the pointer as well.      *)
(*                                                                         *)
(* activate_ingestion_job keeps the job row locked from its first read to  *)
(* its commit, while the catalog is read and then moved: two steps here,   *)
(* between which nobody else writes that row, and the expiry of its lease  *)
(* is noticed by nobody.                                                   *)
(***************************************************************************)
EXTENDS JobService

CONSTANTS
  Snapshot, Profile, Operator,
  Target,     (* The snapshot of the registration.                         *)
  Wanted,     (* Its profile.                                              *)
  Parsed, Indexed, Validated,
              (* Positions in _INGESTION_STAGES: 2, 4 and 5 of 6.          *)
  MaxMoves    (* Bound of the model: activation events.                    *)

Activated == IngestionStages

ASSUME ItemsAreStages == Item = 1..IngestionStages
ASSUME StagesAreOrdered ==
  /\ {Parsed, Indexed, Validated} \subseteq Item
  /\ Parsed < Indexed /\ Indexed < Validated /\ Validated < Activated
ASSUME RegistrationIsKnown == Target \in Snapshot /\ Wanted \in Profile
ASSUME NullIsNoEntry == None \notin Snapshot \cup Profile
(* A job is submitted with a row for each stage still to come. *)
ASSUME StagesAreATotal == IngestionStages \in Total
(* A job signs its event with its own id, a fresh uuid: nobody else does. *)
ASSUME JobsSignForThemselves == Operator \cap Job = {}

VARIABLES snapshots, imports, pointer, history

catalogState == <<snapshots, imports, pointer, history>>
ingestionVars == <<vars, serviceVars, catalogState>>

(* What a worker read of the pointer is in its task; see also Operators. *)
Catalog == INSTANCE Catalog WITH
  Reader <- {}, seen <- <<>>, Actor <- Operator \cup Job

IngestionInit == ServiceInit /\ Catalog!CatalogInit

JobOf(w) == task[w].job
Step(w) == task[w].next
StageOf(w) == Step(w) - 1

(* The stage item is done with: on to the next, or to the activation. *)
NextStep(w) ==
  task' = [task EXCEPT ![w].next = @ + 1, ![w].ref = None, ![w].pc = "start"]

Lost(w) == ~LockedActive(JobOf(w), w, task[w].epoch)

-----------------------------------------------------------------------------
(* _stage_item *)

CheckStage(w) ==
  /\ task[w].pc = "start"
  /\ Check(w, "mark")
  /\ UNCHANGED catalogState

(* Mutant: the next stage is recorded before this one is done. *)
MarkStage_Ahead(w) ==
  /\ task[w].pc = "mark"
  /\ IF StageOf(w) < task[w].stage /\ Step(w) # Activated
     THEN Goto(w, "claim") /\ UNCHANGED vars
     ELSE \/ /\ SetStage(JobOf(w), w, task[w].epoch,
                        IF Step(w) = Activated THEN StageOf(w) ELSE Step(w))
             /\ Goto(w, "claim")
          \/ Lost(w) /\ Goto(w, "lost") /\ UNCHANGED vars
  /\ UNCHANGED <<broker, sender, faults, catalogState>>

(* A resumed job keeps its stage until it gets there again. *)
MarkStage(w) ==
  /\ task[w].pc = "mark"
  /\ IF StageOf(w) < task[w].stage /\ Step(w) # Activated
     THEN Goto(w, "claim") /\ UNCHANGED vars
     ELSE \/ SetStage(JobOf(w), w, task[w].epoch, StageOf(w)) /\ Goto(w, "claim")
          \/ Lost(w) /\ Goto(w, "lost") /\ UNCHANGED vars
  /\ UNCHANGED <<broker, sender, faults, catalogState>>

(* claim_item.  A stage that is done is skipped, but the files of the       *)
(* import are read and validated again, and may have changed.               *)
ClaimStage(w) ==
  LET j == JobOf(w)  e == task[w].epoch  i == Step(w)
      done == LockedActive(j, w, e) /\ ~jobs[j].cancel /\ items[j][i].status = "succeeded"
      claimed == ClaimNewItem(j, w, e, i) \/ RetryItem(j, w, e, i)
  IN  /\ task[w].pc = "claim"
      /\ \/ /\ done /\ i # Activated
            /\ NextStep(w) \/ (i = Parsed /\ GoFail(w, "other"))
            /\ UNCHANGED vars
         \/ /\ (StageOf(w) >= task[w].stage) \/ (i = Activated)
            /\ claimed
            /\ Goto(w, IF i = Activated THEN "activate" ELSE "act")
         \/ /\ ~done
            /\ \/ claimed /\ StageOf(w) < task[w].stage /\ i # Activated
               \/ ExhaustItem(j, w, e, i)
               \/ ~MayClaim(j, w, e) /\ UNCHANGED vars
               \/ items[j][i].status = "failed" /\ UNCHANGED vars
            /\ IF StageOf(w) < task[w].stage /\ i # Activated THEN GoFail(w, "other")
               ELSE IF Lost(w) THEN Goto(w, "lost")
               ELSE IF jobs[j].cancel THEN GoCancel(w)
               ELSE GoFail(w, "other")
  /\ UNCHANGED <<broker, sender, faults, catalogState>>

(* The action of the stage.  The import is committed on its own, and the    *)
(* stage may still fail after it; validation wants to see the import.       *)
Act(w) ==
  /\ task[w].pc = "act"
  /\ \/ /\ Step(w) = Indexed /\ Catalog!Import(Target, Wanted)
        /\ Goto(w, "check again") \/ Goto(w, "fail")
     \/ /\ Step(w) \in {Indexed, Validated} => Wanted \in imports[Target]
        /\ Goto(w, "check again")
        /\ UNCHANGED catalogState
     \/ Goto(w, "fail") /\ UNCHANGED catalogState
  /\ UNCHANGED <<vars, broker, sender, faults>>

CheckResult(w) ==
  /\ task[w].pc = "check again"
  /\ Check(w, "complete")
  /\ UNCHANGED catalogState

CompleteStage(w) ==
  /\ task[w].pc = "complete"
  /\ \/ \E r \in Ref : CompleteItem(JobOf(w), w, task[w].epoch, Step(w), r) /\ NextStep(w)
     \/ Lost(w) /\ Goto(w, "lost") /\ UNCHANGED vars
  /\ UNCHANGED <<broker, sender, faults, catalogState>>

(* fail_item is not retryable, and whether it wrote anything is ignored. *)
FailStage(w) ==
  /\ task[w].pc = "fail"
  /\ \/ FailItem(JobOf(w), w, task[w].epoch, Step(w), FALSE)
     \/ Lost(w) /\ UNCHANGED vars
  /\ GoFail(w, "other")
  /\ UNCHANGED <<broker, sender, faults, catalogState>>

-----------------------------------------------------------------------------
(* The activation *)

(* The job row is locked and good, and _activation_ref reads the pointer. *)
OpenActivation(w) ==
  LET j == JobOf(w)  e == task[w].epoch
  IN  /\ task[w].pc = "activate"
      /\ IF ~MayClaim(j, w, e)
         THEN Goto(w, "refused")
         ELSE IF Activatable(j, jobs[j].request) /\ OwnsItem(j, e, Step(w))
         THEN task' = [task EXCEPT ![w].pc = "swap", ![w].ref = pointer]
         ELSE Goto(w, "fail")
      /\ UNCHANGED <<vars, broker, sender, faults, catalogState>>

(* activate_ingestion_job returned None: a cancellation, or a lost lease. *)
Refused(w) ==
  /\ task[w].pc = "refused"
  /\ Check(w, "lost")
  /\ UNCHANGED catalogState

Seen(w) == task[w].ref

(* An earlier attempt of this job moved the pointer. *)
MovedBy(j) == \E n \in DOMAIN history : history[n].actor = j /\ history[n].target = Target

(* Mutant: the pointer commits alone. *)
CommitActivation_Apart(w) ==
  /\ task[w].pc = "swap"
  /\ ~MovedBy(JobOf(w)) /\ Seen(w).snapshot # Target
  /\ Catalog!Activate(Seen(w), Target, Wanted, JobOf(w))
  /\ Goto(w, "fail")
  /\ UNCHANGED <<vars, broker, sender, faults>>

(* The pointer, the last item and the job commit together.  A pointer that  *)
(* is already there, or was moved there by this job, is left alone.         *)
CommitActivation(w) ==
  LET j == JobOf(w)
  IN  /\ task[w].pc = "swap"
      /\ IF MovedBy(j) \/ Seen(w).snapshot = Target
         THEN UNCHANGED catalogState
         ELSE Catalog!Activate(Seen(w), Target, Wanted, j)
      /\ \E r \in Ref : ActivateIngestion(j, w, task[w].epoch, Step(w), jobs[j].request, r)
      /\ task' = [task EXCEPT ![w].pc = "confirm", ![w].ref = None]
      /\ UNCHANGED <<broker, sender, faults>>

(* Somebody else moved the pointer in between: nothing is written. *)
AbortActivation(w) ==
  /\ task[w].pc = "swap"
  /\ ~MovedBy(JobOf(w)) /\ Seen(w).snapshot # Target
  /\ ~Catalog!Current(Seen(w)) \/ ~Catalog!Ready(Target, Wanted)
  /\ task' = [task EXCEPT ![w].pc = "fail", ![w].ref = None]
  /\ UNCHANGED <<vars, broker, sender, faults, catalogState>>

(* process_job reads the job once more, for its own return value. *)
Confirm(w) ==
  /\ task[w].pc = "confirm"
  /\ IF jobs[JobOf(w)].status = "succeeded" /\ jobs[JobOf(w)].epoch = task[w].epoch
     THEN task' = [task EXCEPT ![w] = Idle]
     ELSE Goto(w, "lost")
  /\ UNCHANGED <<vars, broker, sender, faults, catalogState>>

-----------------------------------------------------------------------------
(* An exception between two steps.  Inside the try of a stage it fails the  *)
(* item first; an open transaction rolls back.                              *)
Break(w) ==
  /\ task[w].pc \notin {"idle", "lost"}
  /\ Fault
  /\ CASE task[w].pc \in {"act", "check again", "complete", "activate", "swap", "refused"} ->
            Goto(w, "fail")
       [] task[w].pc = "finish" -> Goto(w, "lost")
       [] OTHER -> GoFail(w, "other")
  /\ UNCHANGED <<vars, broker, sender, catalogState>>

Ingest(w) ==
  \/ CheckStage(w) \/ MarkStage(w) \/ ClaimStage(w) \/ Act(w)
  \/ CheckResult(w) \/ CompleteStage(w) \/ FailStage(w)
  \/ OpenActivation(w) \/ Refused(w) \/ CommitActivation(w) \/ AbortActivation(w)
  \/ Confirm(w)

(* Nobody else writes a job row that an open activation has locked. *)
RowLocked(j) == \E w \in Worker : task[w].pc = "swap" /\ JobOf(w) = j
RespectLocks == \A j \in Job : RowLocked(j) => jobs'[j] = jobs[j]

Others ==
  \/ Client("ingestion", IngestionStages) \/ PassTime \/ Post
  \/ \E w \in Worker : Process(w)

(* Operators import and move as well.  A move on an outdated reading of the *)
(* pointer is refused, so a move that happens is one on the pointer itself. *)
Operators ==
  /\ \E o \in Operator, s \in Snapshot, p \in Profile :
       \/ Catalog!Import(s, p)
       \/ Catalog!Activate(pointer, s, p, o)
       \/ Catalog!Rollback(pointer, s, p, o)
  /\ UNCHANGED <<vars, serviceVars>>

IngestionNext ==
  \/ Others /\ RespectLocks /\ UNCHANGED catalogState
  \/ \E w \in Worker : Ingest(w) \/ Break(w) \/ (Crash(w) /\ UNCHANGED catalogState)
  \/ Operators

IngestionSafety == IngestionInit /\ [][IngestionNext]_ingestionVars

-----------------------------------------------------------------------------
(* Properties *)

(* Every process keeps to the transactions of JobStore, under leases it was *)
(* granted: what holds of the tables holds of the service.                  *)
KeepsToTheStore == Spec

(* The recorded stage is never ahead of the items, so a resumed job never   *)
(* skips a stage that is not done.                                          *)
StageNotAhead ==
  \A j \in Job, i \in Item : i - 1 < jobs[j].stage => items[j][i].status = "succeeded"

(* The pointer was moved in the name of a job if, and only if, that job is  *)
(* recorded as succeeded, or found the pointer already there; it was moved  *)
(* once, and never again after somebody else moved it away; and what it     *)
(* moved it to was imported for the wanted profile after every stage was    *)
(* completed.  A worker that dies, a takeover or a cancellation never       *)
(* separates these.                                                         *)
ActivatedTogether ==
  StageNotAhead /\ \A j \in Job :
    /\ MovedBy(j) =>
         /\ jobs[j].status = "succeeded"
         /\ Wanted \in imports[Target]
         /\ \A i \in Item : items[j][i].status = "succeeded"
    /\ \A m, n \in DOMAIN history :
         history[m].actor = j /\ history[n].actor = j => m = n
    /\ jobs[j].status = "succeeded" => Catalog!WasActive(Target)

(* A job moves the pointer only from where it saw it inside its transaction *)
(* of activation: the move of an operator in between is never undone blindly.*)
NoBlindMove ==
  [][\A w \in Worker :
       task[w].pc = "swap" /\ task'[w].pc = "confirm" /\ history' # history
         => task[w].ref = pointer]_ingestionVars
=============================================================================
