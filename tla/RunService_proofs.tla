--------------------------- MODULE RunService_proofs ---------------------------
(***************************************************************************)
(* Theorems about RunService, EventStream and RunTables, for every value   *)
(* of their constants.                                                     *)
(***************************************************************************)
EXTENDS EventStream, RunTables, FiniteSetTheorems, TLAPS

-----------------------------------------------------------------------------
(* What a step may do to one run *)

(* The tables of r that most transactions leave alone.                     *)
SameWork(r) ==
  /\ ledger'[r] = ledger[r]
  /\ attempts'[r] = attempts[r]
  /\ checkpoints'[r] = checkpoints[r]
  /\ artifacts'[r] = artifacts[r]

SameRow(r) == runs'[r] = runs[r] /\ leases'[r] = leases[r]

Told(r, type) == events'[r] = Append(events[r], type)

Untold(r) == events'[r] = events[r]

QuietStep(r) == SameRow(r) /\ SameWork(r) /\ Untold(r)

CreateStep(r) ==
  /\ runs[r].status = "absent"
  /\ \E s \in Session, body \in Body, parent \in Run \cup {None} :
       runs'[r] = [NoRun EXCEPT !.status = "queued", !.session = s,
                                !.parent = parent, !.body = body]
  /\ Told(r, "run.queued") /\ SameWork(r) /\ leases'[r] = leases[r]

EndStep(r) ==
  /\ runs[r].status \in Active
  /\ \E status \in Terminal, type \in DOMAIN Announced :
       /\ status # "cancelled" => runs[r].status = "running"
       /\ Announced[type] = status
       /\ runs'[r] = Released(r, status)
       /\ Told(r, type)
  /\ SameWork(r) /\ leases'[r] = leases[r]

ResumeStep(r) ==
  /\ runs[r].status = "interrupted"
  /\ ~runs[r].resume
  /\ runs'[r] = [runs[r] EXCEPT !.resume = TRUE]
  /\ Told(r, "run.resume_requested") /\ SameWork(r) /\ leases'[r] = leases[r]

ClaimStep(r) ==
  /\ Claimable(r)
  /\ runs[r].epoch < MaxEpoch
  /\ \E w \in Worker :
       /\ runs'[r] = [runs[r] EXCEPT !.status = "running", !.owner = w,
                        !.lease = LeaseTicks, !.epoch = @ + 1, !.resume = FALSE,
                        !.deadline = Deadline(r)]
       /\ leases'[r] = Append(leases[r], w)
  /\ Told(r, IF runs[r].status = "queued" THEN "run.started" ELSE "run.resumed")
  /\ SameWork(r)

RecoverStep(r) ==
  /\ r \in Stale
  /\ runs'[r] = Released(r, "interrupted")
  /\ attempts'[r] = [n \in DOMAIN attempts[r] |->
                       [attempts[r][n] EXCEPT !.status = Reconciled(r, n)]]
  /\ events'[r] = events[r] \o [n \in 1..Cardinality(NewlyUnknown(r)) |-> "attempt.outcome_unknown"]
                            \o <<"run.interrupted">>
  /\ leases'[r] = leases[r]
  /\ ledger'[r] = ledger[r] /\ checkpoints'[r] = checkpoints[r] /\ artifacts'[r] = artifacts[r]

AgeStep(r) ==
  /\ \E lease \in Nat :
       /\ lease > 0 => runs[r].status = "running"
       /\ runs'[r] = [runs[r] EXCEPT !.lease = lease]
  /\ Untold(r) /\ SameWork(r) /\ leases'[r] = leases[r]

OverdueStep(r) ==
  /\ runs[r].deadline = "ahead"
  /\ runs'[r] = [runs[r] EXCEPT !.deadline = "passed"]
  /\ Untold(r) /\ SameWork(r) /\ leases'[r] = leases[r]

SearchStep(r) ==
  /\ runs[r].status = "running"
  /\ ledger[r].rounds < MaxRounds
  /\ \E n \in 1..MaxQueries :
       ledger'[r] = [ledger[r] EXCEPT !.rounds = @ + 1, !.queries = @ + n]
  /\ SameRow(r) /\ Untold(r)
  /\ attempts'[r] = attempts[r] /\ checkpoints'[r] = checkpoints[r] /\ artifacts'[r] = artifacts[r]

ReserveStep(r) ==
  /\ runs[r].status = "running" /\ runs[r].deadline = "ahead"
  /\ \E op \in Operation :
       /\ WithinBudget(r, op)
       /\ ledger'[r] = [ledger[r] EXCEPT !.used[KindOf[op]] = @ + 1]
       /\ attempts'[r] = Append(attempts[r],
            [operation |-> op, epoch |-> runs[r].epoch, status |-> "reserved"])
  /\ SameRow(r) /\ Untold(r)
  /\ checkpoints'[r] = checkpoints[r] /\ artifacts'[r] = artifacts[r]

Rewritten(r, n, status) ==
  attempts'[r] = [attempts[r] EXCEPT ![n].status = status]

DispatchStep(r) ==
  /\ runs[r].status = "running" /\ runs[r].deadline = "ahead"
  /\ \E n \in DOMAIN attempts[r] :
       attempts[r][n].status = "reserved" /\ Rewritten(r, n, "dispatched")
  /\ SameRow(r) /\ Untold(r)
  /\ ledger'[r] = ledger[r] /\ checkpoints'[r] = checkpoints[r] /\ artifacts'[r] = artifacts[r]

FinishStep(r) ==
  /\ runs[r].status = "running"
  /\ \E n \in DOMAIN attempts[r], status \in {"succeeded", "failed", "outcome_unknown"} :
       /\ attempts[r][n].status = "dispatched"
       /\ Rewritten(r, n, status)
       /\ IF status = "outcome_unknown" THEN Told(r, "attempt.outcome_unknown") ELSE Untold(r)
  /\ SameRow(r)
  /\ ledger'[r] = ledger[r] /\ checkpoints'[r] = checkpoints[r] /\ artifacts'[r] = artifacts[r]

SaveStep(r) ==
  /\ runs[r].status = "running"
  /\ artifacts'[r] \in SUBSET Artifact /\ artifacts[r] \subseteq artifacts'[r]
  /\ SameRow(r) /\ Untold(r)
  /\ ledger'[r] = ledger[r] /\ attempts'[r] = attempts[r] /\ checkpoints'[r] = checkpoints[r]

BindStep(r) ==
  /\ runs[r].status \in Answered \cup {"running"}
  /\ \E id \in CheckpointId :
       LET c == <<runs[r].epoch, id>> IN
       /\ c \in CheckpointKey
       /\ checkpoints'[r][c] \in CheckpointRow
       /\ checkpoints'[r] = [checkpoints[r] EXCEPT ![c] = checkpoints'[r][c]]
       /\ runs'[r] = [runs[r] EXCEPT !.trusted = c]
  /\ Untold(r) /\ leases'[r] = leases[r]
  /\ ledger'[r] = ledger[r] /\ attempts'[r] = attempts[r] /\ artifacts'[r] = artifacts[r]

StageStep(r) ==
  /\ runs[r].status = "running"
  /\ Told(r, "stage") /\ SameWork(r) /\ SameRow(r)

StepOf(r) ==
  \/ QuietStep(r) \/ CreateStep(r) \/ EndStep(r) \/ ResumeStep(r) \/ ClaimStep(r) \/ RecoverStep(r)
  \/ AgeStep(r) \/ OverdueStep(r) \/ SearchStep(r) \/ ReserveStep(r) \/ DispatchStep(r) \/ FinishStep(r)
  \/ SaveStep(r) \/ BindStep(r) \/ StageStep(r)

(* The tables stay tables of runs.                                          *)
StillTables ==
  /\ runs' = [r \in Run |-> runs'[r]]
  /\ ledger' = [r \in Run |-> ledger'[r]]
  /\ attempts' = [r \in Run |-> attempts'[r]]
  /\ checkpoints' = [r \in Run |-> checkpoints'[r]]
  /\ artifacts' = [r \in Run |-> artifacts'[r]]
  /\ events' = [r \in Run |-> events'[r]]
  /\ leases' = [r \in Run |-> leases'[r]]

(* Claims are bounded, in the model. *)
EpochsBounded == \A r \in Run : runs[r].epoch <= MaxEpoch

(* Nothing is written for a run that is not there. *)
UnbornIsBlank ==
  \A r \in Run : runs[r].status = "absent" =>
    /\ runs[r] = NoRun /\ ledger[r] = NoSpending /\ attempts[r] = <<>> /\ events[r] = <<>>
    /\ \A c \in CheckpointKey : checkpoints[r][c] = None

Typed == RunTypeOK /\ EpochsBounded /\ UnbornIsBlank

(* A step of one run, which all others pass. *)
OnlyStepOf(r) == StepOf(r) /\ StillTables /\ \A q \in Run \ {r} : QuietStep(q)

(* Every step is, for each run, one of those above. *)
StepKeeps == StillTables /\ \A r \in Run : StepOf(r)

(* A step that leaves the tables of runs alone. *)
LEMMA QuietKeeps ==
  ASSUME Typed, UNCHANGED <<runs, ledger, attempts, checkpoints, artifacts, events, leases>>
  PROVE  StepKeeps
  BY DEF Typed, RunTypeOK, StepKeeps, StillTables, StepOf, QuietStep, SameRow, SameWork, Untold

(* A step on r alone. *)
LEMMA StepOnOne ==
  ASSUME Typed, StillTables, NEW r \in Run, StepOf(r),
         \A q \in Run \ {r} : QuietStep(q)
  PROVE  StepKeeps
  BY DEF StepKeeps, StepOf

(* A transition writes the row of r and appends an event to its log. *)
LEMMA TransitionStep ==
  ASSUME Typed, NEW r \in Run, NEW row, NEW type \in Event, Transition(r, row, <<type>>),
         UNCHANGED <<ledger, attempts, checkpoints, artifacts>>
  PROVE  /\ runs'[r] = row /\ Told(r, type) /\ SameWork(r)
         /\ \A q \in Run \ {r} : runs'[q] = runs[q] /\ Untold(q) /\ SameWork(q)
         /\ runs' = [q \in Run |-> runs'[q]]
         /\ events' = [q \in Run |-> events'[q]]
         /\ UNCHANGED leases => StillTables /\ \A q \in Run \ {r} : QuietStep(q)
  <1>1. events \in [Run -> Seq(Event)] /\ runs \in [Run -> RunRow]
    BY DEF Typed, RunTypeOK
  <1>2. events[r] \o <<type>> = Append(events[r], type)
    BY <1>1
  <1>3. /\ runs'[r] = row /\ Told(r, type) /\ SameWork(r)
        /\ \A q \in Run \ {r} : runs'[q] = runs[q] /\ Untold(q) /\ SameWork(q)
        /\ runs' = [q \in Run |-> runs'[q]]
        /\ events' = [q \in Run |-> events'[q]]
    BY <1>1, <1>2 DEF Transition, Told, Untold, SameWork
  <1>4. /\ ledger' = [q \in Run |-> ledger'[q]]
        /\ attempts' = [q \in Run |-> attempts'[q]]
        /\ checkpoints' = [q \in Run |-> checkpoints'[q]]
        /\ artifacts' = [q \in Run |-> artifacts'[q]]
        /\ UNCHANGED leases => leases' = [q \in Run |-> leases'[q]]
    BY DEF Typed, RunTypeOK
  <1> QED BY <1>3, <1>4 DEF StillTables, QuietStep, SameRow

LEMMA EventNames ==
  /\ {"run.queued", "run.started", "run.resumed", "run.interrupted",
      "run.resume_requested", "run.failed", "run.cancelled", "answer.final",
      "run.completed_with_limits", "run.needs_clarification"} = DOMAIN Announced
  /\ DOMAIN Announced \cup {"stage", "attempt.outcome_unknown"} = Event
  /\ "stage" \notin DOMAIN Announced /\ "attempt.outcome_unknown" \notin DOMAIN Announced
  /\ Announced["run.queued"] = "queued"
  /\ Announced["run.started"] = "running"
  /\ Announced["run.resumed"] = "running"
  /\ Announced["run.interrupted"] = "interrupted"
  /\ Announced["run.resume_requested"] = "interrupted"
  /\ Announced["run.failed"] = "failed"
  /\ Announced["run.cancelled"] = "cancelled"
  /\ Announced["answer.final"] = "succeeded"
  /\ Announced["run.completed_with_limits"] = "completed_with_limits"
  /\ Announced["run.needs_clarification"] = "needs_clarification"
  BY DEF Announced, Event

LEMMA FinalEvents ==
  ASSUME NEW status \in Answered
  PROVE  FinalEvent(status) \in DOMAIN Announced /\ Announced[FinalEvent(status)] = status
  <1> DEFINE Final(t) == t \in {"answer.final", "run.completed_with_limits",
                                "run.needs_clarification"} /\ Announced[t] = status
  <1>1. \E t : Final(t)
    BY EventNames DEF Answered
  <1>2. Final(CHOOSE t : Final(t))
    BY <1>1
  <1>3. FinalEvent(status) = CHOOSE t : Final(t)
    BY Zenon DEF FinalEvent
  <1> QED BY <1>2, <1>3, EventNames

(* The calls of the owner. *)
LEMMA OwnSteps ==
  ASSUME Typed, NEW r \in Run, Own(r)
  PROVE  StepKeeps
  <1>1. ASSUME NEW s \in Session, NEW k \in Key, NEW body \in Body,
               NEW parent \in Run \cup {None}, CreateRun(r, s, k, body, parent)
        PROVE  StepKeeps
    <2> DEFINE row == [NoRun EXCEPT !.status = "queued", !.session = s,
                                    !.parent = parent, !.body = body]
    <2>1. /\ Transition(r, row, <<"run.queued">>)
          /\ UNCHANGED <<ledger, attempts, checkpoints, artifacts>>
          /\ UNCHANGED leases
          /\ runs[r].status = "absent"
      BY <1>1 DEF CreateRun
    <2>2. "run.queued" \in Event
      BY EventNames
    <2>3. /\ runs'[r] = row /\ Told(r, "run.queued") /\ SameWork(r)
          /\ StillTables /\ \A q \in Run \ {r} : QuietStep(q)
      <3> HIDE DEF row
      <3> QED BY <2>1, <2>2, TransitionStep
    <2>4. CreateStep(r)
      BY <2>1, <2>3 DEF CreateStep
    <2> QED BY <2>3, <2>4, StepOnOne DEF StepOf
  <1>2. CASE CancelRun(r)
    <2>1. /\ Transition(r, Released(r, "cancelled"), <<"run.cancelled">>)
          /\ UNCHANGED <<ledger, attempts, checkpoints, artifacts>>
          /\ UNCHANGED leases
          /\ runs[r].status \in Active
      BY <1>2 DEF CancelRun, Cancellable
    <2>2. "run.cancelled" \in Event
      BY EventNames
    <2>3. /\ runs'[r] = Released(r, "cancelled") /\ Told(r, "run.cancelled") /\ SameWork(r)
          /\ StillTables /\ \A q \in Run \ {r} : QuietStep(q)
      BY <2>1, <2>2, TransitionStep
    <2>4. EndStep(r)
      BY <2>1, <2>3, EventNames DEF EndStep, Terminal
    <2> QED BY <2>3, <2>4, StepOnOne DEF StepOf
  <1>3. CASE ResumeRun(r)
    <2> DEFINE row == [runs[r] EXCEPT !.resume = TRUE]
    <2>1. /\ Transition(r, row, <<"run.resume_requested">>)
          /\ UNCHANGED <<ledger, attempts, checkpoints, artifacts>>
          /\ UNCHANGED leases
          /\ runs[r].status = "interrupted" /\ ~runs[r].resume
      BY <1>3 DEF ResumeRun
    <2>2. "run.resume_requested" \in Event
      BY EventNames
    <2>3. /\ runs'[r] = row /\ Told(r, "run.resume_requested") /\ SameWork(r)
          /\ StillTables /\ \A q \in Run \ {r} : QuietStep(q)
      <3> HIDE DEF row
      <3> QED BY <2>1, <2>2, TransitionStep
    <2>4. ResumeStep(r)
      BY <2>1, <2>3 DEF ResumeStep
    <2> QED BY <2>3, <2>4, StepOnOne DEF StepOf
  <1> QED BY <1>1, <1>2, <1>3 DEF Own

(* A claim. *)
LEMMA ClaimSteps ==
  ASSUME Typed, NEW r \in Run, NEW w \in Worker, ClaimNextRun(r, w)
  PROVE  StepKeeps
  <1> DEFINE row == [runs[r] EXCEPT !.status = "running", !.owner = w,
                       !.lease = LeaseTicks, !.epoch = @ + 1, !.resume = FALSE,
                       !.deadline = Deadline(r)]
             type == IF runs[r].status = "queued" THEN "run.started" ELSE "run.resumed"
  <1>1. /\ Transition(r, row, <<type>>)
        /\ UNCHANGED <<ledger, attempts, checkpoints, artifacts>>
        /\ Claimable(r) /\ runs[r].epoch < MaxEpoch
        /\ leases' = [leases EXCEPT ![r] = Append(@, w)]
    BY DEF ClaimNextRun
  <1>2. type \in Event
    BY EventNames
  <1>3. /\ runs'[r] = row /\ Told(r, type) /\ SameWork(r)
        /\ \A q \in Run \ {r} : runs'[q] = runs[q] /\ Untold(q) /\ SameWork(q)
        /\ runs' = [q \in Run |-> runs'[q]]
        /\ events' = [q \in Run |-> events'[q]]
    <2> HIDE DEF row, type
    <2> QED BY <1>1, <1>2, TransitionStep
  <1>4. /\ leases'[r] = Append(leases[r], w)
        /\ \A q \in Run \ {r} : leases'[q] = leases[q]
        /\ leases' = [q \in Run |-> leases'[q]]
    BY <1>1 DEF Typed, RunTypeOK
  <1>5. ClaimStep(r)
    BY <1>1, <1>3, <1>4, Zenon DEF ClaimStep
  <1>6. StillTables
    BY <1>1, <1>3, <1>4 DEF Typed, RunTypeOK, StillTables
  <1>7. \A q \in Run \ {r} : QuietStep(q)
    BY <1>3, <1>4 DEF QuietStep, SameRow
  <1> QED BY <1>5, <1>6, <1>7, StepOnOne DEF StepOf

(* Recovery, of any batch. *)
LEMMA RecoverSteps ==
  ASSUME Typed, NEW batch \in SUBSET Stale, RecoverStaleRuns(batch)
  PROVE  StepKeeps
  <1>1. StillTables
    BY DEF Typed, RunTypeOK, StillTables, RecoverStaleRuns
  <1>2. ASSUME NEW r \in Run PROVE StepOf(r)
    <2>1. CASE r \in batch
      <3>1. RecoverStep(r)
        BY <2>1, Zenon DEF RecoverStaleRuns, RecoverStep
      <3> QED BY <3>1 DEF StepOf
    <2>2. CASE r \notin batch
      <3>1. QuietStep(r)
        BY <2>2 DEF RecoverStaleRuns, QuietStep, SameRow, SameWork, Untold
      <3> QED BY <3>1 DEF StepOf
    <2> QED BY <2>1, <2>2
  <1> QED BY <1>1, <1>2 DEF StepKeeps

(* The calls of a worker. *)
LEMMA LeasedStepsOnOne ==
  ASSUME Typed, NEW r \in Run, NEW e \in DOMAIN leases[r], Leased(r, leases[r][e], e)
  PROVE  OnlyStepOf(r)
  <1> DEFINE w == leases[r][e]
  <1>0. /\ runs \in [Run -> RunRow] /\ events \in [Run -> Seq(Event)]
        /\ ledger \in [Run -> Spending] /\ attempts \in [Run -> Seq(AttemptRow)]
        /\ checkpoints \in [Run -> [CheckpointKey -> CheckpointRow \cup {None}]]
        /\ artifacts \in [Run -> SUBSET Artifact] /\ leases \in [Run -> Seq(Worker)]
    BY DEF Typed, RunTypeOK
  <1>1. CASE HeartbeatRun(r, w, e)
    <2>1. StillTables /\ \A q \in Run \ {r} : QuietStep(q)
      BY <1>0, <1>1 DEF HeartbeatRun, StillTables, QuietStep, SameRow, SameWork, Untold
    <2>2. /\ runs[r].status = "running" /\ LeaseTicks \in Nat
          /\ runs'[r] = [runs[r] EXCEPT !.lease = LeaseTicks]
      BY <1>0, <1>1, RunLimits DEF HeartbeatRun, WorkerLease
    <2>3. AgeStep(r)
      BY <1>1, <2>2 DEF HeartbeatRun, AgeStep, SameWork, Untold
    <2> QED BY <2>1, <2>3 DEF OnlyStepOf, StepOf
  <1>2. CASE FailRun(r, w, e)
    <2>1. /\ Transition(r, Released(r, "failed"), <<"run.failed">>)
          /\ UNCHANGED <<ledger, attempts, checkpoints, artifacts>>
          /\ UNCHANGED leases
          /\ runs[r].status = "running"
      BY <1>2 DEF FailRun, WorkerLease
    <2>2. "run.failed" \in Event
      BY EventNames
    <2>3. /\ runs'[r] = Released(r, "failed") /\ Told(r, "run.failed") /\ SameWork(r)
          /\ StillTables /\ \A q \in Run \ {r} : QuietStep(q)
      BY <2>1, <2>2, TransitionStep
    <2>4. EndStep(r)
      BY <2>1, <2>3, EventNames DEF EndStep, Terminal, Active
    <2> QED BY <2>3, <2>4 DEF OnlyStepOf, StepOf
  <1>3. CASE AppendStageEvent(r, w, e)
    <2>1. StillTables /\ \A q \in Run \ {r} : QuietStep(q)
      BY <1>0, <1>3 DEF AppendStageEvent, StillTables, QuietStep, SameRow, SameWork, Untold
    <2>2. StageStep(r)
      BY <1>0, <1>3 DEF AppendStageEvent, WorkerLease, StageStep, SameRow, SameWork, Told
    <2> QED BY <2>1, <2>2 DEF OnlyStepOf, StepOf
  <1>4. ASSUME NEW queries \in 1..MaxQueries, BeginRetrievalRound(r, w, e, queries)
        PROVE  OnlyStepOf(r)
    <2>1. StillTables /\ \A q \in Run \ {r} : QuietStep(q)
      BY <1>0, <1>4 DEF BeginRetrievalRound, StillTables, QuietStep, SameRow, SameWork, Untold
    <2>2. /\ runs[r].status = "running" /\ ledger[r].rounds < MaxRounds
          /\ ledger'[r] = [ledger[r] EXCEPT !.rounds = @ + 1, !.queries = @ + queries]
      BY <1>0, <1>4 DEF BeginRetrievalRound, WorkerLease
    <2>3. SearchStep(r)
      BY <1>4, <2>2 DEF BeginRetrievalRound, SearchStep, SameRow, Untold
    <2> QED BY <2>1, <2>3 DEF OnlyStepOf, StepOf
  <1>5. ASSUME NEW op \in Operation, ReserveAttempt(r, w, e, op)
        PROVE  OnlyStepOf(r)
    <2>1. StillTables /\ \A q \in Run \ {r} : QuietStep(q)
      BY <1>0, <1>5 DEF ReserveAttempt, StillTables, QuietStep, SameRow, SameWork, Untold
    <2>2. /\ runs[r].status = "running" /\ runs[r].epoch = e /\ runs[r].deadline = "ahead"
          /\ WithinBudget(r, op)
      BY <1>5 DEF ReserveAttempt, WorkerLease, BeforeDeadline
    <2>3. ledger'[r] = [ledger[r] EXCEPT !.used[KindOf[op]] = @ + 1]
      BY <1>0, <1>5 DEF ReserveAttempt
    <2>4. attempts'[r] = Append(attempts[r],
            [operation |-> op, epoch |-> runs[r].epoch, status |-> "reserved"])
      BY <1>0, <1>5, <2>2 DEF ReserveAttempt
    <2>5. ReserveStep(r)
      BY <1>5, <2>2, <2>3, <2>4 DEF ReserveAttempt, ReserveStep, SameRow, Untold
    <2> QED BY <2>1, <2>5 DEF OnlyStepOf, StepOf
  <1>6. ASSUME NEW n \in DOMAIN attempts[r], MarkAttemptDispatched(r, n, w, e)
        PROVE  OnlyStepOf(r)
    <2>1. StillTables /\ \A q \in Run \ {r} : QuietStep(q)
      BY <1>0, <1>6 DEF MarkAttemptDispatched, SetAttempt, StillTables, QuietStep, SameRow,
                        SameWork, Untold
    <2>2. Rewritten(r, n, "dispatched")
      BY <1>0, <1>6 DEF MarkAttemptDispatched, SetAttempt, Rewritten
    <2>3. DispatchStep(r)
      BY <1>6, <2>2 DEF MarkAttemptDispatched, WorkerLease, BeforeDeadline, DispatchStep,
                        SameRow, Untold
    <2> QED BY <2>1, <2>3 DEF OnlyStepOf, StepOf
  <1>7. ASSUME NEW n \in DOMAIN attempts[r],
               NEW status \in {"succeeded", "failed", "outcome_unknown"},
               FinishAttempt(r, n, w, e, status)
        PROVE  OnlyStepOf(r)
    <2>1. StillTables /\ \A q \in Run \ {r} : QuietStep(q)
      BY <1>0, <1>7 DEF FinishAttempt, SetAttempt, StillTables, QuietStep, SameRow,
                        SameWork, Untold
    <2>2. Rewritten(r, n, status)
      BY <1>0, <1>7 DEF FinishAttempt, SetAttempt, Rewritten
    <2>3. IF status = "outcome_unknown" THEN Told(r, "attempt.outcome_unknown") ELSE Untold(r)
      BY <1>0, <1>7 DEF FinishAttempt, Told, Untold
    <2>4. FinishStep(r)
      BY <1>7, <2>2, <2>3 DEF FinishAttempt, InFlight, WorkerLease, FinishStep, SameRow
    <2> QED BY <2>1, <2>4 DEF OnlyStepOf, StepOf
  <1>8. ASSUME NEW a \in Artifact, SaveNodeArtifact(r, w, e, a)
        PROVE  OnlyStepOf(r)
    <2>1. StillTables /\ \A q \in Run \ {r} : QuietStep(q)
      BY <1>0, <1>8 DEF SaveNodeArtifact, StillTables, QuietStep, SameRow, SameWork, Untold
    <2>2. SaveStep(r)
      BY <1>0, <1>8 DEF SaveNodeArtifact, WorkerLease, SaveStep, SameRow, Untold
    <2> QED BY <2>1, <2>2 DEF OnlyStepOf, StepOf
  <1>9. ASSUME NEW id \in CheckpointId, NEW state \in GraphState,
               BindCheckpoint(r, w, e, id, state)
        PROVE  OnlyStepOf(r)
    <2>1. StillTables /\ \A q \in Run \ {r} : QuietStep(q)
      BY <1>0, <1>9 DEF BindCheckpoint, StillTables, QuietStep, SameRow, SameWork, Untold
    <2> DEFINE c == <<runs[r].epoch, id>>
    <2>2. /\ runs[r].status \in Answered \cup {"running"} /\ runs[r].epoch = e
          /\ runs'[r] = [runs[r] EXCEPT !.trusted = c]
      BY <1>0, <1>9 DEF BindCheckpoint, LeaseOrPublished, WorkerLease
    <2>3. e \in 1..MaxEpoch /\ c \in CheckpointKey
      <3>1. e \in 1..Len(leases[r]) /\ Len(leases[r]) \in Nat /\ Len(leases[r]) = runs[r].epoch
        BY <1>0 DEF Typed, RunTypeOK
      <3>2. runs[r].epoch <= MaxEpoch /\ MaxEpoch \in Nat
        BY RunLimits DEF Typed, EpochsBounded
      <3> QED BY <2>2, <3>1, <3>2 DEF CheckpointKey
    <2>4. \A after \in CompletedBefore(r) : [state |-> state, after |-> after] \in CheckpointRow
      <3>1. Attempts(r, {"succeeded"}) \in SUBSET Nat
        BY <1>0 DEF Attempts
      <3> QED BY <3>1 DEF CompletedBefore, CheckpointRow
    <2>5. /\ checkpoints'[r][c] \in CheckpointRow
          /\ checkpoints'[r] = [checkpoints[r] EXCEPT ![c] = checkpoints'[r][c]]
      <3>1. CASE checkpoints[r][c] = None
        <4>1. PICK after \in CompletedBefore(r) :
                checkpoints' = [checkpoints EXCEPT ![r] =
                  [@ EXCEPT ![c] = [state |-> state, after |-> after]]]
          BY <1>9, <2>2, <3>1 DEF BindCheckpoint
        <4> QED BY <1>0, <2>3, <2>4, <4>1
      <3>2. CASE checkpoints[r][c] # None
        <4>1. checkpoints' = checkpoints
          BY <1>9, <2>2, <3>2 DEF BindCheckpoint
        <4> QED BY <1>0, <2>3, <3>2, <4>1
      <3> QED BY <3>1, <3>2
    <2>6. BindStep(r)
      BY <1>9, <2>2, <2>3, <2>5 DEF BindCheckpoint, BindStep, Untold
    <2> QED BY <2>1, <2>6 DEF OnlyStepOf, StepOf
  <1>10. ASSUME NEW status \in Answered, PublishTerminalResult(r, w, e, status)
         PROVE  OnlyStepOf(r)
    <2>1. /\ Transition(r, Released(r, status), <<FinalEvent(status)>>)
          /\ UNCHANGED <<ledger, attempts, checkpoints, artifacts>>
          /\ UNCHANGED leases
          /\ runs[r].status = "running"
      BY <1>10 DEF PublishTerminalResult, WorkerLease
    <2>2. FinalEvent(status) \in DOMAIN Announced /\ Announced[FinalEvent(status)] = status
          /\ FinalEvent(status) \in Event
      BY FinalEvents, EventNames
    <2>3. /\ runs'[r] = Released(r, status) /\ Told(r, FinalEvent(status)) /\ SameWork(r)
          /\ StillTables /\ \A q \in Run \ {r} : QuietStep(q)
      BY <2>1, <2>2, TransitionStep
    <2>4. EndStep(r)
      BY <2>1, <2>2, <2>3 DEF EndStep, Terminal, Active
    <2> QED BY <2>3, <2>4 DEF OnlyStepOf, StepOf
  <1> QED BY <1>1, <1>2, <1>3, <1>4, <1>5, <1>6, <1>7, <1>8, <1>9, <1>10 DEF Leased, Work

LEMMA LeasedSteps ==
  ASSUME Typed, NEW r \in Run, NEW e \in DOMAIN leases[r], Leased(r, leases[r][e], e)
  PROVE  StepKeeps
  BY LeasedStepsOnOne, StepOnOne DEF OnlyStepOf

(* The clock. *)
LEMMA ClockSteps ==
  ASSUME Typed, Clock
  PROVE  StepKeeps
  <1>0. runs \in [Run -> RunRow]
    BY DEF Typed, RunTypeOK
  <1>1. ASSUME NEW r \in Run, Tick(r) PROVE StepKeeps
    <2>1. StillTables /\ \A q \in Run \ {r} : QuietStep(q)
      BY <1>1 DEF Typed, RunTypeOK, Tick, StillTables, QuietStep, SameRow, SameWork, Untold
    <2>2. /\ runs[r].status = "running" /\ runs[r].lease - 1 \in Nat
          /\ runs'[r] = [runs[r] EXCEPT !.lease = runs[r].lease - 1]
      BY <1>0, <1>1 DEF Typed, RunTypeOK, Tick, RunRow
    <2>3. AgeStep(r)
      BY <1>1, <2>2 DEF Tick, AgeStep, SameWork, Untold
    <2> QED BY <2>1, <2>3, StepOnOne DEF StepOf
  <1>2. ASSUME NEW r \in Run, PassDeadline(r) PROVE StepKeeps
    <2>1. StillTables /\ \A q \in Run \ {r} : QuietStep(q)
      BY <1>2 DEF Typed, RunTypeOK, PassDeadline, StillTables, QuietStep, SameRow, SameWork,
                  Untold
    <2>2. OverdueStep(r)
      BY <1>0, <1>2 DEF PassDeadline, OverdueStep, SameWork, Untold
    <2> QED BY <2>1, <2>2, StepOnOne DEF StepOf
  <1>3. ASSUME NEW s \in Session, NEW k \in Key, ExpireKey(s, k) PROVE StepKeeps
    BY <1>3, QuietKeeps DEF ExpireKey
  <1> QED BY <1>1, <1>2, <1>3 DEF Clock

(* Whatever the service does is, for each run, one of the steps above.      *)
LEMMA RunSteps ==
  ASSUME Typed, [RunNext]_runVars
  PROVE  StepKeeps
  <1>1. CASE UNCHANGED runVars
    BY <1>1, QuietKeeps DEF runVars
  <1>2. CASE \E r \in Run : Own(r)
    BY <1>2, OwnSteps
  <1>3. CASE Serve
    BY <1>3, ClaimSteps, RecoverSteps, LeasedSteps DEF Serve
  <1>4. CASE Clock
    BY <1>4, ClockSteps
  <1> QED BY <1>1, <1>2, <1>3, <1>4 DEF RunNext

-----------------------------------------------------------------------------
(* Types *)

TypedRun(r) ==
  /\ runs[r] \in RunRow
  /\ ledger[r] \in Spending
  /\ attempts[r] \in Seq(AttemptRow)
  /\ checkpoints[r] \in [CheckpointKey -> CheckpointRow \cup {None}]
  /\ artifacts[r] \in SUBSET Artifact
  /\ events[r] \in Seq(Event)
  /\ leases[r] \in Seq(Worker)

KeptRun(r) ==
  /\ runs[r].owner # None <=> runs[r].status = "running"
  /\ runs[r].lease > 0 => runs[r].status = "running"
  /\ runs[r].epoch = Len(leases[r])
  /\ runs[r].deadline = "unset" <=> runs[r].epoch = 0
  /\ runs[r].epoch <= MaxEpoch

BlankRun(r) ==
  runs[r].status = "absent" =>
    /\ runs[r] = NoRun /\ ledger[r] = NoSpending /\ attempts[r] = <<>> /\ events[r] = <<>>
    /\ \A c \in CheckpointKey : checkpoints[r][c] = None

Whole(r) == TypedRun(r) /\ KeptRun(r) /\ BlankRun(r)

TypedTalk == messages \in [Session -> Seq(Message)] /\ keys \in [Session -> [Key -> KeyRow]]

LEMMA TypedByRun == Typed => TypedTalk /\ \A r \in Run : Whole(r)
  BY DEF Typed, RunTypeOK, EpochsBounded, UnbornIsBlank, TypedRun, KeptRun, BlankRun, Whole,
         TypedTalk

(* What an update makes of a row. *)
LEMMA ReleasedRow ==
  ASSUME NEW r \in Run, runs[r] \in RunRow, NEW status \in RunStatus
  PROVE  Released(r, status) \in RunRow
  BY DEF RunRow, Released

LEMMA QueuedRow ==
  ASSUME NEW s \in Session, NEW parent \in Run \cup {None}, NEW body \in Body
  PROVE  [NoRun EXCEPT !.status = "queued", !.session = s, !.parent = parent, !.body = body]
           \in RunRow
  BY DEF RunRow, NoRun, RunStatus, Active

LEMMA ClaimedRow ==
  ASSUME NEW r \in Run, runs[r] \in RunRow, NEW w \in Worker
  PROVE  [runs[r] EXCEPT !.status = "running", !.owner = w, !.lease = LeaseTicks,
                         !.epoch = @ + 1, !.resume = FALSE, !.deadline = Deadline(r)]
           \in RunRow
  <1>1. Deadline(r) \in {"unset", "ahead", "passed"} /\ "running" \in RunStatus
    BY DEF Deadline, RunRow, RunStatus, Active
  <1>2. LeaseTicks \in Nat
    BY RunLimits
  <1>3. runs[r].epoch + 1 \in Nat
    BY DEF RunRow
  <1> QED BY <1>1, <1>2, <1>3 DEF RunRow

LEMMA RewrittenRow ==
  ASSUME NEW a \in AttemptRow, NEW status \in AttemptStatus
  PROVE  [a EXCEPT !.status = status] \in AttemptRow
  BY DEF AttemptRow

LEMMA ReconciledStatus ==
  ASSUME NEW r \in Run, attempts[r] \in Seq(AttemptRow), NEW n \in DOMAIN attempts[r]
  PROVE  attempts[r][n] \in AttemptRow /\ Reconciled(r, n) \in AttemptStatus
  <1>1. attempts[r][n] \in AttemptRow
    OBVIOUS
  <1>2. attempts[r][n].status \in AttemptStatus
    BY <1>1 DEF AttemptRow
  <1> QED BY <1>1, <1>2 DEF Reconciled, AttemptStatus

LEMMA SpentRow ==
  ASSUME NEW r \in Run, ledger[r] \in Spending, NEW op \in Operation
  PROVE  [ledger[r] EXCEPT !.used[KindOf[op]] = @ + 1] \in Spending
  <1>1. ledger[r].used \in [OperationKind -> Nat] /\ KindOf[op] \in OperationKind
    BY KindsOfOperations DEF Spending
  <1>2. [ledger[r].used EXCEPT ![KindOf[op]] = @ + 1] \in [OperationKind -> Nat]
    BY <1>1
  <1> QED BY <1>2 DEF Spending

LEMMA SearchedRow ==
  ASSUME NEW r \in Run, ledger[r] \in Spending, NEW n \in Nat
  PROVE  [ledger[r] EXCEPT !.rounds = @ + 1, !.queries = @ + n] \in Spending
  <1>1. ledger[r].rounds + 1 \in Nat /\ ledger[r].queries + n \in Nat
    BY DEF Spending
  <1> QED BY <1>1 DEF Spending

(* Every step keeps the types of a run. *)
LEMMA StepTypesRun ==
  ASSUME NEW r \in Run, TypedRun(r), BlankRun(r), StepOf(r)
  PROVE  TypedRun(r)'
  <1>0. /\ runs[r] \in RunRow /\ ledger[r] \in Spending /\ attempts[r] \in Seq(AttemptRow)
        /\ checkpoints[r] \in [CheckpointKey -> CheckpointRow \cup {None}]
        /\ artifacts[r] \in SUBSET Artifact /\ events[r] \in Seq(Event)
        /\ leases[r] \in Seq(Worker)
    BY DEF TypedRun
  <1>1. CASE QuietStep(r)
    BY <1>0, <1>1 DEF QuietStep, SameRow, SameWork, Untold, TypedRun
  <1>2. CASE CreateStep(r)
    <2>1. "run.queued" \in Event
      BY EventNames
    <2>2. PICK s \in Session, body \in Body, parent \in Run \cup {None} :
            runs'[r] = [NoRun EXCEPT !.status = "queued", !.session = s,
                                     !.parent = parent, !.body = body]
      BY <1>2, Zenon DEF CreateStep
    <2>4. runs'[r] \in RunRow
      <3> DEFINE row == [NoRun EXCEPT !.status = "queued", !.session = s,
                                      !.parent = parent, !.body = body]
      <3>1. row \in RunRow
        BY QueuedRow
      <3> QED BY <2>2, <3>1
    <2>3. events'[r] \in Seq(Event)
      BY <1>0, <1>2, <2>1 DEF CreateStep, Told
    <2> QED BY <1>0, <1>2, <2>3, <2>4 DEF CreateStep, SameWork, TypedRun
  <1>3. CASE EndStep(r)
    <2>1. runs'[r] \in RunRow
      BY <1>0, <1>3, ReleasedRow DEF EndStep, RunStatus
    <2>2. events'[r] \in Seq(Event)
      BY <1>0, <1>3, EventNames DEF EndStep, Told
    <2> QED BY <1>0, <1>3, <2>1, <2>2 DEF EndStep, SameWork, TypedRun
  <1>4. CASE ResumeStep(r)
    <2>1. runs'[r] \in RunRow
      BY <1>0, <1>4 DEF ResumeStep, RunRow
    <2>2. events'[r] \in Seq(Event)
      BY <1>0, <1>4, EventNames DEF ResumeStep, Told
    <2> QED BY <1>0, <1>4, <2>1, <2>2 DEF ResumeStep, SameWork, TypedRun
  <1>5. CASE ClaimStep(r)
    <2>1. runs'[r] \in RunRow
      BY <1>0, <1>5, ClaimedRow, Zenon DEF ClaimStep
    <2>2. events'[r] \in Seq(Event)
      BY <1>0, <1>5, EventNames DEF ClaimStep, Told
    <2>3. leases'[r] \in Seq(Worker)
      BY <1>0, <1>5 DEF ClaimStep
    <2> QED BY <1>0, <1>5, <2>1, <2>2, <2>3 DEF ClaimStep, SameWork, TypedRun
  <1>6. CASE RecoverStep(r)
    <2>1. runs'[r] \in RunRow
      BY <1>0, <1>6, ReleasedRow DEF RecoverStep, RunStatus, Active
    <2>2. attempts'[r] \in Seq(AttemptRow)
      <3>2. \A n \in DOMAIN attempts[r] :
              [attempts[r][n] EXCEPT !.status = Reconciled(r, n)] \in AttemptRow
        BY <1>0, ReconciledStatus, RewrittenRow
      <3>3. DOMAIN attempts[r] = 1..Len(attempts[r]) /\ Len(attempts[r]) \in Nat
        BY <1>0
      <3> QED BY <1>6, <3>2, <3>3 DEF RecoverStep
    <2>3. events'[r] \in Seq(Event)
      <3> DEFINE told == [n \in 1..Cardinality(NewlyUnknown(r)) |-> "attempt.outcome_unknown"]
      <3>1. IsFiniteSet(NewlyUnknown(r))
        <4>1. NewlyUnknown(r) \subseteq 1..Len(attempts[r]) /\ Len(attempts[r]) \in Nat
          BY <1>0 DEF NewlyUnknown
        <4>2. IsFiniteSet(1..Len(attempts[r]))
          BY <4>1, FS_Interval
        <4> QED BY <4>1, <4>2, FS_Subset
      <3>2. Cardinality(NewlyUnknown(r)) \in Nat
        BY <3>1, FS_CardinalityType
      <3>3. told \in Seq(Event)
        BY <3>2, EventNames
      <3>4. <<"run.interrupted">> \in Seq(Event)
        BY EventNames
      <3>5. events'[r] = events[r] \o told \o <<"run.interrupted">>
        BY <1>6 DEF RecoverStep
      <3> HIDE DEF told
      <3> QED BY <1>0, <3>3, <3>4, <3>5
    <2> QED BY <1>0, <1>6, <2>1, <2>2, <2>3 DEF RecoverStep, TypedRun
  <1>7. CASE AgeStep(r)
    BY <1>0, <1>7 DEF AgeStep, SameWork, Untold, RunRow, TypedRun
  <1>8. CASE OverdueStep(r)
    BY <1>0, <1>8 DEF OverdueStep, SameWork, Untold, RunRow, TypedRun
  <1>9. CASE SearchStep(r)
    <2>1. ledger'[r] \in Spending
      <3>1. \A n \in 1..MaxQueries : n \in Nat
        BY RunLimits
      <3>2. PICK n \in 1..MaxQueries :
              ledger'[r] = [ledger[r] EXCEPT !.rounds = @ + 1, !.queries = @ + n]
        BY <1>9, Zenon DEF SearchStep
      <3> QED BY <1>0, <3>1, <3>2, SearchedRow
    <2> QED BY <1>0, <1>9, <2>1 DEF SearchStep, SameRow, Untold, TypedRun
  <1>10. CASE ReserveStep(r)
    <2> PICK op \in Operation :
         /\ ledger'[r] = [ledger[r] EXCEPT !.used[KindOf[op]] = @ + 1]
         /\ attempts'[r] = Append(attempts[r],
              [operation |-> op, epoch |-> runs[r].epoch, status |-> "reserved"])
      BY <1>10 DEF ReserveStep
    <2>1. ledger'[r] \in Spending
      BY <1>0, SpentRow
    <2>2. attempts'[r] \in Seq(AttemptRow)
      <3>1. runs[r].epoch \in Nat
        BY <1>0 DEF RunRow
      <3>2. [operation |-> op, epoch |-> runs[r].epoch, status |-> "reserved"] \in AttemptRow
        BY <3>1 DEF AttemptRow, AttemptStatus
      <3> QED BY <1>0, <3>2
    <2> QED BY <1>0, <1>10, <2>1, <2>2 DEF ReserveStep, SameRow, Untold, TypedRun
  <1>11. ASSUME NEW n \in DOMAIN attempts[r], NEW status \in AttemptStatus, Rewritten(r, n, status)
         PROVE  attempts'[r] \in Seq(AttemptRow)
    <2>1. [attempts[r][n] EXCEPT !.status = status] \in AttemptRow
      BY <1>0, RewrittenRow
    <2>2. attempts'[r] = [attempts[r] EXCEPT ![n] = [attempts[r][n] EXCEPT !.status = status]]
      BY <1>11 DEF Rewritten
    <2> QED BY <1>0, <2>1, <2>2
  <1>12. CASE DispatchStep(r)
    <2>1. attempts'[r] \in Seq(AttemptRow)
      BY <1>11, <1>12 DEF DispatchStep, AttemptStatus
    <2> QED BY <1>0, <1>12, <2>1 DEF DispatchStep, SameRow, Untold, TypedRun
  <1>13. CASE FinishStep(r)
    <2>1. attempts'[r] \in Seq(AttemptRow)
      BY <1>11, <1>13 DEF FinishStep, AttemptStatus
    <2>2. events'[r] = Append(events[r], "attempt.outcome_unknown") \/ events'[r] = events[r]
      BY <1>13 DEF FinishStep, Told, Untold
    <2>4. "attempt.outcome_unknown" \in Event
      BY EventNames
    <2>3. events'[r] \in Seq(Event)
      <3>1. Append(events[r], "attempt.outcome_unknown") \in Seq(Event)
        BY <1>0, <2>4
      <3> QED BY <1>0, <2>2, <3>1, Zenon
    <2> QED BY <1>0, <1>13, <2>1, <2>3 DEF FinishStep, SameRow, TypedRun
  <1>14. CASE SaveStep(r)
    BY <1>0, <1>14 DEF SaveStep, SameRow, Untold, TypedRun
  <1>15. CASE BindStep(r)
    <2>1. runs'[r] \in RunRow
      BY <1>0, <1>15 DEF BindStep, RunRow
    <2>2. checkpoints'[r] \in [CheckpointKey -> CheckpointRow \cup {None}]
      BY <1>0, <1>15 DEF BindStep
    <2> QED BY <1>0, <1>15, <2>1, <2>2 DEF BindStep, Untold, TypedRun
  <1>16. CASE StageStep(r)
    BY <1>0, <1>16, EventNames DEF StageStep, Told, SameWork, SameRow, TypedRun
  <1> QED BY <1>1, <1>2, <1>3, <1>4, <1>5, <1>6, <1>7, <1>8, <1>9, <1>10, <1>12, <1>13, <1>14,
             <1>15, <1>16 DEF StepOf

(* Ownership, leases, epochs and deadlines go together. *)
LEMMA StepKeepsRun ==
  ASSUME NEW r \in Run, Whole(r), StepOf(r)
  PROVE  KeptRun(r)' /\ BlankRun(r)'
  <1> USE DEF KeptRun, BlankRun
  <1>0. TypedRun(r) /\ KeptRun(r) /\ BlankRun(r)
    BY DEF Whole
  <1>1. CASE QuietStep(r)
    BY <1>0, <1>1 DEF QuietStep, SameRow, SameWork, Untold
  <1>2. CASE CreateStep(r)
    BY <1>0, <1>2, NullIsNoRow DEF CreateStep, SameWork, NoRun
  <1>3. CASE EndStep(r)
    BY <1>0, <1>3 DEF EndStep, SameWork, Released, TypedRun, RunRow, Terminal, Answered, Active
  <1>4. CASE ResumeStep(r)
    BY <1>0, <1>4 DEF ResumeStep, SameWork, TypedRun, RunRow
  <1>5. CASE ClaimStep(r)
    <2> PICK w \in Worker :
         /\ runs'[r] = [runs[r] EXCEPT !.status = "running", !.owner = w,
                          !.lease = LeaseTicks, !.epoch = @ + 1, !.resume = FALSE,
                          !.deadline = Deadline(r)]
         /\ leases'[r] = Append(leases[r], w)
      BY <1>5 DEF ClaimStep
    <2>1. w # None
      BY NullIsNoRow
    <2>2. runs[r].epoch \in Nat /\ runs[r].epoch < MaxEpoch /\ MaxEpoch \in Nat
      BY <1>0, <1>5, RunLimits DEF ClaimStep, TypedRun, RunRow
    <2>3. Len(leases'[r]) = runs[r].epoch + 1
      BY <1>0 DEF TypedRun
    <2>4. Deadline(r) # "unset"
      BY DEF Deadline
    <2> QED BY <1>0, <2>1, <2>2, <2>3, <2>4 DEF TypedRun, RunRow
  <1>6. CASE RecoverStep(r)
    BY <1>0, <1>6 DEF RecoverStep, Released, TypedRun, RunRow
  <1>7. CASE AgeStep(r)
    BY <1>0, <1>7 DEF AgeStep, SameWork, Untold, TypedRun, RunRow, NoRun
  <1>8. CASE OverdueStep(r)
    BY <1>0, <1>8 DEF OverdueStep, SameWork, Untold, TypedRun, RunRow, NoRun
  <1>9. CASE SearchStep(r)
    BY <1>0, <1>9 DEF SearchStep, SameRow, Untold
  <1>10. CASE ReserveStep(r)
    BY <1>0, <1>10 DEF ReserveStep, SameRow, Untold
  <1>11. CASE DispatchStep(r)
    BY <1>0, <1>11 DEF DispatchStep, SameRow, Untold
  <1>12. CASE FinishStep(r)
    BY <1>0, <1>12 DEF FinishStep, SameRow, Untold
  <1>13. CASE SaveStep(r)
    BY <1>0, <1>13 DEF SaveStep, SameRow, Untold
  <1>14. CASE BindStep(r)
    BY <1>0, <1>14 DEF BindStep, TypedRun, RunRow, Answered
  <1>15. CASE StageStep(r)
    BY <1>0, <1>15 DEF StageStep, SameWork, SameRow
  <1> QED BY <1>1, <1>2, <1>3, <1>4, <1>5, <1>6, <1>7, <1>8, <1>9, <1>10, <1>11, <1>12, <1>13,
             <1>14, <1>15 DEF StepOf

-----------------------------------------------------------------------------
(* What a step may do to the conversations: a question, with its run and    *)
(* its key, an answer, with the end of its run, or neither.                 *)

AskStep ==
  \E r \in Run, s \in Session, k \in Key, body \in Body, parent \in Run \cup {None} :
    CreateRun(r, s, k, body, parent)

AnswerStep ==
  \E r \in Run, w \in Worker, e \in Nat, status \in Answered :
    PublishTerminalResult(r, w, e, status)

SameSpeaker(r) ==
  /\ runs'[r].session = runs[r].session
  /\ runs'[r].parent = runs[r].parent
  /\ runs'[r].body = runs[r].body
  /\ runs'[r].status = "absent" <=> runs[r].status = "absent"
  /\ runs'[r].status \in Active => runs[r].status \in Active
  /\ runs'[r].status \in Answered <=> runs[r].status \in Answered

SilentStep ==
  /\ messages' = messages
  /\ keys' = keys \/ \E s \in Session, k \in Key : ExpireKey(s, k)
  /\ \A r \in Run : SameSpeaker(r)

LEMMA SpeaksAsBefore ==
  ASSUME runs \in [Run -> RunRow], NEW r \in Run, NEW row,
         runs' = [runs EXCEPT ![r] = row],
         row.session = runs[r].session, row.parent = runs[r].parent, row.body = runs[r].body,
         row.status = "absent" <=> runs[r].status = "absent",
         row.status \in Active => runs[r].status \in Active,
         row.status \in Answered <=> runs[r].status \in Answered
  PROVE  \A q \in Run : SameSpeaker(q)
  BY DEF SameSpeaker

LEMMA TalkSteps ==
  ASSUME Typed, [RunNext]_runVars
  PROVE  AskStep \/ AnswerStep \/ SilentStep
  <1>0. runs \in [Run -> RunRow] /\ leases \in [Run -> Seq(Worker)]
    BY DEF Typed, RunTypeOK
  <1>1. CASE UNCHANGED runVars
    BY <1>1 DEF runVars, SilentStep, SameSpeaker
  <1>2. ASSUME NEW r \in Run, Own(r) PROVE AskStep \/ SilentStep
    <2>1. CASE CancelRun(r)
      <3>1. \A q \in Run : SameSpeaker(q)
        BY <1>0, <2>1, SpeaksAsBefore
           DEF CancelRun, Cancellable, Transition, Released, RunRow, Active, Answered
      <3> QED BY <2>1, <3>1 DEF CancelRun, SilentStep
    <2>2. CASE ResumeRun(r)
      <3>1. \A q \in Run : SameSpeaker(q)
        BY <1>0, <2>2, SpeaksAsBefore DEF ResumeRun, Transition, RunRow
      <3> QED BY <2>2, <3>1 DEF ResumeRun, SilentStep
    <2> QED BY <1>2, <2>1, <2>2 DEF Own, AskStep
  <1>3. ASSUME NEW r \in Run, NEW w \in Worker, ClaimNextRun(r, w) PROVE SilentStep
    <2>1. \A q \in Run : SameSpeaker(q)
      BY <1>0, <1>3, SpeaksAsBefore
         DEF ClaimNextRun, Claimable, Transition, RunRow, Active, Answered
    <2> QED BY <1>3, <2>1 DEF ClaimNextRun, SilentStep
  <1>4. ASSUME NEW batch \in SUBSET Stale, RecoverStaleRuns(batch) PROVE SilentStep
    <2>1. ASSUME NEW q \in Run PROVE SameSpeaker(q)
      <3>1. CASE q \in batch
        <4>1. runs'[q] = Released(q, "interrupted") /\ runs[q].status = "running"
          BY <1>4, <3>1 DEF RecoverStaleRuns, Stale
        <4>2. runs[q] \in RunRow
          BY <1>0
        <4> QED BY <4>1, <4>2 DEF Released, RunRow, SameSpeaker, Active, Answered
      <3>2. CASE q \notin batch
        BY <1>4, <3>2 DEF RecoverStaleRuns, SameSpeaker
      <3> QED BY <3>1, <3>2
    <2> QED BY <1>4, <2>1 DEF RecoverStaleRuns, SilentStep
  <1>5. ASSUME NEW r \in Run, NEW e \in DOMAIN leases[r], Leased(r, leases[r][e], e)
        PROVE  AnswerStep \/ SilentStep
    <2> DEFINE w == leases[r][e]
    <2>0. w \in Worker /\ e \in Nat
      BY <1>0
    <2>1. CASE HeartbeatRun(r, w, e)
      BY <1>0, <2>1 DEF HeartbeatRun, SilentStep, SameSpeaker, RunRow
    <2>2. CASE FailRun(r, w, e)
      <3>1. \A q \in Run : SameSpeaker(q)
        BY <1>0, <2>2, SpeaksAsBefore
           DEF FailRun, WorkerLease, Transition, Released, RunRow, Active, Answered
      <3> QED BY <2>2, <3>1 DEF FailRun, SilentStep
    <2>3. CASE UNCHANGED <<runs, messages, keys>>
      BY <2>3 DEF SilentStep, SameSpeaker
    <2>4. ASSUME NEW id \in CheckpointId, NEW state \in GraphState,
                 BindCheckpoint(r, w, e, id, state)
          PROVE  SilentStep
      BY <1>0, <2>4 DEF BindCheckpoint, SilentStep, SameSpeaker, RunRow
    <2>5. ASSUME NEW status \in Answered, PublishTerminalResult(r, w, e, status)
          PROVE  AnswerStep
      BY <2>0, <2>5 DEF AnswerStep
    <2>6. \/ HeartbeatRun(r, w, e) \/ FailRun(r, w, e) \/ UNCHANGED <<runs, messages, keys>>
          \/ \E id \in CheckpointId, state \in GraphState : BindCheckpoint(r, w, e, id, state)
          \/ \E status \in Answered : PublishTerminalResult(r, w, e, status)
      BY <1>5 DEF Leased, Work, AppendStageEvent, BeginRetrievalRound, ReserveAttempt,
                  MarkAttemptDispatched, FinishAttempt, SaveNodeArtifact
    <2> QED BY <2>1, <2>2, <2>3, <2>4, <2>5, <2>6
  <1>6. CASE Clock
    <2>1. ASSUME NEW r \in Run, Tick(r) \/ PassDeadline(r) PROVE SilentStep
      <3>1. CASE Tick(r)
        BY <1>0, <3>1 DEF Tick, SilentStep, SameSpeaker, RunRow
      <3>2. CASE PassDeadline(r)
        BY <1>0, <3>2 DEF PassDeadline, SilentStep, SameSpeaker, RunRow
      <3> QED BY <2>1, <3>1, <3>2
    <2>2. ASSUME NEW s \in Session, NEW k \in Key, ExpireKey(s, k) PROVE SilentStep
      <3>1. runs' = runs /\ messages' = messages
        BY <2>2 DEF ExpireKey
      <3> QED BY <2>2, <3>1 DEF SilentStep, SameSpeaker
    <2> QED BY <1>6, <2>1, <2>2 DEF Clock
  <1> QED BY <1>1, <1>2, <1>3, <1>4, <1>5, <1>6 DEF RunNext, Serve

LEMMA StepTypesTalk ==
  ASSUME Typed, [RunNext]_runVars
  PROVE  TypedTalk'
  <1>0. TypedTalk
    BY TypedByRun
  <1>1. CASE AskStep
    <2> PICK r \in Run, s \in Session, k \in Key, body \in Body, parent \in Run \cup {None} :
          CreateRun(r, s, k, body, parent)
      BY <1>1 DEF AskStep
    <2>1. /\ messages' = [messages EXCEPT ![s] = Append(@, [run |-> r, role |-> "user"])]
          /\ keys' = [keys EXCEPT ![s][k] =
                       [run |-> r, hash |-> RequestHash(body, parent), live |-> TRUE]]
      BY DEF CreateRun
    <2>2. [run |-> r, role |-> "user"] \in Message
      BY DEF Message
    <2>3. [run |-> r, hash |-> RequestHash(body, parent), live |-> TRUE] \in KeyRow
      BY DEF KeyRow, RequestHash
    <2>4. messages' \in [Session -> Seq(Message)]
      BY <1>0, <2>1, <2>2 DEF TypedTalk
    <2>5. keys' \in [Session -> [Key -> KeyRow]]
      BY <1>0, <2>1, <2>3 DEF TypedTalk
    <2> QED BY <2>4, <2>5 DEF TypedTalk
  <1>2. CASE AnswerStep
    <2> PICK r \in Run, w \in Worker, e \in Nat, status \in Answered :
          PublishTerminalResult(r, w, e, status)
      BY <1>2 DEF AnswerStep
    <2>1. /\ messages' = [messages EXCEPT ![runs[r].session] =
                            Append(@, [run |-> r, role |-> "assistant"])]
          /\ keys' = keys
      BY DEF PublishTerminalResult
    <2>2. [run |-> r, role |-> "assistant"] \in Message
      BY DEF Message
    <2>3. ASSUME NEW s \in Session PROVE messages'[s] \in Seq(Message)
      <3>1. messages[s] \in Seq(Message)
        BY <1>0 DEF TypedTalk
      <3>2. messages'[s] = messages[s]
              \/ messages'[s] = Append(messages[s], [run |-> r, role |-> "assistant"])
        BY <1>0, <2>1 DEF TypedTalk
      <3> QED BY <2>2, <3>1, <3>2
    <2>4. messages' = [s \in Session |-> messages'[s]]
      BY <1>0, <2>1 DEF TypedTalk
    <2> QED BY <1>0, <2>1, <2>3, <2>4 DEF TypedTalk
  <1>3. CASE SilentStep
    <2>1. ASSUME NEW s \in Session, NEW k \in Key, ExpireKey(s, k)
          PROVE  keys' \in [Session -> [Key -> KeyRow]]
      <3>1. keys' = [keys EXCEPT ![s][k].live = FALSE]
        BY <2>1 DEF ExpireKey
      <3>2. keys[s][k] \in KeyRow
        BY <1>0 DEF TypedTalk
      <3>3. [keys[s][k] EXCEPT !.live = FALSE] \in KeyRow
        BY <3>2 DEF KeyRow
      <3> QED BY <1>0, <3>1, <3>3 DEF TypedTalk
    <2> QED BY <1>0, <1>3, <2>1 DEF SilentStep, TypedTalk
  <1> QED BY <1>1, <1>2, <1>3, TalkSteps

(* The typing invariant is inductive.                                       *)
LEMMA TypedIsInductive ==
  /\ RunInit => Typed
  /\ Typed /\ [RunNext]_runVars => Typed'
  <1>1. ASSUME RunInit PROVE Typed
    <2>1. NoRun \in RunRow /\ NoSpending \in Spending /\ NoKey \in KeyRow
      BY DEF NoRun, RunRow, RunStatus, NoSpending, Spending, NoKey, KeyRow
    <2>2. RunTypeOK
      BY <1>1, <2>1 DEF RunInit, RunTypeOK, NoRun
    <2>3. EpochsBounded
      BY <1>1, RunLimits DEF RunInit, EpochsBounded, NoRun
    <2>4. UnbornIsBlank
      BY <1>1 DEF RunInit, UnbornIsBlank
    <2> QED BY <2>2, <2>3, <2>4 DEF Typed
  <1>2. ASSUME Typed, [RunNext]_runVars PROVE Typed'
    <2>1. StillTables /\ \A r \in Run : StepOf(r)
      BY <1>2, RunSteps DEF StepKeeps
    <2>2. ASSUME NEW r \in Run PROVE Whole(r)'
      <3>1. Whole(r) /\ StepOf(r)
        BY <1>2, <2>1, TypedByRun
      <3> QED BY <3>1, StepTypesRun, StepKeepsRun DEF Whole
    <2>3. TypedTalk'
      BY <1>2, StepTypesTalk
    <2>4. RunTypeOK'
      <3>1. \A r \in Run : TypedRun(r)' /\ KeptRun(r)'
        BY <2>2 DEF Whole
      <3> QED BY <2>1, <2>3, <3>1 DEF RunTypeOK, TypedTalk, StillTables, TypedRun, KeptRun
    <2>5. EpochsBounded'
      BY <2>2 DEF Whole, KeptRun, EpochsBounded
    <2>6. UnbornIsBlank'
      BY <2>2 DEF Whole, BlankRun, UnbornIsBlank
    <2> QED BY <2>4, <2>5, <2>6 DEF Typed
  <1> QED BY <1>1, <1>2

(* Every row keeps its types; a run has an owner, and a lease, only while   *)
(* it runs; each claim is one epoch (run_service.py: _assert_worker_lease,  *)
(* claim_next_run, recover_stale_runs).                                     *)
THEOREM RunTypesHold == RunSpec => [](RunTypeOK /\ UnbornIsBlank)
  <1>1. Typed => RunTypeOK /\ UnbornIsBlank
    BY DEF Typed
  <1> QED BY <1>1, TypedIsInductive, PTL DEF RunSpec

-----------------------------------------------------------------------------
(* The trusted checkpoint *)

(* A checkpoint key and a checkpoint are not NULL.                          *)
Trusts(r) ==
  LET bound == {c \in CheckpointKey : checkpoints[r][c] # None} IN
  IF runs[r].trusted = None THEN bound = {}
  ELSE /\ runs[r].trusted \in bound
       /\ runs[r].trusted[1] <= runs[r].epoch
       /\ \A c \in bound : c[1] <= runs[r].trusted[1]

LEMMA TrustsByRun == TrustedIsNewest <=> \A r \in Run : Trusts(r)
  BY DEF TrustedIsNewest, Trusts

LEMMA StepKeepsTrust ==
  ASSUME NEW r \in Run, Whole(r), StepOf(r), Trusts(r)
  PROVE  Trusts(r)'
  <1>0. /\ runs[r] \in RunRow /\ checkpoints[r] \in [CheckpointKey -> CheckpointRow \cup {None}]
        /\ BlankRun(r)
    BY DEF Whole, TypedRun
  <1>1. CASE CreateStep(r)
    <2>1. checkpoints'[r] = checkpoints[r] /\ \A c \in CheckpointKey : checkpoints[r][c] = None
      BY <1>0, <1>1 DEF CreateStep, SameWork, BlankRun
    <2>2. runs'[r].trusted = None
      BY <1>1 DEF CreateStep, NoRun
    <2> QED BY <2>1, <2>2 DEF Trusts
  <1>2. CASE BindStep(r)
    <2> PICK id \in CheckpointId :
          /\ <<runs[r].epoch, id>> \in CheckpointKey
          /\ checkpoints'[r][<<runs[r].epoch, id>>] \in CheckpointRow
          /\ checkpoints'[r] = [checkpoints[r] EXCEPT ![<<runs[r].epoch, id>>] =
                                  checkpoints'[r][<<runs[r].epoch, id>>]]
          /\ runs'[r] = [runs[r] EXCEPT !.trusted = <<runs[r].epoch, id>>]
      BY <1>2 DEF BindStep
    <2> DEFINE c == <<runs[r].epoch, id>>
    <2>1. c # None /\ checkpoints'[r][c] # None /\ c[1] = runs[r].epoch
      BY NullIsNoCheckpoint
    <2>2. runs'[r].trusted = c /\ runs'[r].epoch = runs[r].epoch /\ runs[r].epoch \in Nat
      BY <1>0 DEF RunRow
    <2>3. \A b \in CheckpointKey : b[1] \in Nat
      BY DEF CheckpointKey
    <2>4. \A b \in CheckpointKey : checkpoints[r][b] # None => b[1] <= runs[r].epoch
      <3>1. CASE runs[r].trusted = None
        BY <3>1 DEF Trusts
      <3>2. CASE runs[r].trusted # None
        <4>1. runs[r].trusted \in CheckpointKey
          BY <1>0, <3>2 DEF RunRow
        <4> QED BY <2>2, <2>3, <3>2, <4>1 DEF Trusts
      <3> QED BY <3>1, <3>2
    <2>5. \A b \in CheckpointKey : checkpoints'[r][b] # None => b[1] <= runs[r].epoch
      <3>1. \A b \in CheckpointKey : b # c => checkpoints'[r][b] = checkpoints[r][b]
        BY <1>0
      <3> QED BY <2>1, <2>2, <2>4, <3>1
    <2> QED BY <2>1, <2>2, <2>5 DEF Trusts
  <1>3. ASSUME checkpoints'[r] = checkpoints[r], runs'[r].trusted = runs[r].trusted,
               runs'[r].epoch \in {runs[r].epoch, runs[r].epoch + 1}
        PROVE  Trusts(r)'
    <2>1. CASE runs[r].trusted = None
      BY <1>3, <2>1 DEF Trusts
    <2>2. CASE runs[r].trusted # None
      <3>1. runs[r].trusted[1] \in Nat /\ runs[r].epoch \in Nat
        BY <1>0, <2>2 DEF RunRow, CheckpointKey
      <3>2. runs[r].trusted[1] <= runs'[r].epoch
        BY <1>3, <2>2, <3>1 DEF Trusts
      <3> QED BY <1>3, <2>2, <3>2 DEF Trusts
    <2> QED BY <2>1, <2>2
  <1>4. ASSUME StepOf(r), ~CreateStep(r), ~BindStep(r)
        PROVE  /\ checkpoints'[r] = checkpoints[r] /\ runs'[r].trusted = runs[r].trusted
               /\ runs'[r].epoch \in {runs[r].epoch, runs[r].epoch + 1}
    <2>1. checkpoints'[r] = checkpoints[r]
      BY <1>4 DEF StepOf, QuietStep, EndStep, ResumeStep, ClaimStep, RecoverStep, AgeStep,
                  OverdueStep, SearchStep, ReserveStep, DispatchStep, FinishStep, SaveStep,
                  StageStep, SameWork
    <2>2. CASE SameRow(r)
      BY <2>1, <2>2 DEF SameRow
    <2>3. CASE EndStep(r)
      BY <2>1, <1>0, <2>3 DEF EndStep, Released, RunRow
    <2>4. CASE ResumeStep(r)
      BY <2>1, <1>0, <2>4 DEF ResumeStep, RunRow
    <2>5. CASE ClaimStep(r)
      BY <2>1, <1>0, <2>5 DEF ClaimStep, RunRow
    <2>6. CASE RecoverStep(r)
      BY <2>1, <1>0, <2>6 DEF RecoverStep, Released, RunRow
    <2>7. CASE AgeStep(r) \/ OverdueStep(r)
      BY <2>1, <1>0, <2>7 DEF AgeStep, OverdueStep, RunRow
    <2> QED BY <1>4, <2>1, <2>2, <2>3, <2>4, <2>5, <2>6, <2>7
            DEF StepOf, QuietStep, SearchStep, ReserveStep, DispatchStep, FinishStep, SaveStep,
                StageStep
  <1> QED BY <1>1, <1>2, <1>3, <1>4

(* A run resumes from a checkpoint that exists and that the latest lease to *)
(* bind one has bound (RunService.bind_checkpoint, recover_stale_runs).     *)
THEOREM TrustedStaysNewest == RunSpec => []TrustedIsNewest
  <1>1. RunInit => TrustedIsNewest
    BY DEF RunInit, TrustedIsNewest, NoRun
  <1>2. Typed /\ TrustedIsNewest /\ [RunNext]_runVars => TrustedIsNewest'
    <2> SUFFICES ASSUME Typed, TrustedIsNewest, [RunNext]_runVars, NEW r \in Run
                 PROVE  Trusts(r)'
      BY DEF TrustedIsNewest, Trusts
    <2>1. Whole(r) /\ StepOf(r) /\ Trusts(r)
      BY RunSteps, TypedByRun, TrustsByRun DEF StepKeeps
    <2> QED BY <2>1, StepKeepsTrust
  <1> QED BY <1>1, <1>2, TypedIsInductive, PTL DEF RunSpec

-----------------------------------------------------------------------------
(* The journal of attempts and the ledger *)

SpentOn(r, k) == {n \in DOMAIN attempts[r] : KindOf[attempts[r][n].operation] = k}

Accounts(r) ==
  /\ \A k \in OperationKind :
       ledger[r].used[k] = Cardinality(SpentOn(r, k)) /\ Cardinality(SpentOn(r, k)) <= MaxUsed[k]
  /\ \A op \in Operation : Cardinality(AttemptsOf(r, op)) <= MaxRetry + 1
  /\ ledger[r].rounds <= MaxRounds
  /\ ledger[r].queries \in ledger[r].rounds..(ledger[r].rounds * MaxQueries)

Remembers(r) ==
  /\ \A n \in Attempts(r, {"reserved", "dispatched"}) :
       /\ attempts[r][n].epoch = runs[r].epoch
       /\ runs[r].status \notin {"queued", "interrupted"}
  /\ runs[r].status = "interrupted" =>
       \A n \in Attempts(r, {"succeeded"}) :
         attempts[r][n].epoch = runs[r].epoch
           /\ KindOf[attempts[r][n].operation] = "model" => Durable(r, n)

LEMMA JournalByRun == JournalIsComplete <=> \A r \in Run : Accounts(r) /\ Remembers(r)
  <1>1. LedgerMatchesJournal <=> \A r \in Run : Accounts(r)
    BY DEF LedgerMatchesJournal, Accounts, SpentOn
  <1>2. NothingForgotten <=> \A r \in Run : Remembers(r)
    BY DEF NothingForgotten, Remembers
  <1> QED BY <1>1, <1>2 DEF JournalIsComplete

Counted(s, T) == {n \in DOMAIN s : s[n] \in T}

(* An appended row is one more of its kind.                                 *)
LEMMA OneMore ==
  ASSUME NEW S, NEW s \in Seq(S), NEW a \in S, NEW T
  PROVE  /\ Cardinality(Counted(s, T)) \in Nat
         /\ Cardinality(Counted(Append(s, a), T)) =
              Cardinality(Counted(s, T)) + (IF a \in T THEN 1 ELSE 0)
  <1> DEFINE last == Len(s) + 1
  <1>1. /\ Len(s) \in Nat /\ DOMAIN s = 1..Len(s) /\ DOMAIN Append(s, a) = 1..last
        /\ \A n \in 1..Len(s) : Append(s, a)[n] = s[n]
        /\ Append(s, a)[last] = a
    OBVIOUS
  <1>2. IsFiniteSet(Counted(s, T))
    <2>1. Counted(s, T) \subseteq 1..Len(s) /\ IsFiniteSet(1..Len(s))
      BY <1>1, FS_Interval DEF Counted
    <2> QED BY <2>1, FS_Subset
  <1>3. last \notin Counted(s, T) /\ 1..last = (1..Len(s)) \cup {last}
    BY <1>1 DEF Counted
  <1> HIDE DEF last
  <1>6. Cardinality(Counted(s, T)) \in Nat
    BY <1>2, FS_CardinalityType
  <1>4. CASE a \in T
    <2>1. Counted(Append(s, a), T) = Counted(s, T) \cup {last}
      BY <1>1, <1>3, <1>4 DEF Counted
    <2> QED BY <1>2, <1>3, <1>4, <1>6, <2>1, FS_AddElement
  <1>5. CASE a \notin T
    <2>1. Counted(Append(s, a), T) = Counted(s, T)
      BY <1>1, <1>3, <1>5 DEF Counted
    <2> QED BY <1>5, <1>6, <2>1
  <1> QED BY <1>4, <1>5

(* Whatever only rewrites statuses changes no account.                      *)
LEMMA SameAccounts ==
  ASSUME NEW r \in Run, Accounts(r), ledger'[r] = ledger[r],
         DOMAIN attempts'[r] = DOMAIN attempts[r],
         \A n \in DOMAIN attempts[r] : attempts'[r][n].operation = attempts[r][n].operation
  PROVE  Accounts(r)'
  <1>1. \A k \in OperationKind : SpentOn(r, k)' = SpentOn(r, k)
    BY DEF SpentOn
  <1>2. \A op \in Operation : AttemptsOf(r, op)' = AttemptsOf(r, op)
    BY DEF AttemptsOf
  <1> QED BY <1>1, <1>2 DEF Accounts

LEMMA StepKeepsAccounts ==
  ASSUME NEW r \in Run, Whole(r), StepOf(r), Accounts(r)
  PROVE  Accounts(r)'
  <1>0. /\ runs[r] \in RunRow /\ ledger[r] \in Spending /\ attempts[r] \in Seq(AttemptRow)
    BY DEF Whole, TypedRun
  <1>1. CASE SearchStep(r)
    <2> PICK n \in 1..MaxQueries :
          ledger'[r] = [ledger[r] EXCEPT !.rounds = @ + 1, !.queries = @ + n]
      BY <1>1, Zenon DEF SearchStep
    <2> DEFINE rounds == ledger[r].rounds
               queries == ledger[r].queries
    <2>1. /\ rounds \in Nat /\ queries \in Nat /\ n \in Nat /\ n >= 1 /\ n <= MaxQueries
          /\ MaxQueries \in Nat /\ MaxRounds \in Nat
      BY <1>0, RunLimits DEF Spending
    <2>2. /\ ledger'[r].rounds = rounds + 1 /\ ledger'[r].queries = queries + n
          /\ ledger'[r].used = ledger[r].used
      BY <1>0 DEF Spending
    <2>3. rounds < MaxRounds /\ queries >= rounds /\ queries <= rounds * MaxQueries
      BY <1>1, <2>1 DEF SearchStep, Accounts
    <2>4. rounds * MaxQueries \in Nat /\ (rounds + 1) * MaxQueries = rounds * MaxQueries + MaxQueries
      <3> HIDE DEF rounds
      <3> QED BY <2>1
    <2>5. rounds + 1 <= MaxRounds /\ queries + n \in (rounds + 1)..((rounds + 1) * MaxQueries)
      <3> HIDE DEF rounds, queries
      <3> QED BY <2>1, <2>3, <2>4
    <2>6. attempts'[r] = attempts[r]
      BY <1>1 DEF SearchStep
    <2>7. /\ \A k \in OperationKind : SpentOn(r, k)' = SpentOn(r, k)
          /\ \A op \in Operation : AttemptsOf(r, op)' = AttemptsOf(r, op)
      BY <2>6 DEF SpentOn, AttemptsOf
    <2> QED BY <2>2, <2>5, <2>7 DEF Accounts
  <1>2. CASE ReserveStep(r)
    <2> PICK op \in Operation :
         /\ WithinBudget(r, op)
         /\ ledger'[r] = [ledger[r] EXCEPT !.used[KindOf[op]] = @ + 1]
         /\ attempts'[r] = Append(attempts[r],
              [operation |-> op, epoch |-> runs[r].epoch, status |-> "reserved"])
      BY <1>2, Zenon DEF ReserveStep
    <2> DEFINE a == [operation |-> op, epoch |-> runs[r].epoch, status |-> "reserved"]
               kind == KindOf[op]
    <2>1. a \in AttemptRow /\ kind \in OperationKind
      BY <1>0, KindsOfOperations DEF RunRow, AttemptRow, AttemptStatus
    <2>2. /\ ledger'[r].rounds = ledger[r].rounds /\ ledger'[r].queries = ledger[r].queries
          /\ \A k \in OperationKind :
               ledger'[r].used[k] = ledger[r].used[k] + (IF k = kind THEN 1 ELSE 0)
      <3>1. ledger[r].used \in [OperationKind -> Nat]
        BY <1>0 DEF Spending
      <3> QED BY <1>0, <2>1, <3>1 DEF Spending
    <2>3. ASSUME NEW k \in OperationKind
          PROVE  /\ Cardinality(SpentOn(r, k)) \in Nat
                 /\ Cardinality(SpentOn(r, k)') =
                      Cardinality(SpentOn(r, k)) + (IF k = kind THEN 1 ELSE 0)
      <3> DEFINE T == {x \in AttemptRow : KindOf[x.operation] = k}
      <3>1. SpentOn(r, k) = Counted(attempts[r], T)
        BY <1>0 DEF SpentOn, Counted
      <3>2. attempts'[r] = Append(attempts[r], a) /\ Append(attempts[r], a) \in Seq(AttemptRow)
        BY <1>0, <2>1
      <3>3. SpentOn(r, k)' = Counted(Append(attempts[r], a), T)
        BY <3>2 DEF SpentOn, Counted
      <3>4. a \in T <=> k = kind
        BY <2>1
      <3> HIDE DEF T, a, kind
      <3> QED BY <1>0, <2>1, <3>1, <3>3, <3>4, OneMore
    <2>4. ASSUME NEW p \in Operation
          PROVE  /\ Cardinality(AttemptsOf(r, p)) \in Nat
                 /\ Cardinality(AttemptsOf(r, p)') =
                      Cardinality(AttemptsOf(r, p)) + (IF p = op THEN 1 ELSE 0)
      <3> DEFINE T == {x \in AttemptRow : x.operation = p}
      <3>1. AttemptsOf(r, p) = Counted(attempts[r], T)
        BY <1>0 DEF AttemptsOf, Counted
      <3>2. attempts'[r] = Append(attempts[r], a) /\ Append(attempts[r], a) \in Seq(AttemptRow)
        BY <1>0, <2>1
      <3>3. AttemptsOf(r, p)' = Counted(Append(attempts[r], a), T)
        BY <3>2 DEF AttemptsOf, Counted
      <3>4. a \in T <=> p = op
        BY <2>1
      <3> HIDE DEF T, a, kind
      <3> QED BY <1>0, <2>1, <3>1, <3>3, <3>4, OneMore
    <2>5. /\ Cardinality(AttemptsOf(r, op)) <= MaxRetry /\ MaxRetry \in Nat
          /\ ledger[r].used[kind] < MaxUsed[kind]
          /\ \A k \in OperationKind : MaxUsed[k] \in Nat
      BY RunLimits DEF WithinBudget
    <2>6. \A p \in Operation : Cardinality(AttemptsOf(r, p)') <= MaxRetry + 1
      BY <2>4, <2>5 DEF Accounts
    <2>7. \A k \in OperationKind :
            /\ ledger'[r].used[k] = Cardinality(SpentOn(r, k)')
            /\ Cardinality(SpentOn(r, k)') <= MaxUsed[k]
      BY <2>1, <2>2, <2>3, <2>5 DEF Accounts
    <2> QED BY <2>2, <2>6, <2>7 DEF Accounts
  <1>3. ASSUME NEW n \in DOMAIN attempts[r], NEW status, Rewritten(r, n, status)
        PROVE  /\ DOMAIN attempts'[r] = DOMAIN attempts[r]
               /\ \A m \in DOMAIN attempts[r] :
                    attempts'[r][m].operation = attempts[r][m].operation
    <2>1. attempts[r][n] \in AttemptRow
      BY <1>0
    <2> QED BY <1>0, <1>3, <2>1 DEF Rewritten, AttemptRow
  <1>4. CASE DispatchStep(r)
    BY <1>3, <1>4, SameAccounts DEF DispatchStep
  <1>5. CASE FinishStep(r)
    BY <1>3, <1>5, SameAccounts DEF FinishStep
  <1>6. CASE RecoverStep(r)
    <2>1. \A n \in DOMAIN attempts[r] : attempts[r][n] \in AttemptRow
      BY <1>0
    <2>2. /\ DOMAIN attempts'[r] = DOMAIN attempts[r]
          /\ \A n \in DOMAIN attempts[r] :
               attempts'[r][n] = [attempts[r][n] EXCEPT !.status = Reconciled(r, n)]
      BY <1>6 DEF RecoverStep
    <2>3. \A n \in DOMAIN attempts[r] : attempts'[r][n].operation = attempts[r][n].operation
      BY <2>1, <2>2 DEF AttemptRow
    <2> QED BY <1>6, <2>2, <2>3, SameAccounts DEF RecoverStep
  <1>7. CASE attempts'[r] = attempts[r] /\ ledger'[r] = ledger[r]
    BY <1>7, SameAccounts
  <1> QED BY <1>1, <1>2, <1>4, <1>5, <1>6, <1>7
          DEF StepOf, QuietStep, CreateStep, EndStep, ResumeStep, ClaimStep, AgeStep, OverdueStep,
              SaveStep, BindStep, StageStep, SameWork

(* What recovery makes of an attempt, read by status.                       *)
LEMMA RecoveredAttempts ==
  ASSUME NEW r \in Run, Whole(r), RecoverStep(r)
  PROVE  /\ DOMAIN attempts'[r] = DOMAIN attempts[r]
         /\ \A n \in DOMAIN attempts[r] :
              /\ attempts'[r][n].status = Reconciled(r, n)
              /\ attempts'[r][n].epoch = attempts[r][n].epoch
              /\ attempts'[r][n].operation = attempts[r][n].operation
  <1>1. \A n \in DOMAIN attempts[r] : attempts[r][n] \in AttemptRow
    BY DEF Whole, TypedRun
  <1>2. /\ DOMAIN attempts'[r] = DOMAIN attempts[r]
        /\ \A n \in DOMAIN attempts[r] :
             attempts'[r][n] = [attempts[r][n] EXCEPT !.status = Reconciled(r, n)]
    BY DEF RecoverStep
  <1> QED BY <1>1, <1>2 DEF AttemptRow

(* A rewritten attempt, read by status.                                     *)
LEMMA RewrittenAttempts ==
  ASSUME NEW r \in Run, Whole(r), NEW n \in DOMAIN attempts[r], NEW status,
         Rewritten(r, n, status)
  PROVE  /\ DOMAIN attempts'[r] = DOMAIN attempts[r]
         /\ attempts'[r][n].status = status
         /\ attempts'[r][n].epoch = attempts[r][n].epoch
         /\ \A m \in DOMAIN attempts[r] \ {n} : attempts'[r][m] = attempts[r][m]
  <1>1. attempts[r] \in Seq(AttemptRow) /\ attempts[r][n] \in AttemptRow
    BY DEF Whole, TypedRun
  <1> QED BY <1>1 DEF Rewritten, AttemptRow

LEMMA StepKeepsMemory ==
  ASSUME NEW r \in Run, Whole(r), StepOf(r), Remembers(r)
  PROVE  Remembers(r)'
  <1>0. /\ runs[r] \in RunRow /\ attempts[r] \in Seq(AttemptRow) /\ BlankRun(r)
    BY DEF Whole, TypedRun
  <1>1. CASE CreateStep(r)
    <2>1. attempts'[r] = <<>>
      BY <1>0, <1>1 DEF CreateStep, SameWork, BlankRun
    <2> QED BY <2>1 DEF Remembers, Attempts
  <1>2. CASE ClaimStep(r)
    <2>1. runs[r].status \in {"queued", "interrupted"}
      BY <1>2 DEF ClaimStep, Claimable
    <2>2. Attempts(r, {"reserved", "dispatched"}) = {}
      BY <2>1 DEF Remembers
    <2>3. Attempts(r, {"reserved", "dispatched"})' = {}
      BY <1>2, <2>2 DEF ClaimStep, SameWork, Attempts
    <2>4. runs'[r].status = "running"
      BY <1>0, <1>2 DEF ClaimStep, RunRow
    <2> QED BY <2>3, <2>4 DEF Remembers
  <1>3. CASE RecoverStep(r)
    <2>1. /\ runs'[r].status = "interrupted" /\ runs'[r].epoch = runs[r].epoch
          /\ runs'[r].trusted = runs[r].trusted /\ checkpoints'[r] = checkpoints[r]
      BY <1>0, <1>3 DEF RecoverStep, Released, RunRow
    <2>2. \A n \in DOMAIN attempts[r] : Durable(r, n)' <=> Durable(r, n)
      BY <2>1 DEF Durable
    <2>3. ASSUME NEW n \in DOMAIN attempts[r]
          PROVE  /\ Reconciled(r, n) \notin {"reserved", "dispatched"}
                 /\ (/\ Reconciled(r, n) = "succeeded" /\ attempts[r][n].epoch = runs[r].epoch
                     /\ KindOf[attempts[r][n].operation] = "model") => Durable(r, n)
      <3>1. CASE attempts[r][n].epoch # runs[r].epoch
        BY <3>1 DEF Remembers, Attempts, Reconciled
      <3>2. CASE attempts[r][n].epoch = runs[r].epoch
        BY <3>2 DEF Reconciled
      <3> QED BY <3>1, <3>2
    <2> QED BY <1>3, <2>1, <2>2, <2>3, RecoveredAttempts DEF Remembers, Attempts
  <1>4. CASE ReserveStep(r)
    <2> PICK op \in Operation :
         attempts'[r] = Append(attempts[r],
              [operation |-> op, epoch |-> runs[r].epoch, status |-> "reserved"])
      BY <1>4, Zenon DEF ReserveStep
    <2>1. runs'[r] = runs[r] /\ runs[r].status = "running"
      BY <1>4 DEF ReserveStep, SameRow
    <2>2. ASSUME NEW n \in DOMAIN attempts'[r]
          PROVE  attempts'[r][n].epoch = runs[r].epoch \/ (n \in DOMAIN attempts[r]
                   /\ attempts'[r][n] = attempts[r][n])
      BY <1>0
    <2> QED BY <2>1, <2>2 DEF Remembers, Attempts
  <1>5. ASSUME NEW n \in DOMAIN attempts[r], NEW status, Rewritten(r, n, status),
               attempts[r][n].status \in {"reserved", "dispatched"},
               runs[r].status = "running", runs'[r] = runs[r]
        PROVE  Remembers(r)'
    BY <1>5, RewrittenAttempts DEF Remembers, Attempts
  <1>6. CASE DispatchStep(r)
    BY <1>5, <1>6 DEF DispatchStep, SameRow
  <1>7. CASE FinishStep(r)
    BY <1>5, <1>7 DEF FinishStep, SameRow
  <1>8. ASSUME attempts'[r] = attempts[r], runs'[r].epoch = runs[r].epoch,
               \/ runs'[r].status = runs[r].status
               \/ runs'[r].status \notin {"queued", "interrupted"},
               checkpoints'[r] = checkpoints[r],
               runs'[r].trusted = runs[r].trusted
        PROVE  Remembers(r)'
    BY <1>8 DEF Remembers, Attempts, Durable
  <1>9. CASE BindStep(r)
    <2>1. /\ runs'[r].status = runs[r].status /\ runs'[r].epoch = runs[r].epoch
          /\ runs[r].status # "interrupted" /\ attempts'[r] = attempts[r]
      BY <1>0, <1>9 DEF BindStep, RunRow, Answered
    <2> QED BY <2>1 DEF Remembers, Attempts
  <1>10. CASE EndStep(r)
    <2>1. /\ runs'[r].status \in Terminal /\ runs'[r].epoch = runs[r].epoch
          /\ runs'[r].trusted = runs[r].trusted /\ attempts'[r] = attempts[r]
          /\ checkpoints'[r] = checkpoints[r]
      BY <1>0, <1>10 DEF EndStep, Released, RunRow, SameWork
    <2> QED BY <1>8, <2>1 DEF Terminal, Answered
  <1>11. CASE ResumeStep(r) \/ AgeStep(r) \/ OverdueStep(r)
    <2>1. /\ runs'[r].status = runs[r].status /\ runs'[r].epoch = runs[r].epoch
          /\ runs'[r].trusted = runs[r].trusted /\ SameWork(r)
      BY <1>0, <1>11 DEF ResumeStep, AgeStep, OverdueStep, RunRow
    <2> QED BY <1>8, <2>1 DEF SameWork
  <1>12. CASE QuietStep(r) \/ SearchStep(r) \/ SaveStep(r) \/ StageStep(r)
    BY <1>8, <1>12 DEF QuietStep, SearchStep, SaveStep, StageStep, SameRow, SameWork
  <1> QED BY <1>1, <1>2, <1>3, <1>4, <1>6, <1>7, <1>9, <1>10, <1>11, <1>12 DEF StepOf

(* The ledger counts the journal and recovery forgets no attempt            *)
(* (RunService.reserve_attempt, finish_attempt, recover_stale_runs).        *)
THEOREM JournalStaysComplete == RunSpec => []JournalIsComplete
  <1>1. ASSUME RunInit PROVE JournalIsComplete
    <2>1. ASSUME NEW r \in Run PROVE Accounts(r) /\ Remembers(r)
      <3>1. /\ attempts[r] = <<>> /\ ledger[r] = NoSpending /\ runs[r].status = "absent"
        BY <1>1 DEF RunInit, NoRun
      <3>2. /\ \A k \in OperationKind : SpentOn(r, k) = {}
            /\ \A op \in Operation : AttemptsOf(r, op) = {}
        BY <3>1 DEF SpentOn, AttemptsOf
      <3>3. Cardinality({}) = 0
        BY FS_EmptySet
      <3>6. /\ 0 * MaxQueries = 0 /\ MaxRounds \in Nat /\ MaxRetry \in Nat
            /\ \A k \in OperationKind : MaxUsed[k] \in Nat
        BY RunLimits
      <3>7. /\ ledger[r].rounds = 0 /\ ledger[r].queries = 0
            /\ \A k \in OperationKind : ledger[r].used[k] = 0
        BY <3>1 DEF NoSpending
      <3>8. ledger[r].queries \in ledger[r].rounds..(ledger[r].rounds * MaxQueries)
        BY <3>6, <3>7
      <3>4. Accounts(r)
        <4>1. /\ 0 <= MaxRounds /\ 0 <= MaxRetry + 1
              /\ \A k \in OperationKind : 0 <= MaxUsed[k]
          BY <3>6
        <4> QED BY <3>2, <3>3, <3>7, <3>8, <4>1, Zenon DEF Accounts
      <3>5. Remembers(r)
        BY <3>1 DEF Remembers, Attempts
      <3> QED BY <3>4, <3>5
    <2> QED BY <2>1, JournalByRun
  <1>2. Typed /\ JournalIsComplete /\ [RunNext]_runVars => JournalIsComplete'
    <2> SUFFICES ASSUME Typed, JournalIsComplete, [RunNext]_runVars
                 PROVE  JournalIsComplete'
      OBVIOUS
    <2>1. \A r \in Run : Whole(r) /\ StepOf(r) /\ Accounts(r) /\ Remembers(r)
      BY RunSteps, TypedByRun, JournalByRun DEF StepKeeps
    <2>2. \A r \in Run : Accounts(r)' /\ Remembers(r)'
      BY <2>1, StepKeepsAccounts, StepKeepsMemory
    <2>3. LedgerMatchesJournal'
      BY <2>2 DEF LedgerMatchesJournal, Accounts, SpentOn
    <2>4. NothingForgotten'
      BY <2>2 DEF NothingForgotten, Remembers
    <2> QED BY <2>3, <2>4 DEF JournalIsComplete
  <1> QED BY <1>1, <1>2, TypedIsInductive, PTL DEF RunSpec

-----------------------------------------------------------------------------
(* Steps that may not be taken *)

LEMMA StepsGoForward ==
  ASSUME Typed, StepKeeps
  PROVE  Forward
  <1> SUFFICES ASSUME NEW r \in Run, NEW n \in DOMAIN attempts[r]
               PROVE  \/ attempts'[r][n].status = attempts[r][n].status
                      \/ /\ attempts[r][n].status = "reserved"
                         /\ attempts'[r][n].status \in {"dispatched", "abandoned_before_dispatch"}
                      \/ /\ attempts[r][n].status = "dispatched"
                         /\ attempts'[r][n].status \in {"succeeded", "failed", "outcome_unknown"}
                      \/ /\ attempts[r][n].status = "succeeded"
                         /\ attempts'[r][n].status = "outcome_unknown"
                         /\ runs'[r].status = "interrupted"
    BY DEF Forward
  <1>0. Whole(r) /\ runs[r] \in RunRow /\ attempts[r] \in Seq(AttemptRow) /\ StepOf(r)
    BY TypedByRun DEF StepKeeps, Whole, TypedRun
  <1>1. CASE attempts'[r] = attempts[r]
    BY <1>1
  <1>2. CASE RecoverStep(r)
    <2>1. attempts'[r][n].status = Reconciled(r, n) /\ runs'[r].status = "interrupted"
      BY <1>0, <1>2, RecoveredAttempts DEF RecoverStep, Released, RunRow
    <2> QED BY <2>1 DEF Reconciled
  <1>3. CASE ReserveStep(r)
    BY <1>0, <1>3 DEF ReserveStep
  <1>4. CASE DispatchStep(r)
    BY <1>0, <1>4, RewrittenAttempts DEF DispatchStep
  <1>5. CASE FinishStep(r)
    BY <1>0, <1>5, RewrittenAttempts DEF FinishStep
  <1> QED BY <1>0, <1>1, <1>2, <1>3, <1>4, <1>5
          DEF StepOf, QuietStep, CreateStep, EndStep, ResumeStep, ClaimStep, AgeStep, OverdueStep,
              SearchStep, SaveStep, BindStep, StageStep, SameWork

LEMMA StepsKeepEnds ==
  ASSUME Typed, StepKeeps
  PROVE  EndsStay
  <1> SUFFICES ASSUME NEW r \in Run, runs[r].status \in Terminal
               PROVE  /\ runs'[r].status = runs[r].status /\ events'[r] = events[r]
                      /\ attempts'[r] = attempts[r] /\ ledger'[r] = ledger[r]
                      /\ artifacts'[r] = artifacts[r]
    BY DEF EndsStay
  <1>0. runs[r] \in RunRow /\ StepOf(r)
    BY TypedByRun DEF StepKeeps, Whole, TypedRun
  <1>1. runs[r].status \notin {"absent", "queued", "running", "interrupted"}
    BY DEF Terminal, Answered
  <1>2. ~Claimable(r) /\ r \notin Stale
    BY <1>1 DEF Claimable, Stale
  <1>3. QuietStep(r) \/ AgeStep(r) \/ OverdueStep(r) \/ BindStep(r)
    BY <1>0, <1>1, <1>2
       DEF StepOf, CreateStep, EndStep, ResumeStep, ClaimStep, RecoverStep, SearchStep,
           ReserveStep, DispatchStep, FinishStep, SaveStep, StageStep, Active
  <1>4. CASE QuietStep(r)
    BY <1>4 DEF QuietStep, SameRow, SameWork, Untold
  <1>5. CASE AgeStep(r)
    BY <1>0, <1>5 DEF AgeStep, SameWork, Untold, RunRow
  <1>6. CASE OverdueStep(r)
    BY <1>0, <1>6 DEF OverdueStep, SameWork, Untold, RunRow
  <1>7. CASE BindStep(r)
    BY <1>0, <1>7 DEF BindStep, Untold, RunRow
  <1> QED BY <1>3, <1>4, <1>5, <1>6, <1>7

LEMMA StepsKeepDeadlines ==
  ASSUME Typed, StepKeeps
  PROVE  DeadlinesStay
  <1> SUFFICES ASSUME NEW r \in Run, runs[r].deadline = "passed"
               PROVE  /\ runs'[r].deadline = "passed" /\ Len(attempts'[r]) = Len(attempts[r])
                      /\ \A n \in DOMAIN attempts[r] : attempts'[r][n].status = "dispatched" =>
                           attempts[r][n].status = "dispatched"
    BY DEF DeadlinesStay
  <1>0. Whole(r) /\ runs[r] \in RunRow /\ attempts[r] \in Seq(AttemptRow) /\ StepOf(r)
    BY TypedByRun DEF StepKeeps, Whole, TypedRun
  <1>1. ~ReserveStep(r) /\ ~DispatchStep(r) /\ ~OverdueStep(r) /\ ~CreateStep(r)
    <2>1. ~ReserveStep(r)
      BY Zenon DEF ReserveStep
    <2>2. ~DispatchStep(r)
      BY Zenon DEF DispatchStep
    <2>3. ~OverdueStep(r)
      BY Zenon DEF OverdueStep
    <2>4. runs[r].status # "absent"
      <3>1. runs[r].status = "absent" => runs[r] = NoRun
        BY <1>0, Zenon DEF Whole, BlankRun
      <3> QED BY <3>1 DEF NoRun
    <2>5. ~CreateStep(r)
      BY <2>4, Zenon DEF CreateStep
    <2> QED BY <2>1, <2>2, <2>3, <2>5
  <1>2. CASE RecoverStep(r)
    <2>1. runs'[r].deadline = "passed"
      BY <1>0, <1>2 DEF RecoverStep, Released, RunRow
    <2>2. attempts'[r] \in Seq(AttemptRow) /\ DOMAIN attempts'[r] = DOMAIN attempts[r]
      BY <1>0, <1>2, RecoveredAttempts, StepTypesRun DEF Whole, TypedRun
    <2>3. \A n \in DOMAIN attempts[r] : Reconciled(r, n) = "dispatched" =>
            attempts[r][n].status = "dispatched"
      BY DEF Reconciled
    <2> QED BY <1>0, <1>2, <2>1, <2>2, <2>3, RecoveredAttempts
  <1>3. CASE FinishStep(r)
    <2> PICK n \in DOMAIN attempts[r], status \in {"succeeded", "failed", "outcome_unknown"} :
          Rewritten(r, n, status)
      BY <1>3 DEF FinishStep
    <2>1. runs'[r].deadline = "passed"
      BY <1>3 DEF FinishStep, SameRow
    <2>2. attempts'[r] \in Seq(AttemptRow) /\ DOMAIN attempts'[r] = DOMAIN attempts[r]
      BY <1>0, RewrittenAttempts, StepTypesRun DEF Whole, TypedRun
    <2> QED BY <1>0, <2>1, <2>2, RewrittenAttempts
  <1>4. ASSUME attempts'[r] = attempts[r], runs'[r].deadline = runs[r].deadline
        PROVE  /\ runs'[r].deadline = "passed" /\ Len(attempts'[r]) = Len(attempts[r])
               /\ \A n \in DOMAIN attempts[r] : attempts'[r][n].status = "dispatched" =>
                    attempts[r][n].status = "dispatched"
    BY <1>4
  <1>5. CASE EndStep(r)
    BY <1>0, <1>4, <1>5 DEF EndStep, Released, RunRow, SameWork
  <1>6. CASE ClaimStep(r)
    BY <1>0, <1>4, <1>6 DEF ClaimStep, Deadline, RunRow, SameWork
  <1>7. CASE ResumeStep(r) \/ AgeStep(r) \/ BindStep(r)
    BY <1>0, <1>4, <1>7 DEF ResumeStep, AgeStep, BindStep, RunRow, SameWork
  <1>8. CASE QuietStep(r) \/ SearchStep(r) \/ SaveStep(r) \/ StageStep(r)
    BY <1>4, <1>8 DEF QuietStep, SearchStep, SaveStep, StageStep, SameRow, SameWork
  <1> QED BY <1>0, <1>1, <1>2, <1>3, <1>5, <1>6, <1>7, <1>8 DEF StepOf

-----------------------------------------------------------------------------
(* The conversation of a session *)

Question(r) == [run |-> r, role |-> "user"]
Answer(r) == [run |-> r, role |-> "assistant"]

(* The messages belong to runs of their session, and none is said twice.    *)
Spoken ==
  \A s \in Session : \A n \in DOMAIN messages[s] :
    /\ runs[messages[s][n].run].session = s
    /\ \A m \in DOMAIN messages[s] : messages[s][m] = messages[s][n] => m = n

(* A run that is there has its question in its session. *)
QuestionsAsked ==
  \A r \in Run : runs[r].status # "absent" =>
    /\ runs[r].session \in Session
    /\ \E n \in DOMAIN messages[runs[r].session] : messages[runs[r].session][n] = Question(r)

(* An answer stands next to its question, and its run is answered. *)
AnswersFollow ==
  \A s \in Session, r \in Run : \A n \in DOMAIN messages[s] : messages[s][n] = Answer(r) =>
    /\ runs[r].status \in Answered
    /\ n - 1 \in DOMAIN messages[s] /\ messages[s][n - 1] = Question(r)

(* An answered run has its answer. *)
AnswersGiven ==
  \A r \in Run : runs[r].status \in Answered =>
    \E n \in DOMAIN messages[runs[r].session] : messages[runs[r].session][n] = Answer(r)

(* The question of an active run is the last message of its session. *)
ActiveIsLast ==
  \A r \in Run : runs[r].status \in Active =>
    LET said == messages[runs[r].session] IN said # <<>> /\ said[Len(said)] = Question(r)

Turns == Spoken /\ QuestionsAsked /\ AnswersFollow /\ AnswersGiven /\ ActiveIsLast

(* A key in use is bound to a run of its session and to its request. *)
KeysBound ==
  \A s \in Session, k \in Key : keys[s][k] # NoKey =>
    /\ keys[s][k].run \in Run
    /\ runs[keys[s][k].run].session = s
    /\ keys[s][k].hash = <<runs[keys[s][k].run].body, runs[keys[s][k].run].parent>>

LEMMA NotTheSame ==
  /\ \A r, q \in Run : Question(r) # Answer(q)
  /\ \A r, q \in Run : Question(r) = Question(q) => r = q
  /\ \A r, q \in Run : Answer(r) = Answer(q) => r = q
  /\ \A r \in Run : Question(r).run = r /\ Answer(r).run = r
  /\ \A m \in Message : m = Question(m.run) \/ m = Answer(m.run)
  BY DEF Question, Answer, Message

LEMMA Statuses ==
  /\ "absent" \notin Active /\ "absent" \notin Answered /\ "absent" \notin Terminal /\ Active \cap Answered = {}
  /\ "running" \in Active /\ "queued" \in Active
  /\ Answered \subseteq Terminal /\ Active \cap Terminal = {}
  /\ RunStatus = {"absent"} \cup Active \cup Terminal
  BY DEF Active, Answered, Terminal, RunStatus

(* Nobody speaks for a run that is not there. *)
LEMMA AbsentIsSilent ==
  ASSUME Typed, Spoken, NEW r \in Run, runs[r].status = "absent"
  PROVE  /\ runs[r].session = None /\ None \notin Session
         /\ \A s \in Session : \A n \in DOMAIN messages[s] : messages[s][n].run # r
  BY NullIsNoRow DEF Typed, UnbornIsBlank, NoRun, Spoken

(* Messages are messages of runs. *)
LEMMA MessagesOfRuns ==
  ASSUME Typed
  PROVE  \A s \in Session : \A n \in DOMAIN messages[s] :
           messages[s][n] \in Message /\ messages[s][n].run \in Run
  <1>1. messages \in [Session -> Seq(Message)]
    BY DEF Typed, RunTypeOK
  <1>2. \A s \in Session : \A n \in DOMAIN messages[s] : messages[s][n] \in Message
    BY <1>1
  <1> QED BY <1>2 DEF Message

(* One more message in one session. *)
LEMMA OneMessageMore ==
  ASSUME Typed, NEW s \in Session, NEW m \in Message,
         messages' = [messages EXCEPT ![s] = Append(@, m)]
  PROVE  /\ \A t \in Session \ {s} : messages'[t] = messages[t]
         /\ Len(messages[s]) \in Nat
         /\ DOMAIN messages[s] = 1..Len(messages[s])
         /\ DOMAIN messages'[s] = DOMAIN messages[s] \cup {Len(messages[s]) + 1}
         /\ Len(messages[s]) + 1 \notin DOMAIN messages[s]
         /\ Len(messages'[s]) = Len(messages[s]) + 1
         /\ messages'[s][Len(messages[s]) + 1] = m
         /\ \A n \in DOMAIN messages[s] : messages'[s][n] = messages[s][n]
  <1>1. messages \in [Session -> Seq(Message)]
    BY DEF Typed, RunTypeOK
  <1> QED BY <1>1

LEMMA AskKeepsTurns ==
  ASSUME Typed, Turns, AskStep
  PROVE  Turns'
  <1> PICK r \in Run, s \in Session, k \in Key, body \in Body, parent \in Run \cup {None} :
        CreateRun(r, s, k, body, parent)
    BY DEF AskStep
  <1>0. runs \in [Run -> RunRow] /\ Question(r) \in Message
    BY DEF Typed, RunTypeOK, Question, Message
  <1>1. /\ runs[r].status = "absent" /\ ActiveIn(s) = {}
        /\ messages' = [messages EXCEPT ![s] = Append(@, Question(r))]
    BY DEF CreateRun, Question
  <1>2. /\ runs'[r].status = "queued" /\ runs'[r].session = s
        /\ \A q \in Run \ {r} : runs'[q] = runs[q]
    BY <1>0 DEF CreateRun, Transition, NoRun
  <1>3. /\ runs[r].session = None /\ None \notin Session
        /\ \A t \in Session : \A n \in DOMAIN messages[t] : messages[t][n].run # r
    BY <1>1, AbsentIsSilent DEF Turns
  <1> DEFINE last == Len(messages[s]) + 1
  <1>4. /\ \A t \in Session \ {s} : messages'[t] = messages[t]
        /\ last \in Nat
        /\ DOMAIN messages'[s] = DOMAIN messages[s] \cup {last} /\ last \notin DOMAIN messages[s]
        /\ Len(messages'[s]) = last /\ messages'[s][last] = Question(r)
        /\ \A n \in DOMAIN messages[s] : messages'[s][n] = messages[s][n]
    <2>1. Len(messages[s]) \in Nat
      BY <1>0, <1>1, OneMessageMore
    <2>2. /\ DOMAIN messages'[s] = DOMAIN messages[s] \cup {last} /\ last \notin DOMAIN messages[s]
          /\ Len(messages'[s]) = last /\ messages'[s][last] = Question(r)
      BY <1>0, <1>1, OneMessageMore
    <2>3. /\ \A t \in Session \ {s} : messages'[t] = messages[t]
          /\ \A n \in DOMAIN messages[s] : messages'[s][n] = messages[s][n]
      BY <1>0, <1>1, OneMessageMore
    <2> QED BY <2>1, <2>2, <2>3
  <1>5. \A t \in Session : \A n \in DOMAIN messages[t] :
          messages[t][n] \in Message /\ messages[t][n].run \in Run
    BY MessagesOfRuns
  <1> HIDE DEF last
  <1>6. Spoken'
    BY <1>2, <1>3, <1>4, <1>5, NotTheSame DEF Turns, Spoken
  <1>7. QuestionsAsked'
    BY <1>1, <1>2, <1>4 DEF Turns, QuestionsAsked
  <1>8. AnswersFollow'
    BY <1>1, <1>2, <1>3, <1>4, <1>5, NotTheSame, Statuses DEF Turns, AnswersFollow
  <1>9. AnswersGiven'
    BY <1>1, <1>2, <1>4, Statuses DEF Turns, AnswersGiven, QuestionsAsked
  <1>10. ActiveIsLast'
    <2>1. \A q \in Run \ {r} : runs[q].status \in Active =>
            runs[q].session \in Session \ {s}
      BY <1>1, Statuses DEF ActiveIn, Turns, QuestionsAsked
    <2>2. messages'[s] # <<>>
      BY <1>4
    <2> QED BY <1>2, <1>4, <2>1, <2>2 DEF Turns, ActiveIsLast
  <1> QED BY <1>6, <1>7, <1>8, <1>9, <1>10 DEF Turns

LEMMA AnswerKeepsTurns ==
  ASSUME Typed, Turns, AnswerStep
  PROVE  Turns'
  <1> PICK r \in Run, w \in Worker, e \in Nat, status \in Answered :
        PublishTerminalResult(r, w, e, status)
    BY DEF AnswerStep
  <1> DEFINE s == runs[r].session
             last == Len(messages[s]) + 1
  <1>0. runs \in [Run -> RunRow] /\ Answer(r) \in Message
        /\ messages \in [Session -> Seq(Message)]
    BY DEF Typed, RunTypeOK, Answer, Message
  <1>1. /\ runs[r].status = "running" /\ s \in Session
        /\ messages' = [messages EXCEPT ![s] = Append(@, Answer(r))]
    BY DEF PublishTerminalResult, WorkerLease, Answer, Turns, QuestionsAsked
  <1>2. /\ runs'[r].status \in Answered /\ runs'[r].session = s
        /\ \A q \in Run \ {r} : runs'[q] = runs[q]
    BY <1>0 DEF PublishTerminalResult, Transition, Released, RunRow
  <1>4. /\ \A t \in Session \ {s} : messages'[t] = messages[t]
        /\ last \in Nat
        /\ DOMAIN messages[s] = 1..(last - 1)
        /\ DOMAIN messages'[s] = DOMAIN messages[s] \cup {last} /\ last \notin DOMAIN messages[s]
        /\ Len(messages'[s]) = last /\ messages'[s][last] = Answer(r)
        /\ \A n \in DOMAIN messages[s] : messages'[s][n] = messages[s][n]
    BY <1>0, <1>1, OneMessageMore
  <1>3. /\ last - 1 \in DOMAIN messages[s] /\ messages[s][last - 1] = Question(r)
        /\ last - 1 = Len(messages[s])
    BY <1>0, <1>1, <1>4, Statuses DEF Turns, ActiveIsLast
  <1>5. \A t \in Session : \A n \in DOMAIN messages[t] :
          /\ messages[t][n] \in Message /\ messages[t][n].run \in Run
          /\ messages[t][n] # Answer(r)
    <2>1. \A t \in Session : \A n \in DOMAIN messages[t] :
            messages[t][n] \in Message /\ messages[t][n].run \in Run
      BY MessagesOfRuns
    <2> QED BY <1>1, <2>1, Statuses DEF Turns, AnswersFollow
  <1>6. \A q \in Run \ {r} : runs[q].status \in Active => runs[q].session \in Session \ {s}
    <2>1. \A q \in Run : runs[q].status \in Active =>
            runs[q].session \in Session /\ (runs[q].session = s => Question(q) = Question(r))
      BY <1>3, Statuses DEF Turns, ActiveIsLast, QuestionsAsked
    <2> QED BY <2>1, NotTheSame
  <1> HIDE DEF last, s
  <1>7. Spoken'
    <2>1. \A q \in Run : runs'[q].session = runs[q].session
      BY <1>2 DEF s
    <2>2. \A t \in Session : \A n \in DOMAIN messages[t] :
            /\ runs'[messages[t][n].run].session = t
            /\ \A m \in DOMAIN messages[t] : messages[t][m] = messages[t][n] => m = n
      BY <1>5, <2>1 DEF Turns, Spoken
    <2>3. runs'[Answer(r).run].session = s
      BY <1>2, NotTheSame
    <2>4. ASSUME NEW t \in Session, NEW n \in DOMAIN messages'[t]
          PROVE  /\ runs'[messages'[t][n].run].session = t
                 /\ \A m \in DOMAIN messages'[t] : messages'[t][m] = messages'[t][n] => m = n
      <3>1. CASE t # s
        BY <1>4, <2>2, <3>1
      <3>2. CASE t = s
        BY <1>1, <1>4, <1>5, <2>2, <2>3, <3>2
      <3> QED BY <3>1, <3>2
    <2> QED BY <2>4 DEF Spoken
  <1>8. QuestionsAsked'
    <2>1. \A q \in Run : /\ runs'[q].session = runs[q].session
                         /\ runs'[q].status # "absent" => runs[q].status # "absent"
      BY <1>1, <1>2 DEF s
    <2>2. \A t \in Session : \A n \in DOMAIN messages[t] :
            n \in DOMAIN messages'[t] /\ messages'[t][n] = messages[t][n]
      BY <1>4
    <2> QED BY <2>1, <2>2 DEF Turns, QuestionsAsked
  <1>9. AnswersFollow'
    <2> SUFFICES ASSUME NEW t \in Session, NEW q \in Run, NEW n \in DOMAIN messages'[t],
                        messages'[t][n] = Answer(q)
                 PROVE  /\ runs'[q].status \in Answered
                        /\ n - 1 \in DOMAIN messages'[t] /\ messages'[t][n - 1] = Question(q)
      BY DEF AnswersFollow
    <2>1. CASE t = s /\ n = last
      BY <1>2, <1>3, <1>4, <2>1, NotTheSame
    <2>2. CASE ~(t = s /\ n = last)
      <3>1. n \in DOMAIN messages[t] /\ messages[t][n] = Answer(q)
        BY <1>4, <2>2
      <3>2. /\ runs[q].status \in Answered
            /\ n - 1 \in DOMAIN messages[t] /\ messages[t][n - 1] = Question(q)
        BY <3>1 DEF Turns, AnswersFollow
      <3>3. q # r
        BY <1>1, <3>2, Statuses
      <3> QED BY <1>2, <1>4, <3>2, <3>3
    <2> QED BY <2>1, <2>2
  <1>10. AnswersGiven'
    <2>1. last \in DOMAIN messages'[s] /\ messages'[s][last] = Answer(r) /\ runs'[r].session = s
      BY <1>2, <1>4
    <2>2. ASSUME NEW q \in Run \ {r}, runs'[q].status \in Answered
          PROVE  \E n \in DOMAIN messages'[runs'[q].session] :
                   messages'[runs'[q].session][n] = Answer(q)
      <3>1. runs'[q] = runs[q]
        BY <1>2
      <3>2. runs[q].session \in Session
        BY <2>2, <3>1, Statuses DEF Turns, QuestionsAsked
      <3>3. PICK n \in DOMAIN messages[runs[q].session] :
              messages[runs[q].session][n] = Answer(q)
        BY <2>2, <3>1 DEF Turns, AnswersGiven
      <3>4. n \in DOMAIN messages'[runs[q].session]
              /\ messages'[runs[q].session][n] = Answer(q)
        BY <1>4, <3>2, <3>3
      <3> QED BY <3>1, <3>4
    <2> QED BY <2>1, <2>2 DEF AnswersGiven
  <1>11. ActiveIsLast'
    BY <1>2, <1>4, <1>6, Statuses DEF Turns, ActiveIsLast
  <1> QED BY <1>7, <1>8, <1>9, <1>10, <1>11 DEF Turns

LEMMA SilenceKeepsTurns ==
  ASSUME Typed, Turns, SilentStep
  PROVE  Turns'
  <1>1. /\ messages' = messages
        /\ \A r \in Run :
             /\ runs'[r].session = runs[r].session
             /\ runs'[r].status = "absent" <=> runs[r].status = "absent"
             /\ runs'[r].status \in Active => runs[r].status \in Active
             /\ runs'[r].status \in Answered <=> runs[r].status \in Answered
    BY DEF SilentStep, SameSpeaker
  <1>2. \A s \in Session : \A n \in DOMAIN messages[s] : messages[s][n].run \in Run
    BY MessagesOfRuns
  <1>3. Spoken'
    BY <1>1, <1>2 DEF Turns, Spoken
  <1>4. QuestionsAsked'
    BY <1>1 DEF Turns, QuestionsAsked
  <1>5. AnswersFollow'
    BY <1>1 DEF Turns, AnswersFollow
  <1>6. AnswersGiven'
    BY <1>1 DEF Turns, AnswersGiven
  <1>7. ActiveIsLast'
    BY <1>1 DEF Turns, ActiveIsLast
  <1> QED BY <1>3, <1>4, <1>5, <1>6, <1>7 DEF Turns

LEMMA TurnsAreInductive ==
  /\ RunInit => Turns
  /\ Typed /\ Turns /\ [RunNext]_runVars => Turns'
  <1>1. ASSUME RunInit PROVE Turns
    <2>1. /\ \A s \in Session : messages[s] = <<>>
          /\ \A r \in Run : runs[r].status = "absent"
      BY <1>1 DEF RunInit, NoRun
    <2> QED BY <2>1, Statuses
            DEF Turns, Spoken, QuestionsAsked, AnswersFollow, AnswersGiven, ActiveIsLast
  <1>2. ASSUME Typed, Turns, [RunNext]_runVars PROVE Turns'
    BY <1>2, TalkSteps, AskKeepsTurns, AnswerKeepsTurns, SilenceKeepsTurns
  <1> QED BY <1>1, <1>2

LEMMA TurnsAreAConversation ==
  ASSUME Typed, Turns
  PROVE  OneConversation
  <1>0. messages \in [Session -> Seq(Message)]
    BY DEF Typed, RunTypeOK
  <1>1. ASSUME NEW r \in Run, NEW q \in Run, runs[r].status \in Active,
               runs[q].status \in Active, runs[r].session = runs[q].session
        PROVE  r = q
    BY <1>1, NotTheSame DEF Turns, ActiveIsLast
  <1>2. ASSUME NEW r \in Run, runs[r].status # "absent"
        PROVE  messages[runs[r].session] # <<>>
    BY <1>2 DEF Turns, QuestionsAsked
  <1>3. ASSUME NEW s \in Session, NEW r \in Run
        PROVE  LET Said(role) ==
                     {n \in DOMAIN messages[s] : messages[s][n] = [run |-> r, role |-> role]} IN
               /\ Cardinality(Said("user")) = IF runs[r].session = s THEN 1 ELSE 0
               /\ Said("assistant") =
                    IF runs[r].session = s /\ runs[r].status \in Answered
                    THEN {n + 1 : n \in Said("user")} ELSE {}
    <2> DEFINE asked == {n \in DOMAIN messages[s] : messages[s][n] = Question(r)}
               answered == {n \in DOMAIN messages[s] : messages[s][n] = Answer(r)}
    <2>1. CASE runs[r].session # s
      <3>1. asked = {} /\ answered = {}
        BY <2>1, NotTheSame DEF Turns, Spoken
      <3>2. Cardinality(asked) = 0
        BY <3>1, FS_EmptySet
      <3> QED BY <2>1, <3>1, <3>2 DEF Question, Answer
    <2>2. CASE runs[r].session = s
      <3>1. runs[r].status # "absent"
        BY <2>2, AbsentIsSilent DEF Turns
      <3>2. PICK n \in DOMAIN messages[s] : messages[s][n] = Question(r)
        BY <2>2, <3>1 DEF Turns, QuestionsAsked
      <3>3. asked = {n}
        BY <3>2 DEF Turns, Spoken
      <3>4. Cardinality(asked) = 1
        BY <3>3, FS_Singleton
      <3>5. answered = IF runs[r].status \in Answered THEN {n + 1} ELSE {}
        <4>1. \A m \in answered : m = n + 1 /\ runs[r].status \in Answered
          <5>1. \A m \in answered : m \in Nat /\ m - 1 \in asked /\ runs[r].status \in Answered
            BY <1>0 DEF Turns, AnswersFollow
          <5> QED BY <3>3, <5>1
        <4>2. runs[r].status \in Answered => answered # {}
          BY <2>2 DEF Turns, AnswersGiven
        <4> QED BY <4>1, <4>2
      <3>6. {m + 1 : m \in asked} = {n + 1}
        BY <3>3
      <3> QED BY <2>2, <3>4, <3>5, <3>6 DEF Question, Answer
    <2> QED BY <2>1, <2>2
  <1> QED BY <1>1, <1>2, <1>3 DEF OneConversation

(* A session is one conversation: of its runs one is active at most, and an *)
(* answer stands next to its question (RunService.create_run,               *)
(* _publish_terminal_result).                                               *)
THEOREM SessionsAreOneConversation == RunSpec => []OneConversation
  <1>1. Typed /\ Turns => OneConversation
    BY TurnsAreAConversation
  <1> QED BY <1>1, TypedIsInductive, TurnsAreInductive, PTL DEF RunSpec

-----------------------------------------------------------------------------
(* Idempotency keys *)

LEMMA KeysAreInductive ==
  /\ RunInit => KeysBound
  /\ Typed /\ KeysBound /\ [RunNext]_runVars => KeysBound'
  <1>1. RunInit => KeysBound
    BY DEF RunInit, KeysBound
  <1>2. ASSUME Typed, KeysBound, [RunNext]_runVars PROVE KeysBound'
    <2>0. /\ runs \in [Run -> RunRow] /\ keys \in [Session -> [Key -> KeyRow]]
      BY <1>2 DEF Typed, RunTypeOK
    <2>1. CASE AskStep
      <3> PICK r \in Run, s \in Session, k \in Key, body \in Body, parent \in Run \cup {None} :
            CreateRun(r, s, k, body, parent)
        BY <2>1 DEF AskStep
      <3>1. /\ runs'[r].session = s /\ runs'[r].body = body /\ runs'[r].parent = parent
            /\ \A q \in Run \ {r} : runs'[q] = runs[q]
        BY <2>0 DEF CreateRun, Transition, NoRun
      <3>2. /\ keys'[s][k] = [run |-> r, hash |-> <<body, parent>>, live |-> TRUE]
            /\ \A t \in Session, l \in Key : t # s \/ l # k => keys'[t][l] = keys[t][l]
        BY <2>0 DEF CreateRun, RequestHash
      <3>3. \A t \in Session, l \in Key : keys[t][l] # NoKey => keys[t][l].run # r
        <4>1. runs[r].session = None /\ None \notin Session
          BY <1>2, NullIsNoRow DEF CreateRun, Typed, UnbornIsBlank, NoRun
        <4> QED BY <1>2, <4>1 DEF KeysBound
      <3> SUFFICES ASSUME NEW t \in Session, NEW l \in Key, keys'[t][l] # NoKey
                   PROVE  /\ keys'[t][l].run \in Run
                          /\ runs'[keys'[t][l].run].session = t
                          /\ keys'[t][l].hash =
                               <<runs'[keys'[t][l].run].body, runs'[keys'[t][l].run].parent>>
        BY DEF KeysBound
      <3>4. CASE t = s /\ l = k
        BY <3>1, <3>2, <3>4
      <3>5. CASE t # s \/ l # k
        BY <1>2, <3>1, <3>2, <3>3, <3>5 DEF KeysBound
      <3> QED BY <3>4, <3>5
    <2>2. CASE AnswerStep
      <3> PICK r \in Run, w \in Worker, e \in Nat, status \in Answered :
            PublishTerminalResult(r, w, e, status)
        BY <2>2 DEF AnswerStep
      <3>1. /\ keys' = keys
            /\ \A q \in Run : /\ runs'[q].session = runs[q].session
                              /\ runs'[q].body = runs[q].body /\ runs'[q].parent = runs[q].parent
        BY <2>0 DEF PublishTerminalResult, Transition, Released, RunRow
      <3> QED BY <1>2, <3>1 DEF KeysBound
    <2>3. CASE SilentStep
      <3>1. \A q \in Run : /\ runs'[q].session = runs[q].session
                           /\ runs'[q].body = runs[q].body /\ runs'[q].parent = runs[q].parent
        BY <2>3 DEF SilentStep, SameSpeaker
      <3>2. CASE keys' = keys
        BY <1>2, <3>1, <3>2 DEF KeysBound
      <3>3. ASSUME NEW s \in Session, NEW k \in Key, ExpireKey(s, k) PROVE KeysBound'
        <4>1. keys[s][k].live /\ keys[s][k] \in KeyRow
          BY <2>0, <3>3 DEF ExpireKey
        <4>2. /\ keys'[s][k] = [keys[s][k] EXCEPT !.live = FALSE]
              /\ \A t \in Session, l \in Key : t # s \/ l # k => keys'[t][l] = keys[t][l]
          BY <2>0, <3>3 DEF ExpireKey
        <4>3. keys'[s][k].run = keys[s][k].run /\ keys'[s][k].hash = keys[s][k].hash
          BY <4>1, <4>2 DEF KeyRow
        <4>4. keys[s][k] # NoKey
          BY <4>1 DEF NoKey
        <4> SUFFICES ASSUME NEW t \in Session, NEW l \in Key, keys'[t][l] # NoKey
                     PROVE  /\ keys'[t][l].run \in Run
                            /\ runs'[keys'[t][l].run].session = t
                            /\ keys'[t][l].hash =
                                 <<runs'[keys'[t][l].run].body, runs'[keys'[t][l].run].parent>>
          BY DEF KeysBound
        <4>5. /\ keys[t][l] # NoKey /\ keys'[t][l].run = keys[t][l].run
              /\ keys'[t][l].hash = keys[t][l].hash
          BY <4>2, <4>3, <4>4
        <4> QED BY <1>2, <3>1, <4>5 DEF KeysBound
      <3> QED BY <2>3, <3>2, <3>3 DEF SilentStep
    <2> QED BY <1>2, <2>1, <2>2, <2>3, TalkSteps
  <1> QED BY <1>1, <1>2

(* A key in use is replayed for the request it was bound to, and in its own *)
(* session (RunService.create_run, _request_hash).                          *)
THEOREM ReplayStaysTheSameRequest == RunSpec => []ReplayIsTheSameRequest
  <1>1. ASSUME KeysBound PROVE ReplayIsTheSameRequest
    <2> SUFFICES ASSUME NEW s \in Session, NEW k \in Key, keys[s][k].live
                 PROVE  LET run == runs[keys[s][k].run] IN
                        /\ run.session = s
                        /\ \A body \in Body, parent \in Run \cup {None} :
                             Replayed(s, k, body, parent) =>
                               run.body = body /\ run.parent = parent
      BY DEF ReplayIsTheSameRequest
    <2>1. keys[s][k] # NoKey
      BY DEF NoKey
    <2> QED BY <1>1, <2>1 DEF KeysBound, Replayed, RequestHash
  <1> QED BY <1>1, TypedIsInductive, KeysAreInductive, PTL DEF RunSpec

-----------------------------------------------------------------------------
(* History *)

(* Nobody leaves a session.                                                 *)
LEMMA SessionsStay ==
  ASSUME Typed, StepKeeps, NEW r \in Run, runs[r].status # "absent"
  PROVE  runs'[r].session = runs[r].session /\ runs'[r].status # "absent"
  <1>0. runs[r] \in RunRow /\ StepOf(r)
    BY TypedByRun DEF StepKeeps, Whole, TypedRun
  <1>1. CASE EndStep(r)
    BY <1>0, <1>1, Statuses DEF EndStep, Released, RunRow
  <1>2. CASE ResumeStep(r) \/ ClaimStep(r)
    BY <1>0, <1>2 DEF ResumeStep, ClaimStep, RunRow
  <1>3. CASE RecoverStep(r)
    BY <1>0, <1>3 DEF RecoverStep, Released, RunRow
  <1>4. CASE AgeStep(r)
    BY <1>0, <1>4 DEF AgeStep, RunRow
  <1>6. CASE OverdueStep(r)
    BY <1>0, <1>6 DEF OverdueStep, RunRow
  <1>5. CASE BindStep(r)
    BY <1>0, <1>5 DEF BindStep, RunRow
  <1> QED BY <1>0, <1>1, <1>2, <1>3, <1>4, <1>5, <1>6
          DEF StepOf, QuietStep, CreateStep, SearchStep, ReserveStep, DispatchStep, FinishStep,
              SaveStep, StageStep, SameRow

(* What is said stays said.                                                 *)
LEMMA MessagesStay ==
  ASSUME Typed, Turns, [RunNext]_runVars, NEW s \in Session, NEW n \in DOMAIN messages[s]
  PROVE  n \in DOMAIN messages'[s] /\ messages'[s][n] = messages[s][n]
  <1>1. CASE AskStep
    <2> PICK r \in Run, t \in Session, k \in Key, body \in Body, parent \in Run \cup {None} :
          CreateRun(r, t, k, body, parent)
      BY <1>1 DEF AskStep
    <2>1. messages' = [messages EXCEPT ![t] = Append(@, Question(r))] /\ Question(r) \in Message
      BY DEF CreateRun, Question, Message
    <2> QED BY <2>1, OneMessageMore
  <1>2. CASE AnswerStep
    <2> PICK r \in Run, w \in Worker, e \in Nat, status \in Answered :
          PublishTerminalResult(r, w, e, status)
      BY <1>2 DEF AnswerStep
    <2>1. /\ messages' = [messages EXCEPT ![runs[r].session] = Append(@, Answer(r))]
          /\ Answer(r) \in Message /\ runs[r].session \in Session
      BY DEF PublishTerminalResult, WorkerLease, Answer, Message, Turns, QuestionsAsked
    <2> QED BY <2>1, OneMessageMore
  <1>3. CASE SilentStep
    BY <1>3 DEF SilentStep
  <1> QED BY <1>1, <1>2, <1>3, TalkSteps

(* Whoever spoke before a question has ended.                               *)
LEMMA EarlierRunsHaveEnded ==
  ASSUME Typed, Turns, NEW r \in Run, NEW s \in Session, NEW asked \in DOMAIN messages[s],
         messages[s][asked] = Question(r), NEW n \in DOMAIN messages[s], n < asked
  PROVE  runs[messages[s][n].run].status \in Terminal
  <1> DEFINE q == messages[s][n].run
  <1>1. q \in Run /\ messages[s][n] \in {Question(q), Answer(q)} /\ runs[q].session = s
    BY MessagesOfRuns, NotTheSame DEF Turns, Spoken
  <1>2. runs[q].status \in RunStatus
    BY <1>1 DEF Typed, RunTypeOK, RunRow
  <1>3. runs[q].status # "absent"
    BY <1>1, AbsentIsSilent DEF Turns
  <1>4. runs[q].status \notin Active
    <2> SUFFICES ASSUME runs[q].status \in Active PROVE FALSE
      OBVIOUS
    <2>1. messages[s][Len(messages[s])] = Question(q) /\ messages[s] # <<>>
      BY <1>1 DEF Turns, ActiveIsLast
    <2>2. /\ messages[s] \in Seq(Message) /\ asked <= Len(messages[s])
          /\ Len(messages[s]) \in DOMAIN messages[s] /\ n \in Nat /\ Len(messages[s]) \in Nat
          /\ asked \in Nat
      BY <2>1 DEF Typed, RunTypeOK
    <2>3. CASE messages[s][n] = Question(q)
      <3>1. n = Len(messages[s])
        BY <1>1, <2>1, <2>2, <2>3 DEF Turns, Spoken
      <3> QED BY <2>2, <3>1
    <2>4. CASE messages[s][n] = Answer(q)
      BY <1>1, <2>4, Statuses DEF Turns, AnswersFollow
    <2> QED BY <1>1, <2>3, <2>4
  <1> QED BY <1>2, <1>3, <1>4, Statuses

LEMMA StepsKeepHistory ==
  ASSUME Typed, Turns, Turns', Typed', [RunNext]_runVars
  PROVE  HistoryStays
  <1> SUFFICES ASSUME NEW r \in Run, runs[r].status # "absent"
               PROVE  History(r)' = History(r)
    BY DEF HistoryStays
  <1> DEFINE s == runs[r].session
             said == messages[s]
             told == messages'[s]
  <1>0. StepKeeps
    BY RunSteps
  <1>1. s \in Session /\ runs'[r].session = s /\ runs'[r].status # "absent"
    BY <1>0, SessionsStay DEF Turns, QuestionsAsked
  <1>2. PICK asked \in DOMAIN said : said[asked] = Question(r)
    BY DEF Turns, QuestionsAsked
  <1>3. asked \in DOMAIN told /\ told[asked] = Question(r)
    BY <1>1, <1>2, MessagesStay
  <1>4. asked = CHOOSE n \in DOMAIN said : said[n] = [run |-> r, role |-> "user"]
    BY <1>1, <1>2 DEF Turns, Spoken, Question
  <1>5. asked = CHOOSE n \in DOMAIN told : told[n] = [run |-> r, role |-> "user"]
    BY <1>1, <1>3 DEF Turns, Spoken, Question
  <1>6. History(r) = [n \in {m \in 1..(asked - 1) : runs[said[m].run].status \in Answered} |-> said[n]]
    BY <1>4 DEF History
  <1>7. History(r)' = [n \in {m \in 1..(asked - 1) : runs'[told[m].run].status \in Answered} |-> told[n]]
    BY <1>1, <1>5 DEF History
  <1>8. ASSUME NEW n \in 1..(asked - 1)
        PROVE  told[n] = said[n] /\ runs'[said[n].run].status = runs[said[n].run].status
    <2>1. said \in Seq(Message)
      BY <1>1 DEF Typed, RunTypeOK
    <2>2. n \in DOMAIN said /\ n < asked
      BY <1>2, <2>1
    <2>3. runs[said[n].run].status \in Terminal /\ said[n].run \in Run
      BY <1>1, <1>2, <2>2, EarlierRunsHaveEnded, MessagesOfRuns
    <2> QED BY <1>0, <1>1, <2>2, <2>3, MessagesStay, StepsKeepEnds DEF EndsStay
  <1> HIDE DEF said, told, s
  <1> QED BY <1>6, <1>7, <1>8

(* Nothing is undone: attempts only move forward, an end is final, a        *)
(* deadline is absolute, a resumed run reads the history it was asked with. *)
THEOREM NothingIsEverUndone == RunSpec => NothingIsUndone
  <1>1. Typed /\ Turns /\ Typed' /\ Turns' /\ [RunNext]_runVars =>
          [Forward /\ EndsStay /\ DeadlinesStay /\ HistoryStays]_runVars
    BY RunSteps, StepsGoForward, StepsKeepEnds, StepsKeepDeadlines, StepsKeepHistory
  <1> QED BY <1>1, TypedIsInductive, TurnsAreInductive, PTL DEF RunSpec, NothingIsUndone

-----------------------------------------------------------------------------
(* What the log tells *)

(* The lifecycle events of a log. *)
Life(log) == {n \in DOMAIN log : log[n] \in DOMAIN Announced}

(* The log tells a status and whether a resume is pending.                  *)
Tells(log, status, resume) ==
  /\ \A n \in Life(log) : Announced[log[n]] \in Terminal => n = Len(log) /\ status \in Terminal
  /\ IF status = "absent" THEN log = <<>>
     ELSE \E last \in Life(log) :
            /\ \A n \in Life(log) : n <= last
            /\ Announced[log[last]] = status
            /\ status = "interrupted" => (resume <=> log[last] = "run.resume_requested")

LEMMA AppendedLog ==
  ASSUME NEW log \in Seq(Event), NEW type \in Event
  PROVE  /\ Len(log) \in Nat /\ DOMAIN log = 1..Len(log)
         /\ Len(Append(log, type)) = Len(log) + 1
         /\ DOMAIN Append(log, type) = DOMAIN log \cup {Len(log) + 1}
         /\ Append(log, type)[Len(log) + 1] = type
         /\ \A n \in DOMAIN log : n <= Len(log) /\ Append(log, type)[n] = log[n]
  OBVIOUS

(* A transition is told. *)
LEMMA TellsTransition ==
  ASSUME NEW log \in Seq(Event), NEW status, NEW resume, Tells(log, status, resume),
         status \notin Terminal,
         NEW type \in DOMAIN Announced, NEW after,
         Announced[type] = "interrupted" => (after <=> type = "run.resume_requested")
  PROVE  Tells(Append(log, type), Announced[type], after)
  <1> DEFINE more == Append(log, type)
             last == Len(log) + 1
  <1>1. type \in Event /\ Announced[type] # "absent"
    BY EventNames
  <1>2. /\ Len(log) \in Nat /\ last \in Nat
        /\ Len(more) = last /\ DOMAIN more = DOMAIN log \cup {last} /\ more[last] = type
        /\ \A n \in DOMAIN log : n <= last /\ n # last /\ more[n] = log[n]
    BY <1>1, AppendedLog
  <1> HIDE DEF more, last
  <1>3. Life(more) = Life(log) \cup {last}
    BY <1>2 DEF Life
  <1>4. \A n \in Life(log) : Announced[log[n]] \notin Terminal
    BY DEF Tells
  <1>5. \A n \in Life(more) : Announced[more[n]] \in Terminal =>
          n = Len(more) /\ Announced[type] \in Terminal
    BY <1>2, <1>3, <1>4 DEF Life
  <1>6. \A n \in Life(more) : n <= last
    BY <1>2, <1>3 DEF Life
  <1>7. Tells(more, Announced[type], after)
    BY <1>1, <1>2, <1>3, <1>5, <1>6 DEF Tells
  <1> QED BY <1>7 DEF more

(* Whatever else is told tells no status. *)
LEMMA TellsAside ==
  ASSUME NEW log \in Seq(Event), NEW status, NEW resume, Tells(log, status, resume),
         status \notin Terminal, status # "absent",
         NEW aside \in Seq(Event \ DOMAIN Announced)
  PROVE  Tells(log \o aside, status, resume)
  <1> DEFINE more == log \o aside
  <1>1. /\ \A n \in DOMAIN log : n \in DOMAIN more /\ more[n] = log[n]
        /\ \A n \in DOMAIN more \ DOMAIN log : more[n] \notin DOMAIN Announced
    <2>1. /\ Len(log) \in Nat /\ Len(aside) \in Nat
          /\ DOMAIN log = 1..Len(log) /\ DOMAIN more = 1..(Len(log) + Len(aside))
          /\ DOMAIN aside = 1..Len(aside)
          /\ \A n \in 1..(Len(log) + Len(aside)) :
               more[n] = IF n <= Len(log) THEN log[n] ELSE aside[n - Len(log)]
      OBVIOUS
    <2>2. \A n \in DOMAIN aside : aside[n] \notin DOMAIN Announced
      OBVIOUS
    <2> HIDE DEF more
    <2> QED BY <2>1, <2>2
  <1> HIDE DEF more
  <1>2. Life(more) = Life(log) /\ \A n \in Life(log) : more[n] = log[n]
    BY <1>1 DEF Life
  <1>3. Tells(more, status, resume)
    BY <1>2 DEF Tells
  <1> QED BY <1>3 DEF more

(* The log tells unknown outcomes, one each. *)
UnknownTold(log) == Cardinality(Counted(log, {"attempt.outcome_unknown"}))

UnknownMade(journal) == Cardinality({n \in DOMAIN journal : journal[n].status = "outcome_unknown"})

LEMMA CountsAreFinite ==
  ASSUME NEW S, NEW s \in Seq(S), NEW T
  PROVE  IsFiniteSet(Counted(s, T)) /\ Cardinality(Counted(s, T)) \in Nat
  <1>1. Counted(s, T) \subseteq 1..Len(s) /\ Len(s) \in Nat
    BY DEF Counted
  <1>2. IsFiniteSet(1..Len(s))
    BY <1>1, FS_Interval
  <1> QED BY <1>1, <1>2, FS_Subset, FS_CardinalityType

(* c events more. *)
LEMMA UnknownToldAside ==
  ASSUME NEW log \in Seq(Event), NEW c \in Nat
  PROVE  UnknownTold(log \o [n \in 1..c |-> "attempt.outcome_unknown"]) = UnknownTold(log) + c
  <1> DEFINE told == [n \in 1..c |-> "attempt.outcome_unknown"]
             new == (Len(log) + 1)..(Len(log) + c)
             T == {"attempt.outcome_unknown"}
  <1>1. told \in Seq(Event) /\ Len(told) = c
    BY EventNames
  <1>2. /\ Len(log) \in Nat /\ DOMAIN log = 1..Len(log)
        /\ DOMAIN (log \o told) = 1..(Len(log) + c)
        /\ \A n \in 1..(Len(log) + c) :
             (log \o told)[n] = IF n <= Len(log) THEN log[n] ELSE told[n - Len(log)]
    <2> HIDE DEF told
    <2> QED BY <1>1
  <1>3. Counted(log \o told, T) = Counted(log, T) \cup new /\ Counted(log, T) \cap new = {}
    BY <1>2 DEF Counted
  <1>4. IsFiniteSet(new) /\ Cardinality(new) = c
    <2>1. Len(log) + 1 \in Int /\ Len(log) + c \in Int
      BY <1>2
    <2>2. /\ IsFiniteSet(new)
          /\ Cardinality(new) = IF Len(log) + 1 > Len(log) + c THEN 0
                                ELSE (Len(log) + c) - (Len(log) + 1) + 1
      BY <2>1, FS_Interval
    <2> HIDE DEF new
    <2> QED BY <1>2, <2>2
  <1>5. IsFiniteSet(Counted(log, T)) /\ Cardinality(Counted(log, T)) \in Nat
    BY CountsAreFinite
  <1> HIDE DEF new, told, T
  <1>6. Cardinality(Counted(log \o told, T)) =
          Cardinality(Counted(log, T)) + Cardinality(new) - Cardinality(Counted(log, T) \cap new)
    BY <1>3, <1>4, <1>5, FS_Union
  <1>7. Cardinality(Counted(log, T) \cap new) = 0
    BY <1>3, FS_EmptySet
  <1> QED BY <1>4, <1>5, <1>6, <1>7 DEF UnknownTold, told, T

(* One event more. *)
LEMMA UnknownToldMore ==
  ASSUME NEW log \in Seq(Event), NEW type \in Event
  PROVE  UnknownTold(Append(log, type)) =
           UnknownTold(log) + (IF type = "attempt.outcome_unknown" THEN 1 ELSE 0)
  BY OneMore DEF UnknownTold

(* One unknown outcome more, or several. *)
LEMMA UnknownMadeMore ==
  ASSUME NEW journal \in Seq(AttemptRow), NEW after, NEW made,
         DOMAIN after = DOMAIN journal,
         made = {n \in DOMAIN journal : /\ journal[n].status # "outcome_unknown"
                                        /\ after[n].status = "outcome_unknown"},
         \A n \in DOMAIN journal : journal[n].status = "outcome_unknown" =>
           after[n].status = "outcome_unknown"
  PROVE  /\ IsFiniteSet(made) /\ Cardinality(made) \in Nat /\ UnknownMade(journal) \in Nat
         /\ UnknownMade(after) = UnknownMade(journal) + Cardinality(made)
  <1> DEFINE before == {n \in DOMAIN journal : journal[n].status = "outcome_unknown"}
             now == {n \in DOMAIN after : after[n].status = "outcome_unknown"}
  <1>1. Len(journal) \in Nat /\ DOMAIN journal = 1..Len(journal)
    OBVIOUS
  <1>2. IsFiniteSet(1..Len(journal))
    BY <1>1, FS_Interval
  <1>3. before \subseteq 1..Len(journal) /\ made \subseteq 1..Len(journal)
    BY <1>1
  <1>4. now = before \cup made /\ before \cap made = {}
    OBVIOUS
  <1> HIDE DEF before, now
  <1>5. IsFiniteSet(before) /\ IsFiniteSet(made)
    BY <1>2, <1>3, FS_Subset
  <1>6. Cardinality(before) \in Nat /\ Cardinality(made) \in Nat
    BY <1>5, FS_CardinalityType
  <1>7. Cardinality(now) = Cardinality(before) + Cardinality(made) - Cardinality(before \cap made)
    BY <1>4, <1>5, FS_Union
  <1>8. Cardinality(before \cap made) = 0
    BY <1>4, FS_EmptySet
  <1> QED BY <1>5, <1>6, <1>7, <1>8 DEF UnknownMade, before, now

-----------------------------------------------------------------------------
(* The event log of a run *)

LogOf(r) ==
  /\ Tells(events[r], runs[r].status, runs[r].resume)
  /\ UnknownMade(attempts[r]) = UnknownTold(events[r])
  /\ runs[r].status \in {"queued", "running"} => ~runs[r].resume

LEMMA StepKeepsLog ==
  ASSUME NEW r \in Run, Whole(r), StepOf(r), LogOf(r)
  PROVE  LogOf(r)'
  <1>0. /\ runs[r] \in RunRow /\ attempts[r] \in Seq(AttemptRow) /\ events[r] \in Seq(Event)
        /\ BlankRun(r)
    BY DEF Whole, TypedRun
  (* A transition that leaves the journal alone. *)
  <1>1. ASSUME NEW type \in DOMAIN Announced, Told(r, type), runs[r].status \notin Terminal,
               attempts'[r] = attempts[r], runs'[r].status = Announced[type],
               runs'[r].status = "interrupted" =>
                 (runs'[r].resume <=> type = "run.resume_requested"),
               runs'[r].status \in {"queued", "running"} => ~runs'[r].resume
        PROVE  LogOf(r)'
    <2>1. Tells(events'[r], runs'[r].status, runs'[r].resume)
      BY <1>0, <1>1, TellsTransition DEF LogOf, Told
    <2>2. UnknownTold(events'[r]) = UnknownTold(events[r])
      <3>1. type \in Event /\ type # "attempt.outcome_unknown"
        BY EventNames
      <3>2. UnknownTold(events[r]) \in Nat
        BY <1>0, CountsAreFinite DEF UnknownTold
      <3>3. UnknownTold(events'[r]) = UnknownTold(events[r]) + 0
        BY <1>0, <1>1, <3>1, UnknownToldMore DEF Told
      <3> QED BY <3>2, <3>3
    <2> QED BY <1>1, <2>1, <2>2 DEF LogOf
  (* A step that tells nothing and changes no status. *)
  <1>2. ASSUME Untold(r), runs'[r].status = runs[r].status, runs'[r].resume = runs[r].resume,
               UnknownMade(attempts'[r]) = UnknownMade(attempts[r])
        PROVE  LogOf(r)'
    BY <1>2 DEF LogOf, Untold
  <1>3. CASE CreateStep(r)
    <2>1. /\ runs'[r].status = "queued" /\ ~runs'[r].resume /\ runs[r].status \notin Terminal
          /\ attempts'[r] = attempts[r] /\ Told(r, "run.queued")
      BY <1>3, Statuses DEF CreateStep, NoRun, SameWork
    <2> QED BY <1>1, <2>1, EventNames
  <1>4. CASE EndStep(r)
    <2> PICK status \in Terminal, type \in DOMAIN Announced :
          Announced[type] = status /\ runs'[r] = Released(r, status) /\ Told(r, type)
      BY <1>4 DEF EndStep
    <2>1. /\ runs'[r].status = status /\ runs[r].status \notin Terminal
          /\ attempts'[r] = attempts[r]
          /\ status \notin {"interrupted", "queued", "running"}
      BY <1>0, <1>4, Statuses DEF EndStep, Released, RunRow, SameWork, Terminal, Answered
    <2> QED BY <1>1, <2>1
  <1>5. CASE ResumeStep(r)
    <2>1. /\ runs'[r].status = "interrupted" /\ runs'[r].resume
          /\ runs[r].status \notin Terminal /\ attempts'[r] = attempts[r]
          /\ Told(r, "run.resume_requested")
      BY <1>0, <1>5 DEF ResumeStep, RunRow, SameWork, Terminal, Answered
    <2> QED BY <1>1, <2>1, EventNames
  <1>6. CASE ClaimStep(r)
    <2> DEFINE type == IF runs[r].status = "queued" THEN "run.started" ELSE "run.resumed"
    <2>1. /\ runs'[r].status = "running" /\ ~runs'[r].resume
          /\ attempts'[r] = attempts[r] /\ Told(r, type)
      BY <1>0, <1>6 DEF ClaimStep, RunRow, SameWork
    <2>2. runs[r].status \notin Terminal
      BY <1>6 DEF ClaimStep, Claimable, Terminal, Answered
    <2>3. type \in DOMAIN Announced /\ Announced[type] = "running"
      BY EventNames
    <2> HIDE DEF type
    <2> QED BY <1>1, <2>1, <2>2, <2>3
  <1>7. CASE RecoverStep(r)
    <2> DEFINE c == Cardinality(NewlyUnknown(r))
               told == [n \in 1..c |-> "attempt.outcome_unknown"]
               aside == events[r] \o told
    <2>1. /\ runs'[r].status = "interrupted" /\ runs'[r].resume = runs[r].resume
          /\ runs[r].status = "running" /\ runs[r].resume = FALSE
          /\ events'[r] = aside \o <<"run.interrupted">>
      BY <1>0, <1>7 DEF RecoverStep, Released, RunRow, Stale, LogOf
    <2>2. c \in Nat /\ UnknownMade(attempts'[r]) = UnknownMade(attempts[r]) + c
      <3>1. /\ DOMAIN attempts'[r] = DOMAIN attempts[r]
            /\ NewlyUnknown(r) = {n \in DOMAIN attempts[r] :
                                    /\ attempts[r][n].status # "outcome_unknown"
                                    /\ attempts'[r][n].status = "outcome_unknown"}
        BY <1>7, RecoveredAttempts DEF NewlyUnknown
      <3>2. \A n \in DOMAIN attempts[r] : attempts[r][n].status = "outcome_unknown" =>
              attempts'[r][n].status = "outcome_unknown"
        BY <1>7, RecoveredAttempts DEF Reconciled
      <3> QED BY <1>0, <3>1, <3>2, UnknownMadeMore
    <2>3. told \in Seq(Event \ DOMAIN Announced) /\ told \in Seq(Event)
      <3>1. "attempt.outcome_unknown" \in Event \ DOMAIN Announced
        BY EventNames
      <3> HIDE DEF c
      <3> QED BY <2>2, <3>1
    <2>4. Tells(aside, runs[r].status, runs[r].resume)
      <3>1. runs[r].status \notin Terminal /\ runs[r].status # "absent"
        BY <2>1, Statuses
      <3> HIDE DEF told
      <3> QED BY <1>0, <2>3, <3>1, TellsAside DEF LogOf
    <2>5. UnknownTold(aside) = UnknownTold(events[r]) + c
      BY <1>0, <2>2, UnknownToldAside
    <2>6. aside \in Seq(Event) /\ "run.interrupted" \in Event
      BY <1>0, <2>3, EventNames
    <2> HIDE DEF told, c, aside
    <2>7. events'[r] = Append(aside, "run.interrupted")
      BY <2>1, <2>6
    <2>8. Tells(events'[r], "interrupted", FALSE)
      <3>1. runs[r].status \notin Terminal
        BY <2>1, Statuses
      <3>2. Announced["run.interrupted"] = "interrupted" /\ "run.interrupted" \in DOMAIN Announced
        BY EventNames
      <3> QED BY <2>4, <2>6, <2>7, <3>1, <3>2, TellsTransition
    <2>9. UnknownTold(events'[r]) = UnknownTold(aside)
      <3>1. UnknownTold(aside) \in Nat
        BY <2>6, CountsAreFinite DEF UnknownTold
      <3>2. UnknownTold(events'[r]) = UnknownTold(aside) + 0
        BY <2>6, <2>7, UnknownToldMore
      <3> QED BY <3>1, <3>2
    <2>10. Tells(events'[r], runs'[r].status, runs'[r].resume)
      BY <2>1, <2>8
    <2>11. UnknownMade(attempts'[r]) = UnknownTold(events'[r])
      BY <2>2, <2>5, <2>9 DEF LogOf
    <2> QED BY <2>1, <2>10, <2>11 DEF LogOf
  <1>8. CASE ReserveStep(r)
    <2> PICK op \in Operation :
         attempts'[r] = Append(attempts[r],
              [operation |-> op, epoch |-> runs[r].epoch, status |-> "reserved"])
      BY <1>8, Zenon DEF ReserveStep
    <2>1. {n \in DOMAIN attempts'[r] : attempts'[r][n].status = "outcome_unknown"} =
            {n \in DOMAIN attempts[r] : attempts[r][n].status = "outcome_unknown"}
      BY <1>0
    <2>2. UnknownMade(attempts'[r]) = UnknownMade(attempts[r])
      BY <2>1 DEF UnknownMade
    <2> QED BY <1>2, <1>8, <2>2 DEF ReserveStep, SameRow
  <1>9. CASE DispatchStep(r)
    <2>1. {n \in DOMAIN attempts'[r] : attempts'[r][n].status = "outcome_unknown"} =
            {n \in DOMAIN attempts[r] : attempts[r][n].status = "outcome_unknown"}
      BY <1>9, RewrittenAttempts DEF DispatchStep
    <2>2. UnknownMade(attempts'[r]) = UnknownMade(attempts[r])
      BY <2>1 DEF UnknownMade
    <2> QED BY <1>2, <1>9, <2>2 DEF DispatchStep, SameRow
  <1>10. CASE FinishStep(r)
    <2> PICK n \in DOMAIN attempts[r], status \in {"succeeded", "failed", "outcome_unknown"} :
          /\ attempts[r][n].status = "dispatched" /\ Rewritten(r, n, status)
          /\ IF status = "outcome_unknown" THEN Told(r, "attempt.outcome_unknown") ELSE Untold(r)
      BY <1>10 DEF FinishStep
    <2>0. runs'[r] = runs[r] /\ runs[r].status = "running"
      BY <1>10 DEF FinishStep, SameRow
    <2>1. CASE status = "outcome_unknown"
      <3>5. events'[r] = Append(events[r], "attempt.outcome_unknown")
        BY <2>1 DEF Told
      <3>1. events'[r] = events[r] \o <<"attempt.outcome_unknown">>
              /\ events'[r] = Append(events[r], "attempt.outcome_unknown")
        <4>1. "attempt.outcome_unknown" \in Event
          BY EventNames
        <4>2. events[r] \o <<"attempt.outcome_unknown">> =
                Append(events[r], "attempt.outcome_unknown")
          BY <1>0, <4>1
        <4> QED BY <3>5, <4>2
      <3>2. Tells(events'[r], runs'[r].status, runs'[r].resume)
        <4>1. <<"attempt.outcome_unknown">> \in Seq(Event \ DOMAIN Announced)
          BY EventNames
        <4>2. runs[r].status \notin Terminal /\ runs[r].status # "absent"
          BY <2>0, Statuses
        <4> QED BY <1>0, <2>0, <3>1, <4>1, <4>2, TellsAside DEF LogOf
      <3>3. UnknownTold(events'[r]) = UnknownTold(events[r]) + 1
        BY <1>0, <3>1, UnknownToldMore, EventNames
      <3>4. UnknownMade(attempts'[r]) = UnknownMade(attempts[r]) + 1
        <4> DEFINE made == {m \in DOMAIN attempts[r] :
                              /\ attempts[r][m].status # "outcome_unknown"
                              /\ attempts'[r][m].status = "outcome_unknown"}
        <4>1. made = {n}
          BY <2>1, RewrittenAttempts
        <4>2. /\ DOMAIN attempts'[r] = DOMAIN attempts[r]
              /\ \A m \in DOMAIN attempts[r] : attempts[r][m].status = "outcome_unknown" =>
                   attempts'[r][m].status = "outcome_unknown"
          BY <2>1, RewrittenAttempts
        <4>5. made = {m \in DOMAIN attempts[r] : /\ attempts[r][m].status # "outcome_unknown"
                                                 /\ attempts'[r][m].status = "outcome_unknown"}
          OBVIOUS
        <4> HIDE DEF made
        <4>3. UnknownMade(attempts'[r]) = UnknownMade(attempts[r]) + Cardinality(made)
          <5>1. attempts[r] \in Seq(AttemptRow)
            BY <1>0
          <5> QED BY <4>2, <4>5, <5>1, UnknownMadeMore, Zenon
        <4> QED BY <4>1, <4>3, FS_Singleton
      <3> QED BY <2>0, <3>2, <3>3, <3>4 DEF LogOf
    <2>2. CASE status # "outcome_unknown"
      <3>1. {m \in DOMAIN attempts'[r] : attempts'[r][m].status = "outcome_unknown"} =
              {m \in DOMAIN attempts[r] : attempts[r][m].status = "outcome_unknown"}
        BY <2>2, RewrittenAttempts
      <3>2. UnknownMade(attempts'[r]) = UnknownMade(attempts[r])
        BY <3>1 DEF UnknownMade
      <3> QED BY <1>2, <2>0, <2>2, <3>2
    <2> QED BY <2>1, <2>2
  <1>11. CASE StageStep(r)
    <2>1. events'[r] = events[r] \o <<"stage">> /\ events'[r] = Append(events[r], "stage")
      BY <1>0, <1>11 DEF StageStep, Told
    <2>2. /\ runs'[r] = runs[r] /\ runs[r].status = "running" /\ attempts'[r] = attempts[r]
      BY <1>11 DEF StageStep, SameRow, SameWork
    <2>3. <<"stage">> \in Seq(Event \ DOMAIN Announced) /\ "stage" \in Event
      BY EventNames
    <2>4. runs[r].status \notin Terminal /\ runs[r].status # "absent"
      BY <2>2, Statuses
    <2>5. Tells(events'[r], runs'[r].status, runs'[r].resume)
      BY <1>0, <2>1, <2>2, <2>3, <2>4, TellsAside DEF LogOf
    <2>6. UnknownTold(events[r]) \in Nat
      BY <1>0, CountsAreFinite DEF UnknownTold
    <2>7. UnknownTold(events'[r]) = UnknownTold(events[r]) + 0
      BY <1>0, <2>1, <2>3, UnknownToldMore
    <2> QED BY <2>2, <2>5, <2>6, <2>7 DEF LogOf
  <1>12. CASE AgeStep(r)
    BY <1>0, <1>2, <1>12 DEF AgeStep, SameWork, RunRow
  <1>13. CASE OverdueStep(r)
    BY <1>0, <1>2, <1>13 DEF OverdueStep, SameWork, RunRow
  <1>14. CASE BindStep(r)
    BY <1>0, <1>2, <1>14 DEF BindStep, RunRow
  <1>15. CASE QuietStep(r) \/ SearchStep(r) \/ SaveStep(r)
    BY <1>2, <1>15 DEF QuietStep, SearchStep, SaveStep, SameRow, SameWork
  <1> QED BY <1>3, <1>4, <1>5, <1>6, <1>7, <1>8, <1>9, <1>10, <1>11, <1>12, <1>13, <1>14, <1>15
          DEF StepOf

Logged == \A r \in Run : LogOf(r)

LEMMA LoggedIsInductive ==
  /\ RunInit => Logged
  /\ Typed /\ Logged /\ [RunNext]_runVars => Logged'
  <1>1. ASSUME RunInit, NEW r \in Run PROVE LogOf(r)
    <2>1. /\ runs[r].status = "absent" /\ events[r] = <<>> /\ attempts[r] = <<>>
      BY <1>1 DEF RunInit, NoRun
    <2>2. Tells(events[r], runs[r].status, runs[r].resume)
      BY <2>1 DEF Tells, Life
    <2>3. UnknownMade(attempts[r]) = 0 /\ UnknownTold(events[r]) = 0
      <3>1. /\ {n \in DOMAIN attempts[r] : attempts[r][n].status = "outcome_unknown"} = {}
            /\ Counted(events[r], {"attempt.outcome_unknown"}) = {}
        BY <2>1 DEF Counted
      <3> QED BY <3>1, FS_EmptySet DEF UnknownMade, UnknownTold
    <2> QED BY <2>1, <2>2, <2>3 DEF LogOf
  <1>2. Typed /\ Logged /\ [RunNext]_runVars => Logged'
    <2> SUFFICES ASSUME Typed, Logged, [RunNext]_runVars, NEW r \in Run PROVE LogOf(r)'
      BY DEF Logged
    <2>1. Whole(r) /\ StepOf(r) /\ LogOf(r)
      BY RunSteps, TypedByRun DEF StepKeeps, Logged
    <2> QED BY <2>1, StepKeepsLog
  <1> QED BY <1>1, <1>2 DEF Logged

LEMMA LogsTellTheState ==
  ASSUME Typed, Logged
  PROVE  EventsTellTheState
  <1> SUFFICES ASSUME NEW r \in Run
               PROVE  LET life == Occurrences(r, DOMAIN Announced)
                          last == CHOOSE n \in life : (n + 1 .. Len(events[r])) \cap life = {}
                      IN
                      /\ runs[r].status = IF life = {} THEN "absent" ELSE Announced[events[r][last]]
                      /\ runs[r].status = "interrupted" =>
                           (runs[r].resume <=> events[r][last] = "run.resume_requested")
                      /\ \A n \in life : Announced[events[r][n]] \in Terminal => n = Len(events[r])
                      /\ Cardinality(Attempts(r, {"outcome_unknown"}))
                           = Cardinality(Occurrences(r, {"attempt.outcome_unknown"}))
    BY DEF EventsTellTheState
  <1> DEFINE life == Occurrences(r, DOMAIN Announced)
             last == CHOOSE n \in life : (n + 1 .. Len(events[r])) \cap life = {}
  <1>0. LogOf(r) /\ events[r] \in Seq(Event)
    BY DEF Logged, Typed, RunTypeOK
  <1>1. life = Life(events[r])
    BY DEF Occurrences, Life
  <1>2. \A n \in life : n \in Nat /\ n <= Len(events[r]) /\ Len(events[r]) \in Nat
    BY <1>0 DEF Occurrences
  <1>3. Cardinality(Attempts(r, {"outcome_unknown"}))
          = Cardinality(Occurrences(r, {"attempt.outcome_unknown"}))
    <2>1. /\ Attempts(r, {"outcome_unknown"}) =
               {n \in DOMAIN attempts[r] : attempts[r][n].status = "outcome_unknown"}
          /\ Occurrences(r, {"attempt.outcome_unknown"}) =
               Counted(events[r], {"attempt.outcome_unknown"})
      BY DEF Attempts, Occurrences, Counted
    <2> QED BY <1>0, <2>1 DEF LogOf, UnknownMade, UnknownTold
  <1>4. \A n \in life : Announced[events[r][n]] \in Terminal => n = Len(events[r])
    BY <1>0, <1>1 DEF LogOf, Tells
  <1>5. CASE runs[r].status = "absent"
    <2>1. life = {}
      BY <1>0, <1>1, <1>5 DEF LogOf, Tells, Life
    <2> QED BY <1>3, <1>4, <1>5, <2>1
  <1>6. CASE runs[r].status # "absent"
    <2> PICK top \in life :
          /\ \A n \in life : n <= top
          /\ Announced[events[r][top]] = runs[r].status
          /\ runs[r].status = "interrupted" =>
               (runs[r].resume <=> events[r][top] = "run.resume_requested")
      BY <1>0, <1>1, <1>6 DEF LogOf, Tells
    <2> HIDE DEF life
    <2>1. (top + 1 .. Len(events[r])) \cap life = {}
      BY <1>2
    <2>2. \A n \in life : (n + 1 .. Len(events[r])) \cap life = {} => n = top
      BY <1>2
    <2>3. last = top
      BY <2>1, <2>2
    <2> QED BY <1>3, <1>4, <2>3 DEF life
  <1> QED BY <1>5, <1>6

(* A stream is closed with the whole log delivered, or at an interruption.  *)
LEMMA ClosedStreamsDelivered ==
  ASSUME Typed, Logged, NEW r \in Run, runs[r].status \in StreamEndStatus
  PROVE  StreamsDeliver(r)
  <1> SUFFICES ASSUME NEW cursor \in 0..Len(events[r]), NEW ahead \in 0..PageSize,
                      cursor + ahead <= Len(events[r])
               PROVE  \E page \in {ListEvents(r, cursor, cursor + ahead)} :
                        IF LastTurn(r, page, cursor + ahead)
                        THEN \/ cursor + ahead = Len(events[r])
                             \/ \E n \in DOMAIN page : page[n] = "run.interrupted"
                        ELSE cursor + ahead = Len(events[r]) => ahead > 0
    BY DEF StreamsDeliver
  <1> DEFINE page == ListEvents(r, cursor, cursor + ahead)
             log == events[r]
  <1>0. log \in Seq(Event) /\ Len(log) \in Nat /\ LogOf(r) /\ PageSize \in Nat
    BY PageSizeIsPositive DEF Typed, RunTypeOK, Logged
  <1>1. cursor \in Nat /\ ahead \in Nat /\ ahead <= PageSize
    BY <1>0
  <1>2. page = SubSeq(log, cursor + 1, cursor + ahead)
    BY <1>0, <1>1 DEF ListEvents
  <1>3. \A n \in DOMAIN page : n \in 1..ahead /\ cursor + n \in DOMAIN log /\ page[n] = log[cursor + n]
    <2> HIDE DEF page, log
    <2> QED BY <1>0, <1>1, <1>2 DEF log
  <1>4. ASSUME NEW n \in DOMAIN page, page[n] \in TerminalEvent, page[n] # "run.interrupted"
        PROVE  cursor + ahead = Len(log)
    <2>1. /\ page[n] \in DOMAIN Announced /\ Announced[page[n]] \in Terminal
      <3>1. page[n] \in {"answer.final", "run.completed_with_limits", "run.needs_clarification",
                         "run.failed", "run.cancelled"}
        BY <1>4 DEF TerminalEvent
      <3> QED BY <3>1, EventNames DEF Terminal, Answered
    <2>2. cursor + n = Len(log)
      BY <1>0, <1>3, <2>1 DEF LogOf, Tells, Life
    <2>3. n \in 1..ahead
      BY <1>3
    <2> HIDE DEF log, page
    <2> QED BY <1>0, <1>1, <2>2, <2>3 DEF log
  <1>5. AllDelivered(r, cursor + ahead) <=> cursor + ahead = Len(log)
    BY <1>0, <1>1 DEF AllDelivered
  <1> HIDE DEF page, log
  <1>6. IF LastTurn(r, page, cursor + ahead)
        THEN \/ cursor + ahead = Len(log)
             \/ \E n \in DOMAIN page : page[n] = "run.interrupted"
        ELSE cursor + ahead = Len(log) => ahead > 0
    BY <1>4, <1>5 DEF LastTurn
  <1> QED BY <1>6 DEF page, log

-----------------------------------------------------------------------------
(* The pages of a transcript *)

(* The page a number lies on. *)
LEMMA PageOf ==
  ASSUME NEW P \in Nat, P > 0, NEW i \in Nat
  PROVE  /\ i - (i % P) \in Nat /\ (i - (i % P)) % P = 0
         /\ i % P \in 0..(P - 1)
  <1> DEFINE q == i \div P
  <1>1. i % P \in 0..(P - 1) /\ q \in Nat
    OBVIOUS
  <1>2. i - (i % P) = P * q
    BY Z3T(20)
  <1> HIDE DEF q
  <1>3. (P * q) % P = 0 /\ P * q \in Nat
    BY <1>1
  <1> QED BY <1>1, <1>2, <1>3

(* A page starts where the one before ends, or later. *)
LEMMA PagesApart ==
  ASSUME NEW P \in Nat, P > 0, NEW a \in Nat, NEW b \in Nat, a % P = 0, b % P = 0, a < b
  PROVE  a + P <= b
  <1> DEFINE q == a \div P
             t == b \div P
  <1>1. a - (a % P) = P * q /\ b - (b % P) = P * t
    BY Z3T(20)
  <1>2. q \in Nat /\ t \in Nat
    OBVIOUS
  <1> HIDE DEF q, t
  <1>3. a = P * q /\ b = P * t
    BY <1>1
  <1>4. t - q >= 1
    <2>1. CASE t <= q
      <3>1. P * t <= P * q
        BY <1>2, <2>1
      <3> QED BY <1>3, <3>1
    <2> QED BY <1>2, <2>1
  <1>5. P * (t - q) >= P
    BY <1>2, <1>4
  <1>6. P * (t - q) = P * t - P * q
    BY <1>2
  <1> QED BY <1>3, <1>5, <1>6

(* What is left of a sequence after its first m elements. *)
LEMMA Suffix ==
  ASSUME NEW S, NEW t \in Seq(S), NEW m \in 0..Len(t)
  PROVE  /\ SubSeq(t, m + 1, Len(t)) \in Seq(S)
         /\ Len(SubSeq(t, m + 1, Len(t))) = Len(t) - m
         /\ DOMAIN SubSeq(t, m + 1, Len(t)) = 1..(Len(t) - m)
  <1>1. Len(t) \in Nat /\ m \in Nat /\ m <= Len(t)
    OBVIOUS
  <1>2. \A i \in 1..Len(t) : t[i] \in S
    OBVIOUS
  <1>3. SubSeq(t, m + 1, Len(t)) \in Seq(S)
    BY <1>1, <1>2
  <1>4. Len(SubSeq(t, m + 1, Len(t))) = Len(t) - m
    BY <1>1, <1>2
  <1>5. DOMAIN SubSeq(t, m + 1, Len(t)) = 1..(Len(t) - m)
    BY <1>1, <1>2
  <1> QED BY <1>3, <1>4, <1>5

LEMMA TranscriptsShowTurns ==
  ASSUME Typed, Turns, NEW s \in Session
  PROVE  TranscriptIsWhole(s)
  <1> DEFINE said == messages[s]
             starts == {n \in 0..Len(said) : n % PageSize = 0}
             reached == {n \in starts :
                           \A m \in starts : m < n => ListMessages(s, m).next = m + PageSize}
             shown == UNION {{m + n : n \in DOMAIN ListMessages(s, m).page} : m \in reached}
  <1>0. /\ said \in Seq(Message) /\ Len(said) \in Nat /\ DOMAIN said = 1..Len(said)
        /\ PageSize \in Nat /\ PageSize > 0
    BY PageSizeIsPositive DEF Typed, RunTypeOK
  <1>1. ASSUME NEW m \in 0..Len(said)
        PROVE  /\ m + PageSize < Len(said) =>
                    ListMessages(s, m).next = m + PageSize
               /\ \A n \in Nat : 1 <= n /\ n <= PageSize /\ m + n <= Len(said) =>
                    n \in DOMAIN ListMessages(s, m).page
    <2> DEFINE rows == SubSeq(said, m + 1, Len(said))
    <2>1. rows \in Seq(Message) /\ Len(rows) = Len(said) - m /\ DOMAIN rows = 1..(Len(said) - m)
      <3> HIDE DEF said
      <3> QED BY <1>0, <1>1, Suffix
    <2>2. ListMessages(s, m) =
            IF Len(rows) > PageSize
            THEN [page |-> SubSeq(rows, 1, PageSize), next |-> m + PageSize]
            ELSE [page |-> rows, next |-> None]
      BY DEF ListMessages
    <2> HIDE DEF rows, said
    <2>3. Len(rows) > PageSize => DOMAIN SubSeq(rows, 1, PageSize) = 1..PageSize
      BY <1>0, <2>1
    <2>4. m + PageSize < Len(said) => Len(rows) > PageSize
      BY <1>0, <2>1
    <2> QED BY <1>0, <2>1, <2>2, <2>3, <2>4
  <1>2. ASSUME NEW n \in DOMAIN said PROVE n \in shown
    <2> DEFINE i == n - 1
               m == i - (i % PageSize)
    <2>1. i \in Nat /\ n = i + 1 /\ n <= Len(said)
      BY <1>0
    <2> HIDE DEF i, said
    <2>2. m \in Nat /\ m % PageSize = 0 /\ i % PageSize \in 0..(PageSize - 1)
      BY <1>0, <2>1, PageOf
    <2>3. /\ m \in 0..Len(said) /\ m < Len(said)
          /\ 1 <= n - m /\ n - m <= PageSize /\ n - m \in Nat /\ m + (n - m) = n
      BY <1>0, <2>1, <2>2
    <2> HIDE DEF m
    <2>4. m \in reached
      <3>1. m \in starts
        BY <2>2, <2>3
      <3>2. ASSUME NEW l \in starts, l < m PROVE ListMessages(s, l).next = l + PageSize
        <4>1. l \in Nat /\ l % PageSize = 0 /\ l \in 0..Len(said)
          BY <1>0
        <4>2. l + PageSize <= m
          BY <1>0, <2>2, <3>2, <4>1, PagesApart
        <4>3. l + PageSize < Len(said)
          BY <1>0, <2>2, <2>3, <4>1, <4>2
        <4> QED BY <1>1, <4>1, <4>3
      <3> QED BY <3>1, <3>2
    <2>5. n - m \in DOMAIN ListMessages(s, m).page
      BY <1>0, <1>1, <2>1, <2>3
    <2> HIDE DEF reached
    <2> QED BY <2>3, <2>4, <2>5
  <1> HIDE DEF shown
  <1>3. ASSUME NEW r \in Run, runs[r].session = s
        PROVE  \E n \in shown :
                 /\ said[n] = [run |-> r, role |-> "user"]
                 /\ runs[r].status \in Answered =>
                      n + 1 \in shown /\ said[n + 1] = [run |-> r, role |-> "assistant"]
    <2>1. runs[r].status # "absent"
      BY <1>3, AbsentIsSilent DEF Turns
    <2>2. PICK n \in DOMAIN said : said[n] = Question(r)
      BY <1>3, <2>1 DEF Turns, QuestionsAsked
    <2>3. ASSUME runs[r].status \in Answered
          PROVE  n + 1 \in DOMAIN said /\ said[n + 1] = Answer(r)
      <3>1. PICK a \in DOMAIN said : said[a] = Answer(r)
        BY <1>3, <2>3 DEF Turns, AnswersGiven
      <3>2. a - 1 \in DOMAIN said /\ said[a - 1] = Question(r)
        BY <3>1 DEF Turns, AnswersFollow
      <3>3. a - 1 = n
        BY <2>2, <3>2 DEF Turns, Spoken
      <3>4. a = n + 1
        BY <1>0, <3>1, <3>3
      <3> QED BY <3>1, <3>4
    <2> QED BY <1>2, <2>2, <2>3 DEF Question, Answer
  <1> QED BY <1>3 DEF TranscriptIsWhole, shown

(* The last lifecycle event announces the status, every unknown outcome is  *)
(* told, a stream is closed only when all of this has been delivered, and   *)
(* the pages of a transcript show every turn (_transition_with_event,       *)
(* app.stream_run_events, RunService.list_events, list_messages).           *)
THEOREM EventsAreAlwaysDelivered == RunSpec => []EventsAreDelivered
  <1>1. Typed /\ Turns /\ Logged => EventsAreDelivered
    BY LogsTellTheState, ClosedStreamsDelivered, TranscriptsShowTurns DEF EventsAreDelivered
  <1> QED BY <1>1, TypedIsInductive, TurnsAreInductive, LoggedIsInductive, PTL DEF RunSpec

-----------------------------------------------------------------------------
(* The constraints of the tables *)

(* A run continues another one that was there before it. *)
Descends ==
  \A r \in Run : runs[r].status # "absent" =>
    /\ runs[r].parent # r
    /\ runs[r].parent # None => runs[runs[r].parent].status # "absent"

LEMMA DescendsIsInductive ==
  /\ RunInit => Descends
  /\ Typed /\ Descends /\ [RunNext]_runVars => Descends'
  <1>1. RunInit => Descends
    BY DEF RunInit, Descends, NoRun
  <1>2. ASSUME Typed, Descends, [RunNext]_runVars PROVE Descends'
    <2>0. /\ runs \in [Run -> RunRow]
          /\ \A r \in Run : runs[r].parent \in Run \cup {None}
      BY <1>2 DEF Typed, RunTypeOK, RunRow
    <2>1. CASE AskStep
      <3> PICK r \in Run, s \in Session, k \in Key, body \in Body, parent \in Run \cup {None} :
            CreateRun(r, s, k, body, parent)
        BY <2>1 DEF AskStep
      <3>1. /\ runs'[r].status = "queued" /\ runs'[r].parent = parent
            /\ \A q \in Run \ {r} : runs'[q] = runs[q]
            /\ runs[r].status = "absent"
            /\ parent # None => runs[parent].status \in Answered
        BY <2>0 DEF CreateRun, Transition, NoRun
      <3> QED BY <1>2, <2>0, <3>1, Statuses, NullIsNoRow DEF Descends
    <2>2. CASE AnswerStep
      <3> PICK r \in Run, w \in Worker, e \in Nat, status \in Answered :
            PublishTerminalResult(r, w, e, status)
        BY <2>2 DEF AnswerStep
      <3>1. \A q \in Run : /\ runs'[q].parent = runs[q].parent
                           /\ runs'[q].status = "absent" <=> runs[q].status = "absent"
        BY <2>0, Statuses
           DEF PublishTerminalResult, WorkerLease, Transition, Released, RunRow
      <3> QED BY <1>2, <2>0, <3>1 DEF Descends
    <2>3. CASE SilentStep
      <3>1. \A q \in Run : /\ runs'[q].parent = runs[q].parent
                           /\ runs'[q].status = "absent" <=> runs[q].status = "absent"
        BY <2>3 DEF SilentStep, SameSpeaker
      <3> QED BY <1>2, <2>0, <3>1 DEF Descends
    <2> QED BY <1>2, <2>1, <2>2, <2>3, TalkSteps
  <1> QED BY <1>1, <1>2

(* The rows of every state keep the constraints. *)
LEMMA TablesAcceptRows ==
  ASSUME Typed, Turns, KeysBound, JournalIsComplete, Descends
  PROVE  TablesAccepted
  <1>1. RunTypeOK
    BY DEF Typed
  <1>2. RunsAccepted
    <2>1. ASSUME NEW s \in Session PROVE Cardinality(ActiveIn(s)) <= 1
      <3>1. CASE ActiveIn(s) = {}
        BY <3>1, FS_EmptySet
      <3>2. ASSUME NEW r \in ActiveIn(s) PROVE Cardinality(ActiveIn(s)) <= 1
        <4>1. \A q \in ActiveIn(s) : q = r
          BY <3>2, TurnsAreAConversation DEF OneConversation, ActiveIn
        <4>2. ActiveIn(s) = {r}
          BY <3>2, <4>1
        <4>3. Cardinality({r}) = 1
          BY FS_Singleton, Zenon
        <4> QED BY <4>2, <4>3
      <3> QED BY <3>1, <3>2
    <2>2. \A r \in Run : runs[r].status # "absent" => runs[r].session # None
      BY NullIsNoRow DEF Turns, QuestionsAsked
    <2> QED BY <2>1, <2>2 DEF RunsAccepted, Descends
  <1>3. ASSUME NEW r \in Run PROVE LedgerAccepted(r)
    <2>1. Accounts(r) /\ ledger[r] \in Spending
      BY JournalByRun, TypedByRun DEF Whole, TypedRun
    <2>2. /\ ledger[r].rounds \in Nat /\ ledger[r].queries \in Nat
          /\ \A k \in OperationKind : ledger[r].used[k] \in Nat
      BY <2>1 DEF Spending
    <2>3. \A k \in OperationKind : ledger[r].used[k] <= MaxUsed[k] /\ MaxUsed[k] \in Nat
      BY <2>1, RunLimits DEF Accounts
    <2>4. /\ ledger[r].rounds <= MaxRounds
          /\ ledger[r].queries <= ledger[r].rounds * MaxQueries
          /\ MaxRounds \in Nat /\ MaxQueries \in Nat
      BY <2>1, RunLimits DEF Accounts
    <2>5. ledger[r].rounds * MaxQueries <= MaxRounds * MaxQueries
      BY <2>2, <2>4
    <2>6. ledger[r].queries <= MaxRounds * MaxQueries
      <3>1. ledger[r].rounds * MaxQueries \in Nat /\ MaxRounds * MaxQueries \in Nat
        BY <2>2, <2>4
      <3> QED BY <2>2, <2>4, <2>5, <3>1
    <2>7. MaxRounds * MaxQueries \in Nat
      BY <2>4
    <2> QED BY <2>2, <2>3, <2>4, <2>6, <2>7 DEF LedgerAccepted
  <1>4. ASSUME NEW s \in Session PROVE MessagesAccepted(s) /\ KeysAccepted(s)
    <2>1. MessagesAccepted(s)
      BY DEF MessagesAccepted, Turns, Spoken
    <2>2. \A k \in Key : keys[s][k].run # None => keys[s][k] # NoKey
      BY DEF NoKey
    <2> QED BY <2>1, <2>2 DEF KeysAccepted, KeysBound
  <1>5. ASSUME ~DowngradeRefused, NEW r \in Run PROVE M4Accepted(r)
    <2>0. runs[r] \in RunRow /\ events[r] \in Seq(Event)
      BY TypedByRun DEF Whole, TypedRun
    <2>1. runs[r].status \in M4Status \cup {"absent"}
      <3>1. runs[r].status \in RunStatus
        BY <2>0 DEF RunRow
      <3>2. runs[r].status \notin {"completed_with_limits", "needs_clarification"}
        BY <1>5 DEF DowngradeRefused
      <3> QED BY <3>1, <3>2 DEF RunStatus, Active, Terminal, Answered, M4Status
    <2>2. ASSUME NEW n \in DOMAIN events[r] PROVE events[r][n] \in M4Event
      <3>1. events[r][n] \in Event
        BY <2>0
      <3>2. events[r][n] \notin {"run.resume_requested", "run.resumed", "attempt.outcome_unknown",
                                 "run.completed_with_limits", "run.needs_clarification"}
        BY <1>5 DEF DowngradeRefused
      <3> QED BY <3>1, <3>2, EventNames DEF M4Event
    <2> QED BY <2>1, <2>2 DEF M4Accepted
  <1> QED BY <1>1, <1>2, <1>3, <1>4, <1>5 DEF TablesAccepted

-----------------------------------------------------------------------------
(* The columns that a statement writes with a status *)

(* mark_attempt_dispatched *)
LEMMA DispatchAccepted ==
  ASSUME NEW filled \in SUBSET Columns, AttemptAccepted("reserved", filled)
  PROVE  AttemptAccepted("dispatched", Dispatches(filled))
  BY DEF AttemptAccepted, Dispatches, Columns, Result, Reason

(* finish_attempt *)
LEMMA FinishAccepted ==
  ASSUME NEW filled \in SUBSET Columns, AttemptAccepted("dispatched", filled),
         NEW status \in {"succeeded", "failed", "outcome_unknown"}
  PROVE  AttemptAccepted(status, Finishes(filled, status))
  BY DEF AttemptAccepted, Finishes, Columns, Result, Reason

(* recover_stale_runs *)
LEMMA RecoverAccepted ==
  ASSUME NEW filled \in SUBSET Columns, NEW old, NEW new, AttemptAccepted(old, filled),
         \/ old = "reserved" /\ new = "abandoned_before_dispatch"
         \/ old \in {"dispatched", "succeeded"} /\ new = "outcome_unknown"
  PROVE  AttemptAccepted(new, Recovers(filled))
  <1>1. CASE old = "reserved" /\ new = "abandoned_before_dispatch"
    BY <1>1 DEF AttemptAccepted, Recovers, Columns, Result, Reason
  <1>2. CASE old \in {"dispatched", "succeeded"} /\ new = "outcome_unknown"
    BY <1>2 DEF AttemptAccepted, Recovers, Columns, Result, Reason
  <1> QED BY <1>1, <1>2

LEMMA StepsWriteColumns ==
  ASSUME Typed, StepKeeps
  PROVE  ColumnsAccepted
  <1>1. ASSUME NEW r \in Run, runs'[r].status # runs[r].status, NEW finished \in BOOLEAN,
               RunAccepted(runs[r].status, finished)
        PROVE  RunAccepted(runs'[r].status, Finished(r, finished))
    <2>1. runs[r].status \notin Terminal
      BY <1>1, StepsKeepEnds DEF EndsStay
    <2> QED BY <1>1, <2>1 DEF RunAccepted, Finished
  <1>2. ASSUME NEW r \in Run, NEW n \in DOMAIN attempts'[r], n \notin DOMAIN attempts[r]
        PROVE  AttemptAccepted(attempts'[r][n].status, {})
    <2>0. Whole(r) /\ attempts[r] \in Seq(AttemptRow) /\ StepOf(r)
      BY TypedByRun DEF StepKeeps, Whole, TypedRun
    <2>1. DOMAIN attempts'[r] # DOMAIN attempts[r]
      BY <1>2
    <2>2. ReserveStep(r)
      BY <2>0, <2>1, RecoveredAttempts, RewrittenAttempts
         DEF StepOf, QuietStep, CreateStep, EndStep, ResumeStep, ClaimStep, AgeStep, OverdueStep,
             SearchStep, DispatchStep, FinishStep, SaveStep, BindStep, StageStep, SameWork
    <2> PICK op \in Operation :
          attempts'[r] = Append(attempts[r],
            [operation |-> op, epoch |-> runs[r].epoch, status |-> "reserved"])
      BY <2>2, Zenon DEF ReserveStep
    <2>3. attempts'[r][n].status = "reserved"
      BY <1>2, <2>0
    <2> QED BY <2>3 DEF AttemptAccepted, Reason
  <1>3. ASSUME NEW r \in Run, NEW n \in DOMAIN attempts[r],
               attempts'[r][n].status # attempts[r][n].status,
               NEW filled \in SUBSET Columns, AttemptAccepted(attempts[r][n].status, filled)
        PROVE  AttemptAccepted(attempts'[r][n].status, Written(r, n, filled))
    <2> DEFINE old == attempts[r][n].status
               new == attempts'[r][n].status
    <2>0. Whole(r) /\ attempts[r] \in Seq(AttemptRow) /\ StepOf(r)
      BY TypedByRun DEF StepKeeps, Whole, TypedRun
    <2>1. RecoverStep(r) \/ DispatchStep(r) \/ FinishStep(r)
      <3>1. attempts'[r] # attempts[r]
        BY <1>3
      <3>2. ~ReserveStep(r)
        <4> SUFFICES ASSUME ReserveStep(r) PROVE FALSE
          OBVIOUS
        <4> PICK op \in Operation :
              attempts'[r] = Append(attempts[r],
                [operation |-> op, epoch |-> runs[r].epoch, status |-> "reserved"])
          BY Zenon DEF ReserveStep
        <4>1. attempts'[r][n] = attempts[r][n]
          BY <2>0
        <4> QED BY <1>3, <4>1
      <3> QED BY <2>0, <3>1, <3>2
              DEF StepOf, QuietStep, CreateStep, EndStep, ResumeStep, ClaimStep, AgeStep,
                  OverdueStep, SearchStep, SaveStep, BindStep, StageStep, SameWork
    <2>2. CASE RecoverStep(r)
      <3>1. Recovered(r)
        <4>1. runs[r].status = "running" /\ runs'[r].status = "interrupted"
          BY <2>0, <2>2 DEF RecoverStep, Stale, Released, Whole, TypedRun, RunRow
        <4> QED BY <4>1 DEF Recovered
      <3>2. new = Reconciled(r, n)
        BY <2>0, <2>2, RecoveredAttempts
      <3>3. \/ old = "reserved" /\ new = "abandoned_before_dispatch"
            \/ old \in {"dispatched", "succeeded"} /\ new = "outcome_unknown"
        BY <1>3, <3>2 DEF Reconciled
      <3>4. Written(r, n, filled) = Recovers(filled)
        BY <3>1, <3>3 DEF Written
      <3> HIDE DEF old, new
      <3>5. AttemptAccepted(new, Recovers(filled))
        <4>1. AttemptAccepted(old, filled)
          BY <1>3 DEF old
        <4> QED BY <3>3, <4>1, RecoverAccepted
      <3> QED BY <3>4, <3>5 DEF new
    <2>3. CASE DispatchStep(r) \/ FinishStep(r)
      <3>1. ~Recovered(r)
        BY <2>3 DEF DispatchStep, FinishStep, SameRow, Recovered
      <3>2. \/ old = "reserved" /\ new = "dispatched"
            \/ old = "dispatched" /\ new \in {"succeeded", "failed", "outcome_unknown"}
        BY <1>3, <2>0, <2>3, RewrittenAttempts DEF DispatchStep, FinishStep
      <3>3. Written(r, n, filled) =
              IF new = "dispatched" THEN Dispatches(filled) ELSE Finishes(filled, new)
        BY <3>1 DEF Written
      <3>4. AttemptAccepted(old, filled)
        BY <1>3
      <3> HIDE DEF old, new
      <3>5. AttemptAccepted(new, Written(r, n, filled))
        BY <3>2, <3>3, <3>4, DispatchAccepted, FinishAccepted
      <3> QED BY <3>5 DEF new
    <2> QED BY <2>1, <2>2, <2>3
  <1> QED BY <1>1, <1>2, <1>3 DEF ColumnsAccepted

(* PostgreSQL refuses no statement of the service, in whatever order calls  *)
(* and recovery come: what they write keeps the constraints of migrations   *)
(* 0005 and 0006 (RunService.finish_attempt, recover_stale_runs, ...).      *)
THEOREM TablesNeverRefuse == RunSpec => NeverRefused
  <1>1. /\ Typed /\ Typed' /\ Turns' /\ KeysBound' /\ JournalIsComplete' /\ Descends'
        /\ [RunNext]_runVars
        => [ColumnsAccepted /\ TablesAccepted']_runVars
    <2>1. Typed /\ [RunNext]_runVars => ColumnsAccepted
      BY RunSteps, StepsWriteColumns
    <2>2. Typed' /\ Turns' /\ KeysBound' /\ JournalIsComplete' /\ Descends' => TablesAccepted'
      <3>1. Typed /\ Turns /\ KeysBound /\ JournalIsComplete /\ Descends => TablesAccepted
        BY TablesAcceptRows
      <3> QED BY <3>1, PTL
    <2> QED BY <2>1, <2>2
  <1> QED BY <1>1, TypedIsInductive, TurnsAreInductive, KeysAreInductive, DescendsIsInductive,
             JournalStaysComplete, PTL DEF RunSpec, NeverRefused
=================================================================================
