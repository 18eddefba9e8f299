-------------------------- MODULE IngestionJob_proofs --------------------------
(* Theorems about IngestionJob, for every value of its constants: its      *)
(* processes keep to the transactions of JobStore, and the pointer, the    *)
(* last item and the job of an activation are never apart.                 *)
EXTENDS IngestionJob, JobStore_proofs

-----------------------------------------------------------------------------
(* The inductive invariant *)

(* What a task may know of the catalog: nothing, or the pointer once read.  *)
Reading == Catalog!Pointer \cup {None}

CatalogTyped ==
  /\ imports \in [Snapshot -> SUBSET Profile]
  /\ pointer \in Catalog!Pointer
  /\ history \in Seq(Catalog!Event)

Credited(j, i) == items[j][i].status = "succeeded"

(* Where a worker is in the stages of its job.                              *)
Stage == {"start", "mark", "claim", "act", "check again", "complete", "fail",
          "activate", "refused", "swap"}

(* The stages are credited in order: those before the one a worker is at.   *)
InOrder(w) ==
  task[w].pc \in Stage =>
    Step(w) \in Item /\ \A i \in Item : i < Step(w) => Credited(JobOf(w), i)

(* The last stage, and no other, goes through an activation.                *)
AtItsStage(w) ==
  /\ task[w].pc \in {"act", "check again", "complete"} => Step(w) # Activated
  /\ task[w].pc \in {"activate", "swap"} => Step(w) = Activated

(* A pointer that was seen at the target has been moved there.              *)
SwapKnown(w) ==
  task[w].pc = "swap" /\ Seen(w).snapshot = Target => Catalog!WasActive(Target)

FrameOK(w) ==
  /\ LeaseHeld(w) /\ InOrder(w) /\ AtItsStage(w) /\ SwapKnown(w)
  /\ task[w].pc # "succeed"

PointerWasMoved == pointer.snapshot # None => Catalog!WasActive(pointer.snapshot)

JobsMoveToTarget == \A n \in DOMAIN history : history[n].actor \in Job => history[n].target = Target

IngestInv ==
  /\ IInv /\ RequestsKnown
  /\ ServiceTyped(Reading)
  /\ CatalogTyped
  /\ \A w \in Worker : FrameOK(w)
  /\ PointerWasMoved
  /\ JobsMoveToTarget
  /\ ActivatedTogether

-----------------------------------------------------------------------------
(* What a step leaves to the others *)

CreditsStay == \A j \in Job, i \in Item : Credited(j, i) => Credited(j, i)'

EventsStay ==
  \A n \in DOMAIN history : n \in DOMAIN history' /\ history'[n] = history[n]

(* The catalog after a step in which no job moved the pointer.              *)
CatalogGrows ==
  /\ CatalogTyped' /\ EventsStay
  /\ \A p \in imports[Target] : p \in imports'[Target]
  /\ \A n \in DOMAIN history' : n \in DOMAIN history \/ history'[n].actor \notin Job
  /\ PointerWasMoved'

LEMMA EventsStayActive ==
  ASSUME EventsStay, NEW s, Catalog!WasActive(s)
  PROVE  Catalog!WasActive(s)'
  <1>1. PICK n \in DOMAIN history : history[n].target = s
    BY DEF Catalog!WasActive
  <1>2. n \in DOMAIN history' /\ history'[n].target = s
    BY <1>1 DEF EventsStay
  <1> QED BY <1>2 DEF Catalog!WasActive

(* A worker at rest keeps what it knows.                                    *)
LEMMA RestingKeeps ==
  ASSUME NEW v \in Worker, FrameOK(v), task'[v] = task[v], GrantsStay, CreditsStay, EventsStay
  PROVE  FrameOK(v)'
  <1>1. LeaseHeld(v)'
    BY LeaseStaysHeld DEF FrameOK
  <1>2. JobOf(v)' = JobOf(v) /\ Step(v)' = Step(v) /\ Seen(v)' = Seen(v)
    BY DEF JobOf, Step, Seen
  <1>3. InOrder(v)'
    <2>1. task[v].pc \in Stage => JobOf(v) \in Job
      BY DEF FrameOK, LeaseHeld, JobOf, Stage
    <2>2. ASSUME task[v].pc \in Stage, NEW i \in Item, i < Step(v)
          PROVE  Credited(JobOf(v), i)'
      <3>1. Credited(JobOf(v), i)
        BY <2>2 DEF FrameOK, InOrder
      <3>2. PICK j \in Job : j = JobOf(v)
        BY <2>1, <2>2
      <3>3. Credited(j, i)'
        BY <3>1, <3>2 DEF CreditsStay
      <3> QED BY <1>2, <3>2, <3>3 DEF Credited
    <2>3. task[v].pc \in Stage => Step(v) \in Item
      BY DEF FrameOK, InOrder
    <2> QED BY <1>2, <2>2, <2>3 DEF InOrder, Credited
  <1>4. AtItsStage(v)'
    BY <1>2 DEF FrameOK, AtItsStage
  <1>5. SwapKnown(v)'
    BY <1>2, EventsStayActive DEF FrameOK, SwapKnown
  <1> QED BY <1>1, <1>3, <1>4, <1>5 DEF FrameOK

(* A step in which no job moves the pointer or becomes a success.           *)
LEMMA QuietKeeps ==
  ASSUME IngestInv, [Next]_vars, CreditsStay, StageNotAhead', NoNewSuccess, CatalogGrows,
         ServiceTyped(Reading)', \A v \in Worker : FrameOK(v)'
  PROVE  IngestInv'
  <1>1. TypeOK /\ LeasePair /\ IInv' /\ RequestsKnown'
    BY StepInvariant, RequestsStay DEF IngestInv, IInv
  <1>2. \A n \in DOMAIN history' : history'[n].actor \in Job =>
          n \in DOMAIN history /\ history'[n] = history[n]
    BY DEF CatalogGrows, EventsStay
  <1>3. JobsMoveToTarget'
    BY <1>2 DEF IngestInv, JobsMoveToTarget
  <1>4. ASSUME NEW j \in Job
        PROVE  /\ MovedBy(j)' =>
                    /\ jobs'[j].status = "succeeded"
                    /\ Wanted \in imports'[Target]
                    /\ \A i \in Item : items'[j][i].status = "succeeded"
               /\ \A m, n \in DOMAIN history' :
                    history'[m].actor = j /\ history'[n].actor = j => m = n
               /\ jobs'[j].status = "succeeded" => Catalog!WasActive(Target)'
    <2>1. MovedBy(j)' => MovedBy(j)
      BY <1>2 DEF MovedBy
    <2>2. ASSUME MovedBy(j)
          PROVE  /\ jobs'[j].status = "succeeded"
                 /\ Wanted \in imports'[Target]
                 /\ \A i \in Item : items'[j][i].status = "succeeded"
      <3>1. /\ jobs[j].status = "succeeded" /\ Wanted \in imports[Target]
            /\ \A i \in Item : items[j][i].status = "succeeded"
        BY <2>2 DEF IngestInv, ActivatedTogether
      <3>2. jobs'[j] = jobs[j]
        BY <1>1, <3>1, EndsStay DEF Terminal
      <3> QED BY <3>1, <3>2 DEF CatalogGrows, CreditsStay, Credited
    <2>3. \A m, n \in DOMAIN history' :
            history'[m].actor = j /\ history'[n].actor = j => m = n
      BY <1>2 DEF IngestInv, ActivatedTogether
    <2>4. ASSUME jobs'[j].status = "succeeded" PROVE Catalog!WasActive(Target)'
      <3>1. Catalog!WasActive(Target)
        BY <2>4 DEF NoNewSuccess, IngestInv, ActivatedTogether
      <3> QED BY <3>1, EventsStayActive DEF CatalogGrows
    <2> QED BY <2>1, <2>2, <2>3, <2>4
  <1>5. ActivatedTogether'
    BY <1>4 DEF ActivatedTogether
  <1> QED BY <1>1, <1>3, <1>5 DEF IngestInv, CatalogGrows

(* What no transaction touches stays as it is.                              *)
LEMMA NothingWritten ==
  ASSUME UNCHANGED vars
  PROVE  [Next]_vars /\ CreditsStay /\ GrantsStay /\ NoNewSuccess
  BY DEF vars, CreditsStay, Credited, GrantsStay, NoNewSuccess

LEMMA NoMove ==
  ASSUME IngestInv, UNCHANGED catalogState
  PROVE  CatalogGrows
  BY DEF IngestInv, catalogState, CatalogGrows, CatalogTyped, EventsStay, PointerWasMoved,
         Catalog!WasActive

(* Stages and credits as they were keep the recorded stage behind.          *)
LEMMA StagesKept ==
  ASSUME StageNotAhead, CreditsStay, \A j \in Job : jobs'[j].stage = jobs[j].stage
  PROVE  StageNotAhead'
  BY DEF StageNotAhead, CreditsStay, Credited

LEMMA NoCreditIsQuiet ==
  ASSUME IngestInv, [Next]_vars, NoNewCredit
  PROVE  CreditsStay /\ GrantsStay /\ StageNotAhead'
  <1>1. CreditsStay /\ GrantsStay
    BY StepsKeepGrants DEF NoNewCredit, CreditsStay, Credited, IngestInv, IInv
  <1> QED BY <1>1, StagesKept DEF IngestInv, ActivatedTogether, NoNewCredit

(* A step of one worker.                                                    *)
LEMMA WorkerKeeps ==
  ASSUME IngestInv, NEW w \in Worker, [Next]_vars, CreditsStay, StageNotAhead', NoNewSuccess,
         CatalogGrows, OthersRest(w), UNCHANGED sender,
         task' \in [Worker -> TaskRow(Reading)], FrameOK(w)'
  PROVE  IngestInv'
  <1>1. GrantsStay /\ EventsStay
    BY StepsKeepGrants DEF IngestInv, IInv, CatalogGrows
  <1>2. ServiceTyped(Reading)'
    BY DEF IngestInv, ServiceTyped
  <1>3. \A v \in Worker : FrameOK(v)'
    BY <1>1, RestingKeeps DEF IngestInv, OthersRest
  <1> QED BY <1>2, <1>3, QuietKeeps

-----------------------------------------------------------------------------
(* Where a worker goes *)

(* On in its stage, or out of the work.                                     *)
LEMMA GoesOn ==
  ASSUME NEW w \in Worker, FrameOK(w), task[w].pc # "idle", GrantsStay, CreditsStay,
         SameClaim(w), task'[w].next = task[w].next,
         task'[w].pc # "succeed",
         task'[w].pc \in Stage => task[w].pc \in Stage,
         task'[w].pc \in {"act", "check again", "complete"} => Step(w) # Activated,
         task'[w].pc \in {"activate", "swap"} => Step(w) = Activated,
         SwapKnown(w)'
  PROVE  FrameOK(w)'
  <1>1. LeaseHeld(w)'
    BY LeaseStaysHeld DEF FrameOK
  <1>2. JobOf(w)' = JobOf(w) /\ Step(w)' = Step(w)
    BY DEF SameClaim, JobOf, Step
  <1>3. JobOf(w) \in Job
    BY DEF FrameOK, LeaseHeld, JobOf
  <1>4. InOrder(w)'
    <2>1. ASSUME task'[w].pc \in Stage, NEW i \in Item, i < Step(w)
          PROVE  Credited(JobOf(w), i)'
      <3>1. Credited(JobOf(w), i)
        BY <2>1 DEF FrameOK, InOrder
      <3>2. PICK j \in Job : j = JobOf(w)
        BY <1>3
      <3>3. Credited(j, i)'
        BY <3>1, <3>2 DEF CreditsStay
      <3> QED BY <1>2, <3>2, <3>3 DEF Credited
    <2>2. task'[w].pc \in Stage => Step(w) \in Item
      BY DEF FrameOK, InOrder
    <2> QED BY <1>2, <2>1, <2>2 DEF InOrder, Credited
  <1>5. AtItsStage(w)'
    BY <1>2 DEF AtItsStage
  <1> QED BY <1>1, <1>4, <1>5 DEF FrameOK

(* On to the next stage once this one is credited.                          *)
LEMMA NextStepIsFine ==
  ASSUME NEW w \in Worker, ServiceTyped(Reading), FrameOK(w), task[w].pc \in Stage,
         GrantsStay, CreditsStay, NextStep(w), Step(w) # Activated,
         NEW j \in Job, j = JobOf(w), NEW n \in Item, n = Step(w), Credited(j, n)'
  PROVE  task' \in [Worker -> TaskRow(Reading)] /\ OthersRest(w) /\ FrameOK(w)'
  <1>1. task[w].pc # "idle" /\ task[w] \in TaskRow(Reading)
    BY DEF Stage, ServiceTyped
  <1>2. n \in Nat /\ task[w].next = n /\ task[w].job = j /\ n + 1 \in Item
    BY ItemsAreStages, LimitsArePositive DEF Step, JobOf, Activated
  <1> DEFINE new == [task[w] EXCEPT !.next = n + 1, !.ref = None, !.pc = "start"]
  <1>3. task' = [task EXCEPT ![w] = new]
    BY <1>1, <1>2 DEF NextStep, ServiceTyped
  <1>4. /\ new \in TaskRow(Reading) /\ new.pc = "start" /\ new.next = n + 1
        /\ new.job = task[w].job /\ new.epoch = task[w].epoch /\ new.stage = task[w].stage
    <2>1. n + 1 \in Nat /\ None \in Reading /\ "start" \in Place
      BY <1>2 DEF Reading, Place
    <2> QED BY <1>1, <2>1 DEF TaskRow
  <1> HIDE DEF new
  <1>5. task' \in [Worker -> TaskRow(Reading)] /\ OthersRest(w) /\ task'[w] = new
    BY <1>3, <1>4 DEF ServiceTyped, OthersRest
  <1>6. LeaseHeld(w)'
    BY <1>1, <1>4, <1>5, LeaseStaysHeld DEF FrameOK, SameClaim
  <1>7. task'[w].job = j /\ task'[w].next = n + 1 /\ task'[w].pc = "start"
    BY <1>2, <1>4, <1>5
  <1>8. InOrder(w)'
    <2>1. ASSUME NEW i \in Item, i < n + 1 PROVE Credited(j, i)'
      <3>1. i < n \/ i = n
        BY <1>2, <2>1, ItemsAreStages
      <3>2. CASE i < n
        <4>1. Credited(j, i)
          BY <3>2 DEF FrameOK, InOrder
        <4> QED BY <4>1 DEF CreditsStay
      <3> QED BY <3>1, <3>2
    <2> QED BY <1>2, <1>7, <2>1 DEF InOrder, JobOf, Step, Credited
  <1>9. AtItsStage(w)' /\ SwapKnown(w)'
    BY <1>7 DEF AtItsStage, SwapKnown
  <1> QED BY <1>5, <1>6, <1>7, <1>8, <1>9 DEF FrameOK

(* The worker goes elsewhere with, or without, a reading of the pointer.    *)
LEMMA ReadingWritten ==
  ASSUME ServiceTyped(Reading), NEW w \in Worker, NEW pc \in Place, NEW ref \in Reading,
         task' = [task EXCEPT ![w].pc = pc, ![w].ref = ref]
  PROVE  /\ task' \in [Worker -> TaskRow(Reading)] /\ OthersRest(w) /\ SameClaim(w)
         /\ task'[w].next = task[w].next /\ task'[w].pc = pc /\ task'[w].ref = ref
  <1>1. task[w] \in TaskRow(Reading)
    BY DEF ServiceTyped
  <1> DEFINE new == [task[w] EXCEPT !.pc = pc, !.ref = ref]
  <1>2. task' = [task EXCEPT ![w] = new]
    BY DEF ServiceTyped
  <1>3. /\ new \in TaskRow(Reading) /\ new.pc = pc /\ new.ref = ref /\ new.next = task[w].next
        /\ new.job = task[w].job /\ new.epoch = task[w].epoch /\ new.stage = task[w].stage
    BY <1>1 DEF TaskRow
  <1> HIDE DEF new
  <1> QED BY <1>2, <1>3 DEF ServiceTyped, OthersRest, SameClaim

(* The lease and the stage of a worker at work.                             *)
LEMMA AtWork ==
  ASSUME IngestInv, NEW w \in Worker, task[w].pc # "idle"
  PROVE  /\ JobOf(w) \in Job /\ LeaseHeld(w) /\ FrameOK(w)
         /\ TypeOK /\ ServiceTyped(Reading) /\ StageNotAhead
         /\ task[w].pc \in Stage => Step(w) \in Item
  BY DEF IngestInv, IInv, FrameOK, LeaseHeld, InOrder, JobOf, ActivatedTogether

(* Leaving the work, or giving the stage up, whatever was not credited.     *)
LEMMA LeavingKeeps ==
  ASSUME IngestInv, NEW w \in Worker, task[w].pc # "idle",
         [Next]_vars, NoNewCredit, NoNewSuccess, CatalogGrows, UNCHANGED sender,
         \/ GoFail(w, "other") \/ GoCancel(w) \/ Goto(w, "lost")
         \/ Goto(w, "fail") /\ task[w].pc \in Stage
  PROVE  IngestInv'
  <1>1. ServiceTyped(Reading) /\ FrameOK(w) /\ {"lost", "fail"} \subseteq Place
    BY AtWork DEF Place
  <1>2. /\ task' \in [Worker -> TaskRow(Reading)] /\ OthersRest(w) /\ SamePlace(w)
        /\ \/ task'[w].pc \in {"finish", "lost"}
           \/ task'[w].pc = "fail" /\ task[w].pc \in Stage
    BY <1>1, GotoWrites, GoFailWrites
  <1>3. CreditsStay /\ GrantsStay /\ StageNotAhead'
    BY NoCreditIsQuiet
  <1>4. SwapKnown(w)'
    BY <1>2 DEF SwapKnown
  <1>5. FrameOK(w)'
    BY <1>1, <1>2, <1>3, <1>4, GoesOn DEF SamePlace, Stage
  <1> QED BY <1>2, <1>3, <1>5, WorkerKeeps

(* A worker whose task has ended, or whose process has died.                *)
LEMMA IdleKeeps ==
  ASSUME IngestInv, NEW w \in Worker, task' = [task EXCEPT ![w] = Idle],
         UNCHANGED <<vars, sender, catalogState>>
  PROVE  IngestInv' /\ [Next]_vars
  <1>1. ServiceTyped(Reading) /\ None \in Reading
    BY DEF IngestInv, Reading
  <1>2. task' \in [Worker -> TaskRow(Reading)] /\ OthersRest(w) /\ task'[w].pc = "idle"
    BY <1>1, IdleRow DEF ServiceTyped, OthersRest
  <1>3. FrameOK(w)'
    BY <1>2 DEF FrameOK, LeaseHeld, InOrder, AtItsStage, SwapKnown, Stage
  <1>4. [Next]_vars /\ CreditsStay /\ GrantsStay /\ NoNewSuccess /\ CatalogGrows
    BY NothingWritten, NoMove
  <1>5. StageNotAhead'
    BY <1>4, StagesKept DEF IngestInv, ActivatedTogether, vars
  <1> QED BY <1>2, <1>3, <1>4, <1>5, WorkerKeeps

-----------------------------------------------------------------------------
(* The stages *)

LEMMA ChecksKeep ==
  ASSUME IngestInv, NEW w \in Worker, CheckStage(w) \/ CheckResult(w) \/ Refused(w)
  PROVE  IngestInv' /\ [Next]_vars
  <1>1. PICK onward \in {"mark", "complete", "lost"} :
          /\ Check(w, onward) /\ UNCHANGED catalogState
          /\ task[w].pc \in Stage
          /\ onward = "complete" => task[w].pc = "check again"
    BY DEF CheckStage, CheckResult, Refused, Stage
  <1>2. task[w].pc # "idle" /\ onward \in Place
    BY <1>1 DEF Stage, Place
  <1>3. ServiceTyped(Reading) /\ FrameOK(w)
    BY <1>2, AtWork
  <1>4. /\ task' \in [Worker -> TaskRow(Reading)] /\ OthersRest(w) /\ SamePlace(w)
        /\ task'[w].pc \in {onward, "lost", "finish"}
        /\ UNCHANGED <<vars, sender>>
    BY <1>1, <1>2, <1>3, CheckGoes
  <1>5. [Next]_vars /\ CreditsStay /\ GrantsStay /\ NoNewSuccess /\ CatalogGrows
    BY <1>1, <1>4, NothingWritten, NoMove
  <1>6. StageNotAhead'
    BY <1>2, <1>4, AtWork, StagesKept, <1>5 DEF vars
  <1>7. SwapKnown(w)'
    BY <1>4 DEF SwapKnown
  <1>8. FrameOK(w)'
    <2>1. task'[w].pc \in {"act", "check again", "complete"} => Step(w) # Activated
      BY <1>1, <1>3, <1>4 DEF FrameOK, AtItsStage
    <2> QED BY <1>1, <1>2, <1>3, <1>4, <1>5, <1>7, <2>1, GoesOn DEF SamePlace, Stage
  <1> QED BY <1>4, <1>5, <1>6, <1>8, WorkerKeeps

(* set_progress records the stage before the one that is not done yet.      *)
LEMMA MarkStageKeeps ==
  ASSUME IngestInv, NEW w \in Worker, MarkStage(w)
  PROVE  IngestInv' /\ [Next]_vars
  <1>1. task[w].pc = "mark" /\ UNCHANGED <<sender, catalogState>>
    BY DEF MarkStage
  <1>2. task[w].pc \in Stage /\ task[w].pc # "idle" /\ {"claim", "lost"} \subseteq Place
    BY <1>1 DEF Stage, Place
  <1>3. /\ ServiceTyped(Reading) /\ FrameOK(w) /\ LeaseHeld(w) /\ TypeOK
        /\ JobOf(w) \in Job /\ Step(w) \in Item /\ StageNotAhead
    BY <1>2, AtWork
  <1>4. CatalogGrows
    BY <1>1, NoMove
  <1>5. PICK pc \in {"claim", "lost"} :
          /\ Goto(w, pc)
          /\ UNCHANGED vars \/ SetStage(JobOf(w), w, task[w].epoch, StageOf(w))
    BY DEF MarkStage
  <1>6. /\ task' \in [Worker -> TaskRow(Reading)] /\ OthersRest(w) /\ SamePlace(w)
        /\ task'[w].pc = pc
    BY <1>2, <1>3, <1>5, GotoWrites
  <1>7. [Next]_vars /\ CreditsStay /\ NoNewSuccess /\ StageNotAhead'
    <2>1. CASE UNCHANGED vars
      BY <1>3, <2>1, NothingWritten, StagesKept DEF vars
    <2>2. CASE SetStage(JobOf(w), w, task[w].epoch, StageOf(w))
      <3>1. PICK j \in Job : j = JobOf(w)
        BY <1>3
      <3>2. /\ UNCHANGED items
            /\ jobs'[j].stage = StageOf(w) /\ \A k \in Job \ {j} : jobs'[k] = jobs[k]
        BY <1>3, <2>2, <3>1, StageWritten
      <3>3. CreditsStay
        BY <3>2 DEF CreditsStay, Credited
      <3>4. NoNewSuccess
        BY <1>3, <2>2, WorkIsNoSuccess
      <3>5. Next
        <4>1. StageOf(w) \in 0..LastStage(jobs[j].kind)
          <5>1. jobs[j].stage \in Nat /\ LastStage(jobs[j].kind) \in Int
            BY <1>3, LimitsArePositive DEF TypeOK, JobRow, LastStage, Stages
          <5>2. StageOf(w) \in jobs[j].stage .. LastStage(jobs[j].kind)
            BY <2>2, <3>1 DEF SetStage
          <5> QED BY <5>1, <5>2
        <4>2. JobCall(j, w, task[w].epoch)
          BY <2>2, <3>1, <4>1 DEF JobCall
        <4> QED BY <1>2, <1>3, <3>1, <4>2, CallsAreCalls DEF JobOf
      <3>6. StageNotAhead'
        <4>1. ASSUME NEW k \in Job, NEW i \in Item, i - 1 < jobs'[k].stage
              PROVE  items'[k][i].status = "succeeded"
          <5>1. CASE k = j
            <6>1. i < Step(w)
              BY <1>3, <3>2, <4>1, <5>1, ItemsAreStages DEF StageOf
            <6>2. Credited(j, i)
              BY <1>2, <1>3, <3>1, <6>1 DEF FrameOK, InOrder
            <6> QED BY <3>2, <5>1, <6>2 DEF Credited
          <5>2. CASE k # j
            BY <1>3, <3>2, <4>1, <5>2 DEF StageNotAhead
          <5> QED BY <5>1, <5>2
        <4> QED BY <4>1 DEF StageNotAhead
      <3> QED BY <3>3, <3>4, <3>5, <3>6
    <2> QED BY <1>5, <2>1, <2>2
  <1>8. GrantsStay
    BY <1>3, <1>7, StepsKeepGrants
  <1>9. FrameOK(w)'
    <2>1. SwapKnown(w)'
      BY <1>6 DEF SwapKnown
    <2> QED BY <1>2, <1>3, <1>6, <1>7, <1>8, <2>1, GoesOn DEF SamePlace
  <1> QED BY <1>1, <1>4, <1>6, <1>7, <1>9, WorkerKeeps

(* claim_item, and what it says of the stage.                               *)
LEMMA ClaimStageKeeps ==
  ASSUME IngestInv, NEW w \in Worker, ClaimStage(w)
  PROVE  IngestInv' /\ [Next]_vars
  <1> DEFINE j == JobOf(w)
             e == task[w].epoch
             i == Step(w)
             Written == \/ UNCHANGED vars
                        \/ ClaimNewItem(j, w, e, i) \/ RetryItem(j, w, e, i)
                        \/ ExhaustItem(j, w, e, i)
  <1>1. task[w].pc = "claim" /\ UNCHANGED <<sender, catalogState>>
    BY DEF ClaimStage
  <1>2. task[w].pc \in Stage /\ task[w].pc # "idle" /\ {"act", "activate"} \subseteq Place
    BY <1>1 DEF Stage, Place
  <1>3. /\ ServiceTyped(Reading) /\ FrameOK(w) /\ LeaseHeld(w) /\ TypeOK
        /\ j \in Job /\ i \in Item /\ StageNotAhead
    BY <1>2, AtWork
  <1>4. CatalogGrows
    BY <1>1, NoMove
  <1>5. \/ NextStep(w) /\ UNCHANGED vars /\ Credited(j, i) /\ i # Activated
        \/ (GoFail(w, "other") \/ GoCancel(w) \/ Goto(w, "lost")) /\ Written
        \/ Goto(w, IF i = Activated THEN "activate" ELSE "act") /\ Written
    BY DEF ClaimStage, Credited
  <1>6. ASSUME Written PROVE [Next]_vars /\ NoNewCredit /\ NoNewSuccess
    <2>1. CASE UNCHANGED vars
      BY <2>1, NothingWritten DEF NoNewCredit, vars
    <2>2. CASE ClaimNewItem(j, w, e, i) \/ RetryItem(j, w, e, i) \/ ExhaustItem(j, w, e, i)
      <3>1. NoNewCredit
        BY <1>3, <2>2, ClaimsCreditNothing
      <3>2. NoNewSuccess
        BY <1>3, <2>2, WorkIsNoSuccess
      <3>3. ItemCall(j, w, e, i)
        BY <2>2 DEF ItemCall
      <3> QED BY <1>2, <1>3, <3>1, <3>2, <3>3, CallsAreCalls DEF JobOf
    <2> QED BY <1>6, <2>1, <2>2
  <1>7. CASE (GoFail(w, "other") \/ GoCancel(w) \/ Goto(w, "lost")) /\ Written
    <2>1. [Next]_vars /\ NoNewCredit /\ NoNewSuccess
      BY <1>6, <1>7
    <2> QED BY <1>1, <1>2, <1>4, <1>7, <2>1, LeavingKeeps
  <1>8. CASE NextStep(w) /\ UNCHANGED vars /\ Credited(j, i) /\ i # Activated
    <2>1. [Next]_vars /\ CreditsStay /\ GrantsStay /\ NoNewSuccess
      BY <1>8, NothingWritten
    <2>2. StageNotAhead'
      BY <1>3, <1>8, <2>1, StagesKept DEF vars
    <2>3. PICK n \in Item : n = Step(w)
      BY <1>3
    <2>4. PICK k \in Job : k = JobOf(w)
      BY <1>3
    <2>5. Credited(k, n)'
      BY <1>8, <2>3, <2>4 DEF Credited, vars
    <2>6. task' \in [Worker -> TaskRow(Reading)] /\ OthersRest(w) /\ FrameOK(w)'
      BY <1>2, <1>3, <1>8, <2>1, <2>3, <2>4, <2>5, NextStepIsFine
    <2> QED BY <1>1, <1>4, <2>1, <2>2, <2>6, WorkerKeeps
  <1>9. CASE Goto(w, IF i = Activated THEN "activate" ELSE "act") /\ Written
    <2>1. [Next]_vars /\ NoNewCredit /\ NoNewSuccess
      BY <1>6, <1>9
    <2>2. CreditsStay /\ GrantsStay /\ StageNotAhead'
      BY <2>1, NoCreditIsQuiet
    <2>3. PICK pc \in {"act", "activate"} : Goto(w, pc) /\ (pc = "activate" <=> i = Activated)
      BY <1>9
    <2>4. /\ task' \in [Worker -> TaskRow(Reading)] /\ OthersRest(w) /\ SamePlace(w)
          /\ task'[w].pc = pc
      BY <1>2, <1>3, <2>3, GotoWrites
    <2>5. FrameOK(w)'
      <3>1. SwapKnown(w)'
        BY <2>4 DEF SwapKnown
      <3> QED BY <1>2, <1>3, <2>2, <2>3, <2>4, <3>1, GoesOn DEF SamePlace
    <2> QED BY <1>1, <1>4, <2>1, <2>2, <2>4, <2>5, WorkerKeeps
  <1> QED BY <1>5, <1>7, <1>8, <1>9

-----------------------------------------------------------------------------
(* The catalog *)

LEMMA ImportsGrow ==
  ASSUME IngestInv, NEW s \in Snapshot, NEW p \in Profile, Catalog!Import(s, p)
  PROVE  CatalogGrows
  <1>1. imports' = [imports EXCEPT ![s] = @ \cup {p}] /\ UNCHANGED <<pointer, history>>
    BY DEF Catalog!Import
  <1>2. imports \in [Snapshot -> SUBSET Profile]
    BY DEF IngestInv, CatalogTyped
  <1>3. CatalogTyped' /\ \A x \in imports[Target] : x \in imports'[Target]
    BY <1>1, <1>2, RegistrationIsKnown DEF IngestInv, CatalogTyped
  <1>4. PointerWasMoved'
    BY <1>1 DEF IngestInv, PointerWasMoved, Catalog!WasActive
  <1> QED BY <1>1, <1>3, <1>4 DEF CatalogGrows, EventsStay

(* A move adds its event and leaves the pointer at its target.              *)
LEMMA PointMoves ==
  ASSUME IngestInv, NEW s \in Snapshot, NEW a \in Operator \cup Job,
         NEW op \in {"initial_activate", "replace", "rollback"}, Catalog!Point(s, op, a)
  PROVE  /\ CatalogTyped' /\ EventsStay /\ PointerWasMoved' /\ imports' = imports
         /\ \E last \in DOMAIN history' :
              /\ DOMAIN history' = DOMAIN history \cup {last} /\ last \notin DOMAIN history
              /\ history'[last].target = s /\ history'[last].actor = a
  <1> DEFINE event == [operation |-> op, previous |-> pointer.snapshot, target |-> s, actor |-> a]
             last == Len(history) + 1
  <1>1. /\ history \in Seq(Catalog!Event) /\ pointer \in Catalog!Pointer
        /\ imports \in [Snapshot -> SUBSET Profile]
    BY DEF IngestInv, CatalogTyped
  <1>2. /\ history' = Append(history, event) /\ UNCHANGED imports
        /\ pointer' = [snapshot |-> s, revision |-> pointer.revision + 1]
    BY DEF Catalog!Point
  <1>3. event \in Catalog!Event /\ event.target = s /\ event.actor = a
    BY <1>1 DEF Catalog!Event, Catalog!Pointer
  <1> HIDE DEF event
  <1>4. /\ history' \in Seq(Catalog!Event)
        /\ DOMAIN history' = 1..last /\ DOMAIN history = 1..Len(history) /\ Len(history) \in Nat
        /\ history'[last] = event /\ \A n \in 1..Len(history) : history'[n] = history[n]
    BY <1>1, <1>2, <1>3
  <1>5. pointer' \in Catalog!Pointer /\ pointer'.snapshot = s
    BY <1>1, <1>2 DEF Catalog!Pointer
  <1>6. /\ last \in DOMAIN history' /\ last \notin DOMAIN history
        /\ DOMAIN history' = DOMAIN history \cup {last}
    BY <1>4
  <1>7. EventsStay
    BY <1>4, <1>6 DEF EventsStay
  <1>8. PointerWasMoved'
    BY <1>3, <1>4, <1>5, <1>6 DEF PointerWasMoved, Catalog!WasActive
  <1> QED BY <1>1, <1>2, <1>3, <1>4, <1>5, <1>6, <1>7, <1>8 DEF CatalogTyped

(* Operators import and move, and sign with a name of their own.            *)
LEMMA OperatorsKeep ==
  ASSUME IngestInv, Operators
  PROVE  IngestInv' /\ [Next]_vars
  <1>1. PICK o \in Operator, s \in Snapshot, p \in Profile :
          \/ Catalog!Import(s, p)
          \/ \E op \in {"initial_activate", "replace", "rollback"} : Catalog!Point(s, op, o)
    BY DEF Operators, Catalog!Activate, Catalog!Rollback
  <1>2. UNCHANGED <<vars, sender, task>>
    BY DEF Operators, serviceVars
  <1>3. CatalogGrows
    <2>1. CASE Catalog!Import(s, p)
      BY <2>1, ImportsGrow
    <2>2. ASSUME NEW op \in {"initial_activate", "replace", "rollback"}, Catalog!Point(s, op, o)
          PROVE  CatalogGrows
      <3>1. /\ CatalogTyped' /\ EventsStay /\ PointerWasMoved' /\ imports' = imports
            /\ \E last \in DOMAIN history' :
                 DOMAIN history' = DOMAIN history \cup {last} /\ history'[last].actor = o
        BY <2>2, PointMoves
      <3>2. o \notin Job
        BY JobsSignForThemselves
      <3> QED BY <3>1, <3>2 DEF CatalogGrows
    <2> QED BY <1>1, <2>1, <2>2
  <1>4. [Next]_vars /\ CreditsStay /\ GrantsStay /\ NoNewSuccess
    BY <1>2, NothingWritten
  <1>5. StageNotAhead'
    BY <1>2, <1>4, StagesKept DEF IngestInv, ActivatedTogether, vars
  <1>6. ServiceTyped(Reading)' /\ \A v \in Worker : FrameOK(v)'
    BY <1>2, <1>3, <1>4, RestingKeeps DEF IngestInv, ServiceTyped, CatalogGrows
  <1> QED BY <1>3, <1>4, <1>5, <1>6, QuietKeeps

(* The action of a stage imports, or writes nothing.                        *)
LEMMA ActKeeps ==
  ASSUME IngestInv, NEW w \in Worker, Act(w)
  PROVE  IngestInv' /\ [Next]_vars
  <1>1. task[w].pc = "act" /\ UNCHANGED <<vars, sender>>
    BY DEF Act
  <1>2. task[w].pc \in Stage /\ task[w].pc # "idle" /\ {"check again", "fail"} \subseteq Place
    BY <1>1 DEF Stage, Place
  <1>3. ServiceTyped(Reading) /\ FrameOK(w) /\ StageNotAhead
    BY <1>2, AtWork
  <1>4. PICK pc \in {"check again", "fail"} :
          Goto(w, pc) /\ (Catalog!Import(Target, Wanted) \/ UNCHANGED catalogState)
    BY DEF Act
  <1>5. CatalogGrows
    BY <1>4, ImportsGrow, NoMove, RegistrationIsKnown
  <1>6. /\ task' \in [Worker -> TaskRow(Reading)] /\ OthersRest(w) /\ SamePlace(w)
        /\ task'[w].pc = pc
    BY <1>2, <1>3, <1>4, GotoWrites
  <1>7. [Next]_vars /\ CreditsStay /\ GrantsStay /\ NoNewSuccess
    BY <1>1, NothingWritten
  <1>8. StageNotAhead'
    BY <1>1, <1>3, <1>7, StagesKept DEF vars
  <1>9. FrameOK(w)'
    <2>1. SwapKnown(w)'
      BY <1>6 DEF SwapKnown
    <2>2. Step(w) # Activated
      BY <1>1, <1>3 DEF FrameOK, AtItsStage
    <2> QED BY <1>2, <1>3, <1>6, <1>7, <2>1, <2>2, GoesOn DEF SamePlace
  <1> QED BY <1>1, <1>5, <1>6, <1>7, <1>8, <1>9, WorkerKeeps

(* complete_item credits the stage that was done.                           *)
LEMMA CompleteStageKeeps ==
  ASSUME IngestInv, NEW w \in Worker, CompleteStage(w)
  PROVE  IngestInv' /\ [Next]_vars
  <1>1. task[w].pc = "complete" /\ UNCHANGED <<sender, catalogState>>
    BY DEF CompleteStage
  <1>2. task[w].pc \in Stage /\ task[w].pc # "idle"
    BY <1>1 DEF Stage
  <1>3. /\ ServiceTyped(Reading) /\ FrameOK(w) /\ LeaseHeld(w) /\ TypeOK
        /\ JobOf(w) \in Job /\ Step(w) \in Item /\ StageNotAhead
    BY <1>2, AtWork
  <1>4. CatalogGrows
    BY <1>1, NoMove
  <1>5. CASE Goto(w, "lost") /\ UNCHANGED vars
    <2>1. [Next]_vars /\ NoNewCredit /\ NoNewSuccess
      BY <1>5, NothingWritten DEF NoNewCredit, vars
    <2> QED BY <1>1, <1>2, <1>4, <1>5, <2>1, LeavingKeeps
  <1>6. ASSUME NEW r \in Ref, CompleteItem(JobOf(w), w, task[w].epoch, Step(w), r), NextStep(w)
        PROVE  IngestInv' /\ [Next]_vars
    <2>1. PICK j \in Job : j = JobOf(w)
      BY <1>3
    <2>2. PICK n \in Item : n = Step(w)
      BY <1>3
    <2>3. OneItem(j, n) /\ Credited(j, n)'
      BY <1>3, <1>6, <2>1, <2>2, CreditsAreNew DEF Credited
    <2>4. CreditsStay
      BY <2>3 DEF OneItem, CreditsStay, Credited
    <2>5. Next
      <3>1. ItemCall(j, w, task[w].epoch, n)
        BY <1>6, <2>1, <2>2 DEF ItemCall
      <3> QED BY <1>2, <1>3, <2>1, <3>1, CallsAreCalls DEF JobOf
    <2>6. GrantsStay /\ NoNewSuccess /\ StageNotAhead'
      BY <1>3, <1>6, <2>3, <2>4, <2>5, StepsKeepGrants, WorkIsNoSuccess, StagesKept DEF OneItem
    <2>7. Step(w) # Activated
      BY <1>1, <1>3 DEF FrameOK, AtItsStage
    <2>8. task' \in [Worker -> TaskRow(Reading)] /\ OthersRest(w) /\ FrameOK(w)'
      BY <1>2, <1>3, <1>6, <2>1, <2>2, <2>3, <2>4, <2>6, <2>7, NextStepIsFine
    <2> QED BY <1>1, <1>4, <2>4, <2>5, <2>6, <2>8, WorkerKeeps
  <1> QED BY <1>5, <1>6 DEF CompleteStage

LEMMA FailStageKeeps ==
  ASSUME IngestInv, NEW w \in Worker, FailStage(w)
  PROVE  IngestInv' /\ [Next]_vars
  <1>1. /\ task[w].pc = "fail" /\ GoFail(w, "other") /\ UNCHANGED <<sender, catalogState>>
        /\ FailItem(JobOf(w), w, task[w].epoch, Step(w), FALSE) \/ UNCHANGED vars
    BY DEF FailStage
  <1>2. task[w].pc \in Stage /\ task[w].pc # "idle"
    BY <1>1 DEF Stage
  <1>3. LeaseHeld(w) /\ TypeOK /\ JobOf(w) \in Job /\ Step(w) \in Item
    BY <1>2, AtWork
  <1>4. [Next]_vars /\ NoNewCredit /\ NoNewSuccess
    <2>1. CASE UNCHANGED vars
      BY <2>1, NothingWritten DEF NoNewCredit, vars
    <2>2. CASE FailItem(JobOf(w), w, task[w].epoch, Step(w), FALSE)
      <3>1. NoNewCredit /\ NoNewSuccess
        BY <1>3, <2>2, ClaimsCreditNothing, WorkIsNoSuccess
      <3>2. ItemCall(JobOf(w), w, task[w].epoch, Step(w))
        BY <2>2 DEF ItemCall
      <3> QED BY <1>2, <1>3, <3>1, <3>2, CallsAreCalls DEF JobOf
    <2> QED BY <1>1, <2>1, <2>2
  <1> QED BY <1>1, <1>2, <1>4, NoMove, LeavingKeeps

-----------------------------------------------------------------------------
(* The activation *)

(* Reading the pointer, or turning away.                                    *)
LEMMA OpenActivationKeeps ==
  ASSUME IngestInv, NEW w \in Worker, OpenActivation(w)
  PROVE  IngestInv' /\ [Next]_vars
  <1>1. task[w].pc = "activate" /\ UNCHANGED <<vars, sender, catalogState>>
    BY DEF OpenActivation
  <1>2. /\ task[w].pc \in Stage /\ task[w].pc # "idle"
        /\ {"refused", "fail", "swap"} \subseteq Place
    BY <1>1 DEF Stage, Place
  <1>3. /\ ServiceTyped(Reading) /\ FrameOK(w) /\ StageNotAhead /\ CatalogGrows
        /\ [Next]_vars /\ CreditsStay /\ GrantsStay /\ NoNewSuccess
    BY <1>1, <1>2, AtWork, NothingWritten, NoMove
  <1>4. StageNotAhead'
    BY <1>1, <1>3, StagesKept DEF vars
  <1>5. Step(w) = Activated
    BY <1>1, <1>3 DEF FrameOK, AtItsStage
  <1>6. CASE Goto(w, "refused") \/ Goto(w, "fail")
    <2>1. /\ task' \in [Worker -> TaskRow(Reading)] /\ OthersRest(w) /\ SamePlace(w)
          /\ task'[w].pc \in {"refused", "fail"}
      BY <1>2, <1>3, <1>6, GotoWrites
    <2>2. SwapKnown(w)'
      BY <2>1 DEF SwapKnown
    <2>3. FrameOK(w)'
      BY <1>2, <1>3, <2>1, <2>2, GoesOn DEF SamePlace
    <2> QED BY <1>1, <1>3, <1>4, <2>1, <2>3, WorkerKeeps
  <1>7. CASE task' = [task EXCEPT ![w].pc = "swap", ![w].ref = pointer]
    <2>1. pointer \in Reading
      BY DEF IngestInv, CatalogTyped, Reading
    <2>2. /\ task' \in [Worker -> TaskRow(Reading)] /\ OthersRest(w) /\ SameClaim(w)
          /\ task'[w].next = task[w].next /\ task'[w].pc = "swap" /\ task'[w].ref = pointer
      BY <1>2, <1>3, <1>7, <2>1, ReadingWritten
    <2>3. SwapKnown(w)'
      <3>1. pointer.snapshot = Target => Catalog!WasActive(Target)
        BY NullIsNoEntry, RegistrationIsKnown DEF IngestInv, PointerWasMoved
      <3>2. Catalog!WasActive(Target) => Catalog!WasActive(Target)'
        BY <1>1 DEF catalogState, Catalog!WasActive
      <3> QED BY <2>2, <3>1, <3>2 DEF SwapKnown, Seen
    <2>4. FrameOK(w)'
      BY <1>2, <1>3, <1>5, <2>2, <2>3, GoesOn
    <2> QED BY <1>1, <1>3, <1>4, <2>2, <2>4, WorkerKeeps
  <1> QED BY <1>6, <1>7 DEF OpenActivation

(* Somebody else moved the pointer: the stage fails.                        *)
LEMMA AbortActivationKeeps ==
  ASSUME IngestInv, NEW w \in Worker, AbortActivation(w)
  PROVE  IngestInv' /\ [Next]_vars
  <1>1. /\ task[w].pc = "swap" /\ UNCHANGED <<vars, sender, catalogState>>
        /\ task' = [task EXCEPT ![w].pc = "fail", ![w].ref = None]
    BY DEF AbortActivation
  <1>2. /\ task[w].pc \in Stage /\ task[w].pc # "idle"
        /\ "fail" \in Place /\ None \in Reading
    BY <1>1 DEF Stage, Place, Reading
  <1>3. /\ ServiceTyped(Reading) /\ FrameOK(w) /\ StageNotAhead /\ CatalogGrows
        /\ [Next]_vars /\ CreditsStay /\ GrantsStay /\ NoNewSuccess
    BY <1>1, <1>2, AtWork, NothingWritten, NoMove
  <1>4. StageNotAhead'
    BY <1>1, <1>3, StagesKept DEF vars
  <1>5. /\ task' \in [Worker -> TaskRow(Reading)] /\ OthersRest(w) /\ SameClaim(w)
        /\ task'[w].next = task[w].next /\ task'[w].pc = "fail"
    BY <1>1, <1>2, <1>3, ReadingWritten
  <1>6. FrameOK(w)'
    <2>1. SwapKnown(w)'
      BY <1>5 DEF SwapKnown
    <2> QED BY <1>2, <1>3, <1>5, <2>1, GoesOn
  <1> QED BY <1>1, <1>3, <1>4, <1>5, <1>6, WorkerKeeps

(* What the commit of an activation leaves in the catalog: the pointer was  *)
(* moved to the target, now by this job for the first time, or before.      *)
CatalogAfter(j) ==
  /\ CatalogTyped' /\ EventsStay /\ PointerWasMoved' /\ imports' = imports
  /\ \A n \in DOMAIN history' \ DOMAIN history :
       history'[n].actor = j /\ history'[n].target = Target
  /\ DOMAIN history' # DOMAIN history =>
       /\ Wanted \in imports[Target] /\ ~MovedBy(j)
       /\ \A m, n \in DOMAIN history' \ DOMAIN history : m = n
  /\ Catalog!WasActive(Target)'

LEMMA CommitMovesOnce ==
  ASSUME IngestInv, NEW w \in Worker, CommitActivation(w), NEW j \in Job, j = JobOf(w)
  PROVE  CatalogAfter(j)
  <1>1. task[w].pc = "swap" /\ FrameOK(w)
    BY DEF CommitActivation, IngestInv
  <1>2. CASE (MovedBy(j) \/ Seen(w).snapshot = Target) /\ UNCHANGED catalogState
    <2>1. Catalog!WasActive(Target)
      BY <1>1, <1>2 DEF FrameOK, SwapKnown, MovedBy, Catalog!WasActive
    <2>2. CatalogGrows
      BY <1>2, NoMove
    <2>3. Catalog!WasActive(Target)'
      BY <2>1, <2>2, EventsStayActive DEF CatalogGrows
    <2> QED BY <1>2, <2>2, <2>3 DEF CatalogAfter, CatalogGrows, catalogState
  <1>3. CASE ~MovedBy(j) /\ Catalog!Activate(Seen(w), Target, Wanted, j)
    <2>1. Wanted \in imports[Target]
      BY <1>3, NullIsNoEntry, RegistrationIsKnown DEF Catalog!Activate, Catalog!Ready
    <2>2. PICK op \in {"initial_activate", "replace", "rollback"} : Catalog!Point(Target, op, j)
      BY <1>3 DEF Catalog!Activate
    <2>3. /\ CatalogTyped' /\ EventsStay /\ PointerWasMoved' /\ imports' = imports
          /\ \E last \in DOMAIN history' :
               /\ DOMAIN history' = DOMAIN history \cup {last} /\ last \notin DOMAIN history
               /\ history'[last].target = Target /\ history'[last].actor = j
      BY <2>2, RegistrationIsKnown, PointMoves
    <2>4. PICK last \in DOMAIN history' :
               /\ DOMAIN history' = DOMAIN history \cup {last} /\ last \notin DOMAIN history
               /\ history'[last].target = Target /\ history'[last].actor = j
      BY <2>3
    <2>5. Catalog!WasActive(Target)'
      BY <2>4 DEF Catalog!WasActive
    <2>6. \A n \in DOMAIN history' \ DOMAIN history : n = last
      BY <2>4
    <2> QED BY <1>3, <2>1, <2>3, <2>4, <2>5, <2>6 DEF CatalogAfter
  <1> QED BY <1>2, <1>3 DEF CommitActivation

(* The pointer, the last item and the job, together.                        *)
LEMMA CommitActivationKeeps ==
  ASSUME IngestInv, NEW w \in Worker, CommitActivation(w)
  PROVE  IngestInv' /\ [Next]_vars
  <1>1. /\ task[w].pc = "swap" /\ UNCHANGED sender
        /\ task' = [task EXCEPT ![w].pc = "confirm", ![w].ref = None]
    BY DEF CommitActivation
  <1>2. /\ task[w].pc \in Stage /\ task[w].pc # "idle"
        /\ "confirm" \in Place /\ None \in Reading
    BY <1>1 DEF Stage, Place, Reading
  <1>3. /\ ServiceTyped(Reading) /\ FrameOK(w) /\ LeaseHeld(w) /\ TypeOK /\ LeasePair
        /\ JobOf(w) \in Job /\ Step(w) \in Item /\ StageNotAhead
    BY <1>2, AtWork DEF IngestInv, IInv
  <1>4. PICK j \in Job : j = JobOf(w)
    BY <1>3
  <1>5. PICK i \in Item : i = Step(w)
    BY <1>3
  <1>6. PICK r \in Ref : ActivateIngestion(j, w, task[w].epoch, i, jobs[j].request, r)
    BY <1>4, <1>5 DEF CommitActivation
  <1>7. /\ OneItem(j, i) /\ items'[j][i].status = "succeeded"
        /\ jobs'[j].status = "succeeded" /\ \A k \in Job \ {j} : jobs'[k] = jobs[k]
    BY <1>3, <1>6, ActivationIsNew
  <1>8. Next
    <2>1. jobs[j].request \in Request
      BY <1>6 DEF ActivateIngestion, LockedActive, IngestInv, RequestsKnown, Exists
    <2>2. ItemCall(j, w, task[w].epoch, i)
      BY <1>6, <2>1 DEF ItemCall
    <2> QED BY <1>2, <1>3, <1>4, <2>2, CallsAreCalls DEF JobOf
  <1>9. IInv' /\ RequestsKnown' /\ GrantsStay
    BY <1>3, <1>8, StepInvariant, RequestsStay, StepsKeepGrants DEF IngestInv
  <1>10. CreditsStay
    BY <1>7 DEF OneItem, CreditsStay, Credited
  <1>11. StageNotAhead'
    BY <1>3, <1>7, <1>10, StagesKept DEF OneItem
  <1>12. CatalogAfter(j)
    BY <1>4, CommitMovesOnce
  <1>13. /\ task' \in [Worker -> TaskRow(Reading)] /\ OthersRest(w) /\ SameClaim(w)
         /\ task'[w].next = task[w].next /\ task'[w].pc = "confirm"
    BY <1>1, <1>2, <1>3, ReadingWritten
  <1>14. FrameOK(w)'
    <2>1. SwapKnown(w)' /\ task'[w].pc \notin Stage
      BY <1>13 DEF SwapKnown, Stage
    <2> QED BY <1>2, <1>3, <1>9, <1>10, <1>13, <2>1, GoesOn
  <1>15. \A v \in Worker : FrameOK(v)'
    BY <1>9, <1>10, <1>12, <1>13, <1>14, RestingKeeps DEF IngestInv, OthersRest, CatalogAfter
  <1>16. ServiceTyped(Reading)'
    BY <1>1, <1>3, <1>13 DEF ServiceTyped
  <1>17. \A l \in Item : Credited(j, l)'
    <2>1. \A l \in Item : l = i \/ l < i
      <3>1. i = IngestionStages
        BY <1>1, <1>3, <1>5 DEF FrameOK, AtItsStage, Activated
      <3> QED BY <3>1, ItemsAreStages, LimitsArePositive
    <2>2. \A l \in Item : l < i => Credited(j, l)
      BY <1>2, <1>3, <1>4, <1>5 DEF FrameOK, InOrder
    <2> QED BY <1>7, <1>10, <2>1, <2>2 DEF CreditsStay, Credited
  <1>18. JobsMoveToTarget'
    BY <1>12 DEF CatalogAfter, EventsStay, IngestInv, JobsMoveToTarget
  <1>19. ASSUME NEW k \in Job
         PROVE  /\ MovedBy(k)' =>
                     /\ jobs'[k].status = "succeeded"
                     /\ Wanted \in imports'[Target]
                     /\ \A l \in Item : items'[k][l].status = "succeeded"
                /\ \A m, n \in DOMAIN history' :
                     history'[m].actor = k /\ history'[n].actor = k => m = n
                /\ jobs'[k].status = "succeeded" => Catalog!WasActive(Target)'
    <2>1. /\ MovedBy(k) =>
               /\ jobs[k].status = "succeeded"
               /\ Wanted \in imports[Target]
               /\ \A l \in Item : items[k][l].status = "succeeded"
          /\ \A m, n \in DOMAIN history :
               history[m].actor = k /\ history[n].actor = k => m = n
      BY DEF IngestInv, ActivatedTogether
    <2>2. CASE k # j
      <3>1. \A n \in DOMAIN history' : history'[n].actor = k =>
              n \in DOMAIN history /\ history'[n] = history[n]
        BY <1>12, <2>2 DEF CatalogAfter, EventsStay
      <3>2. MovedBy(k)' => MovedBy(k)
        BY <3>1 DEF MovedBy
      <3>3. MovedBy(k)' =>
               /\ jobs'[k].status = "succeeded"
               /\ Wanted \in imports'[Target]
               /\ \A l \in Item : items'[k][l].status = "succeeded"
        BY <1>7, <1>10, <1>12, <2>1, <2>2, <3>2 DEF CatalogAfter, CreditsStay, Credited
      <3>4. \A m, n \in DOMAIN history' :
              history'[m].actor = k /\ history'[n].actor = k => m = n
        BY <2>1, <3>1
      <3> QED BY <1>12, <3>3, <3>4 DEF CatalogAfter
    <2>3. CASE k = j
      <3>1. MovedBy(j)' => Wanted \in imports'[Target]
        <4>1. CASE DOMAIN history' = DOMAIN history
          <5>1. MovedBy(j)' => MovedBy(j)
            BY <1>12, <4>1 DEF CatalogAfter, EventsStay, MovedBy
          <5> QED BY <1>12, <2>1, <2>3, <5>1 DEF CatalogAfter
        <4>2. CASE DOMAIN history' # DOMAIN history
          BY <1>12, <4>2 DEF CatalogAfter
        <4> QED BY <4>1, <4>2
      <3>2. \A m, n \in DOMAIN history' :
              history'[m].actor = j /\ history'[n].actor = j => m = n
        <4>1. CASE DOMAIN history' = DOMAIN history
          BY <1>12, <2>1, <2>3, <4>1 DEF CatalogAfter, EventsStay
        <4>2. CASE DOMAIN history' # DOMAIN history
          <5>1. \A n \in DOMAIN history : history[n].actor # j
            BY <1>12, <4>2 DEF CatalogAfter, MovedBy, IngestInv, JobsMoveToTarget
          <5>2. \A n \in DOMAIN history' : history'[n].actor = j => n \notin DOMAIN history
            BY <1>12, <5>1 DEF CatalogAfter, EventsStay
          <5> QED BY <1>12, <4>2, <5>2 DEF CatalogAfter
        <4> QED BY <4>1, <4>2
      <3> QED BY <1>7, <1>12, <1>17, <2>3, <3>1, <3>2 DEF CatalogAfter, Credited
    <2> QED BY <2>2, <2>3
  <1>20. ActivatedTogether'
    BY <1>11, <1>19 DEF ActivatedTogether
  <1>21. CatalogTyped' /\ PointerWasMoved'
    BY <1>12 DEF CatalogAfter
  <1> QED BY <1>8, <1>9, <1>15, <1>16, <1>18, <1>20, <1>21 DEF IngestInv

(* process_job reads its job once more.                                     *)
LEMMA ConfirmKeeps ==
  ASSUME IngestInv, NEW w \in Worker, Confirm(w)
  PROVE  IngestInv' /\ [Next]_vars
  <1>1. task[w].pc = "confirm" /\ UNCHANGED <<vars, sender, catalogState>>
    BY DEF Confirm
  <1>2. task[w].pc # "idle"
    BY <1>1
  <1>3. CASE Goto(w, "lost")
    <2>1. [Next]_vars /\ NoNewCredit /\ NoNewSuccess
      BY <1>1, NothingWritten DEF NoNewCredit, vars
    <2> QED BY <1>1, <1>2, <1>3, <2>1, NoMove, LeavingKeeps
  <1>4. CASE task' = [task EXCEPT ![w] = Idle]
    BY <1>1, <1>4, IdleKeeps
  <1> QED BY <1>3, <1>4 DEF Confirm

-----------------------------------------------------------------------------
(* The other steps *)

(* An exception fails the item first, or the job.                           *)
LEMMA BreakKeeps ==
  ASSUME IngestInv, NEW w \in Worker, Break(w)
  PROVE  IngestInv' /\ [Next]_vars
  <1>1. task[w].pc # "idle" /\ UNCHANGED <<vars, sender, catalogState>>
    BY DEF Break
  <1>2. [Next]_vars /\ NoNewCredit /\ NoNewSuccess /\ CatalogGrows
    BY <1>1, NothingWritten, NoMove DEF NoNewCredit, vars
  <1>3. \/ Goto(w, "fail") /\ task[w].pc \in Stage
        \/ Goto(w, "lost") \/ GoFail(w, "other")
    BY DEF Break, Stage
  <1> QED BY <1>1, <1>2, <1>3, LeavingKeeps

(* What process_job does whatever the kind of its job.                      *)
LEMMA ProcessKeeps ==
  ASSUME IngestInv, NEW w \in Worker, Process(w), UNCHANGED catalogState
  PROVE  IngestInv' /\ [Next]_vars
  <1>1. /\ FrameOK(w) /\ LeaseHeld(w) /\ ServiceTyped(Reading) /\ IInv /\ TypeOK
        /\ None \in Reading /\ task[w].pc # "succeed"
    BY DEF IngestInv, IInv, FrameOK, Reading
  <1>2. /\ [Next]_vars /\ KeepsWork
        /\ ServiceTyped(Reading)' /\ LeaseHeld(w)' /\ OthersRest(w) /\ ProcessStep(w)
    BY <1>1, ProcessesKeepToTheStore
  <1>3. NoNewSuccess
    BY <1>1, ProcessIsNoSuccess
  <1>4. CreditsStay /\ GrantsStay /\ StageNotAhead'
    BY <1>2, KeptWorkIsNoCredit, NoCreditIsQuiet
  <1>5. CatalogGrows
    BY NoMove
  <1>6. FrameOK(w)'
    <2>1. CASE task'[w].pc = task[w].pc /\ SamePlace(w)
      <3>1. CASE task[w].pc = "idle"
        BY <1>2, <2>1, <3>1 DEF FrameOK, InOrder, AtItsStage, SwapKnown, Stage
      <3>2. CASE task[w].pc # "idle"
        <4>1. SwapKnown(w)'
          <5>1. Seen(w)' = Seen(w)
            BY <2>1 DEF SamePlace, Seen
          <5> QED BY <1>1, <1>5, <2>1, <5>1, EventsStayActive DEF FrameOK, SwapKnown, CatalogGrows
        <4>2. AtItsStage(w)
          BY <1>1 DEF FrameOK
        <4> QED BY <1>1, <1>4, <2>1, <3>2, <4>1, <4>2, GoesOn DEF SamePlace, AtItsStage
      <3> QED BY <3>1, <3>2
    <2>2. CASE task'[w].pc = "start" /\ task'[w].next = 1
      <3>1. 1 \in Item /\ \A i \in Item : ~(i < 1)
        BY ItemsAreStages, LimitsArePositive
      <3> QED BY <1>2, <2>2, <3>1 DEF FrameOK, InOrder, AtItsStage, SwapKnown, Step
    <2>3. CASE task'[w].pc \in {"idle", "finish", "lost"}
      BY <1>2, <2>3 DEF FrameOK, InOrder, AtItsStage, SwapKnown, Stage
    <2> QED BY <1>2, <2>1, <2>2, <2>3 DEF ProcessStep
  <1>7. task' \in [Worker -> TaskRow(Reading)]
    BY <1>2 DEF ServiceTyped
  <1>8. UNCHANGED sender
    BY DEF Process, Take, Beat, BeatFails, Succeed, Finish, Retry
  <1> QED BY <1>2, <1>3, <1>4, <1>5, <1>6, <1>7, <1>8, WorkerKeeps

(* Clients, clocks and dispatchers leave every worker where it is.          *)
LEMMA OutsideKeeps ==
  ASSUME IngestInv, Client("ingestion", IngestionStages) \/ PassTime \/ Post,
         UNCHANGED catalogState
  PROVE  IngestInv' /\ [Next]_vars
  <1>1. ServiceTyped(Reading) /\ IInv /\ TypeOK
    BY DEF IngestInv, IInv
  <1>2. [Next]_vars /\ KeepsWork /\ UNCHANGED task /\ sender' \in [Dispatcher -> SenderRow]
    <2>1. CASE Client("ingestion", IngestionStages)
      <3>1. "ingestion" \in Kind
        BY DEF Kind
      <3> QED BY <1>1, <2>1, <3>1, StagesAreATotal, ClientsKeepToTheStore
                 DEF serviceVars, ServiceTyped
    <2>2. CASE PassTime
      BY <1>1, <2>2, ClocksKeepToTheStore DEF ServiceTyped
    <2>3. CASE Post
      BY <1>1, <2>3, PostKeepsToTheStore
    <2> QED BY <2>1, <2>2, <2>3
  <1>3. NoNewSuccess
    BY <1>1, OutsideIsNoSuccess
  <1>4. CreditsStay /\ GrantsStay /\ StageNotAhead'
    BY <1>2, KeptWorkIsNoCredit, NoCreditIsQuiet
  <1>5. CatalogGrows
    BY NoMove
  <1>6. \A v \in Worker : FrameOK(v)'
    BY <1>2, <1>4, <1>5, RestingKeeps DEF IngestInv, CatalogGrows
  <1>7. ServiceTyped(Reading)'
    BY <1>1, <1>2 DEF ServiceTyped
  <1> QED BY <1>2, <1>3, <1>4, <1>5, <1>6, <1>7, QuietKeeps

LEMMA IngestKeeps ==
  ASSUME IngestInv, NEW w \in Worker, Ingest(w)
  PROVE  IngestInv' /\ [Next]_vars
  <1>1. CASE CheckStage(w) \/ CheckResult(w) \/ Refused(w)
    BY <1>1, ChecksKeep
  <1>2. CASE MarkStage(w) \/ ClaimStage(w) \/ Act(w) \/ CompleteStage(w) \/ FailStage(w)
    BY <1>2, MarkStageKeeps, ClaimStageKeeps, ActKeeps, CompleteStageKeeps, FailStageKeeps
  <1>3. CASE OpenActivation(w) \/ CommitActivation(w) \/ AbortActivation(w) \/ Confirm(w)
    BY <1>3, OpenActivationKeeps, CommitActivationKeeps, AbortActivationKeeps, ConfirmKeeps
  <1> QED BY <1>1, <1>2, <1>3 DEF Ingest

-----------------------------------------------------------------------------
(* The theorems *)

LEMMA IngestInit == IngestionInit => IngestInv
  <1> SUFFICES ASSUME IngestionInit PROVE IngestInv
    OBVIOUS
  <1>1. IInv
    BY InitInvariant DEF IngestionInit, ServiceInit
  <1>2. RequestsKnown
    BY DEF IngestionInit, ServiceInit, Init, NoJob, RequestsKnown, Exists
  <1>3. ServiceTyped(Reading)
    <2>1. Quiet \in SenderRow
      BY DEF Quiet, SenderRow
    <2>2. Idle \in TaskRow(Reading)
      BY IdleRow DEF Reading
    <2> QED BY <2>1, <2>2 DEF IngestionInit, ServiceInit, ServiceTyped
  <1>4. /\ imports = [s \in Snapshot |-> {}] /\ history = <<>>
        /\ pointer = [snapshot |-> None, revision |-> 0]
    BY DEF IngestionInit, Catalog!CatalogInit, Catalog!NoPointer
  <1>5. CatalogTyped /\ PointerWasMoved /\ JobsMoveToTarget
    BY <1>4 DEF CatalogTyped, Catalog!Pointer, PointerWasMoved, JobsMoveToTarget
  <1>6. \A w \in Worker : FrameOK(w)
    BY DEF IngestionInit, ServiceInit, Idle, FrameOK, LeaseHeld, InOrder, AtItsStage, SwapKnown,
           Stage
  <1>7. ActivatedTogether
    <2>1. \A j \in Job : jobs[j].status = "none" /\ jobs[j].stage = 0
      BY DEF IngestionInit, ServiceInit, Init, NoJob
    <2>2. StageNotAhead
      <3>1. \A i \in Item : ~(i - 1 < 0)
        BY ItemsAreStages
      <3> QED BY <2>1, <3>1 DEF StageNotAhead
    <2>3. DOMAIN history = {}
      BY <1>4
    <2> QED BY <2>1, <2>2, <2>3 DEF ActivatedTogether, MovedBy
  <1> QED BY <1>1, <1>2, <1>3, <1>5, <1>6, <1>7 DEF IngestInv

LEMMA IngestStep == IngestInv /\ [IngestionNext]_ingestionVars => IngestInv' /\ [Next]_vars
  <1> SUFFICES ASSUME IngestInv, [IngestionNext]_ingestionVars
               PROVE  IngestInv' /\ [Next]_vars
    OBVIOUS
  <1>1. CASE UNCHANGED ingestionVars
    <2>1. UNCHANGED <<vars, task, sender, catalogState>>
      BY <1>1 DEF ingestionVars, serviceVars
    <2>2. [Next]_vars /\ CreditsStay /\ GrantsStay /\ NoNewSuccess /\ CatalogGrows
      BY <2>1, NothingWritten, NoMove
    <2>3. StageNotAhead'
      BY <2>1, <2>2, StagesKept DEF IngestInv, ActivatedTogether, vars
    <2>4. ServiceTyped(Reading)' /\ \A v \in Worker : FrameOK(v)'
      BY <2>1, <2>2, RestingKeeps DEF IngestInv, ServiceTyped, CatalogGrows
    <2> QED BY <2>2, <2>3, <2>4, QuietKeeps
  <1>2. CASE Others /\ UNCHANGED catalogState
    BY <1>2, OutsideKeeps, ProcessKeeps DEF Others
  <1>3. ASSUME NEW w \in Worker, Ingest(w) \/ Break(w) \/ (Crash(w) /\ UNCHANGED catalogState)
        PROVE  IngestInv' /\ [Next]_vars
    BY <1>3, IngestKeeps, BreakKeeps, IdleKeeps DEF Crash
  <1>4. CASE Operators
    BY <1>4, OperatorsKeep
  <1> QED BY <1>1, <1>2, <1>3, <1>4 DEF IngestionNext

(* Whatever crashes, takeovers and moves of operators come between the      *)
(* stages of an ingestion, its stages are credited in order and what a      *)
(* worker is about to commit is still so: the base of the theorems below.   *)
THEOREM IngestionInvariance == IngestionSafety => []IngestInv
  BY IngestInit, IngestStep, PTL DEF IngestionSafety

(* run_ingestion_job, process_job and the dispatcher change the job tables  *)
(* by transactions of the job store alone, each under a lease its worker    *)
(* was granted: every theorem about JobStore holds of an ingestion.         *)
THEOREM IngestionKeepsToTheStore == IngestionSafety => KeepsToTheStore
  <1>1. IngestionInit => Init
    BY DEF IngestionInit, ServiceInit
  <1> QED BY <1>1, IngestStep, IngestionInvariance, PTL DEF IngestionSafety, KeepsToTheStore, Spec

(* The pointer is moved in the name of a job once, together with the last   *)
(* item and the success of the job, after every stage was credited and the  *)
(* import made; and a job succeeds only if the target has been active.      *)
THEOREM ActivationsStayTogether == IngestionSafety => []ActivatedTogether
  <1>1. IngestInv => ActivatedTogether
    BY DEF IngestInv
  <1> QED BY <1>1, IngestionInvariance, PTL

(* A job moves the pointer only from where it read it inside the            *)
(* transaction of its activation: a move of an operator in between makes    *)
(* the activation fail.                                                     *)
THEOREM MovesAreNeverBlind == IngestionSafety => NoBlindMove
  <1> DEFINE Blind(w) == task[w].pc = "swap" /\ task'[w].pc = "confirm" /\ history' # history
  <1>1. ASSUME IngestInv, IngestionNext, NEW w \in Worker, Blind(w)
        PROVE  task[w].ref = pointer
    <2>1. CASE UNCHANGED task \/ UNCHANGED history
      BY <1>1, <2>1
    <2>2. ASSUME NEW v \in Worker, CommitActivation(v) PROVE task[w].ref = pointer
      <3>1. v = w
        BY <1>1, <2>2 DEF CommitActivation, IngestInv, ServiceTyped
      <3>2. Catalog!Activate(Seen(w), Target, Wanted, JobOf(w))
        BY <1>1, <2>2, <3>1 DEF CommitActivation, catalogState
      <3> QED BY <3>2 DEF Catalog!Activate, Catalog!Current, Seen
    <2>3. ASSUME NEW v \in Worker, Ingest(v), ~CommitActivation(v) PROVE UNCHANGED history
      BY <2>3 DEF Ingest, CheckStage, MarkStage, ClaimStage, Act, CheckResult, CompleteStage,
                  FailStage, OpenActivation, Refused, AbortActivation, Confirm, catalogState,
                  Catalog!Import
    <2>4. ASSUME NEW v \in Worker, Break(v) PROVE UNCHANGED history
      BY <2>4 DEF Break, catalogState
    <2>5. Operators => UNCHANGED task
      BY DEF Operators, serviceVars
    <2> QED BY <1>1, <2>1, <2>2, <2>3, <2>4, <2>5 DEF IngestionNext, catalogState
  <1>2. IngestInv /\ [IngestionNext]_ingestionVars
          => [\A w \in Worker : Blind(w) => task[w].ref = pointer]_ingestionVars
    BY <1>1
  <1>3. IngestionSafety => [][\A w \in Worker : Blind(w) => task[w].ref = pointer]_ingestionVars
    <2> HIDE DEF Blind
    <2> QED BY <1>2, IngestionInvariance, PTL DEF IngestionSafety
  <1> QED BY <1>3 DEF NoBlindMove
================================================================================
