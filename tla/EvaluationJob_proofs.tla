-------------------------- MODULE EvaluationJob_proofs --------------------------
(* Theorems about EvaluationJob, for every value of its constants: its     *)
(* processes keep to the transactions of JobStore, the ledger of the items *)
(* and the results on disk agree, and the aggregation is complete.         *)
EXTENDS EvaluationJob, JobStore_proofs

-----------------------------------------------------------------------------
(* The inductive invariant *)

Result == Ref \cup {None}

DiskTyped ==
  /\ attempt \in [Job -> [Item -> Result \cup {"failed"}]]
  /\ artifact \in [Job -> [Item -> Result]]
  /\ lock \in [Job -> Worker \cup {None}]

(* Where a worker is in the cases of its job, and after the last one.       *)
Loop == {"check", "claim", "credit", "evaluate", "run", "check again", "complete", "fail"}
After == {"last check", "to aggregating", "aggregate", "to completed"}

Credited(j, i) == items[j][i].status = "succeeded"
AllCredited(j) == \A i \in Item : Credited(j, i)

(* A worker in the cases or after them holds the lock of the experiment.    *)
LockHeld(w) == task[w].pc \in Loop \cup After => lock[JobOf(w)] = w

(* The cases are credited in order: those before the one a worker is at     *)
(* are, and after the last one all are.                                     *)
InOrder(w) ==
  /\ task[w].pc = "start" => task[w].next = 1
  /\ task[w].pc \in Loop =>
       Case(w) \in Item /\ \A i \in Item : i < Case(w) => Credited(JobOf(w), i)
  /\ task[w].pc \in After => AllCredited(JobOf(w))

(* What a worker knows of the result of its case is still true.             *)
ResultKnown(w) ==
  LET found == artifact[JobOf(w)][Case(w)]
  IN  /\ task[w].pc = "credit" => found # None
      /\ task[w].pc \in {"check again", "complete"} => found # None /\ task[w].ref = found
      /\ task[w].pc \in {"evaluate", "run"} => found = None

FrameOK(w) == LeaseHeld(w) /\ LockHeld(w) /\ InOrder(w) /\ ResultKnown(w)

(* A marker stands for the attempt beside it, which has succeeded.          *)
MarkersComplete ==
  \A j \in Job, i \in Item : artifact[j][i] # None =>
    attempt[j][i] = artifact[j][i] /\ artifact[j][i] # "failed"

StagesEarned == \A j \in Job : jobs[j].stage >= Aggregating => AllCredited(j)

EvalInv ==
  /\ IInv
  /\ ServiceTyped(Result)
  /\ DiskTyped
  /\ \A w \in Worker : FrameOK(w)
  /\ MarkersComplete
  /\ CreditedArtifacts
  /\ StagesEarned

-----------------------------------------------------------------------------
(* What a step of one worker leaves to the others *)

CreditsStay ==
  \A j \in Job, i \in Item : Credited(j, i) => items'[j][i] = items[j][i]

ResultsStay ==
  \A j \in Job, i \in Item : artifact[j][i] # None => artifact'[j][i] = artifact[j][i]

(* A lock is taken when it is free, and given back by its holder.           *)
LockStep(w) ==
  \/ lock' = lock
  \/ /\ lock[JobOf(w)] \in {None, w}
     /\ \E x \in {None, w} : lock' = [lock EXCEPT ![JobOf(w)] = x]

Aside(w) ==
  /\ OthersRest(w) /\ LockStep(w)
  /\ CreditsStay /\ ResultsStay /\ GrantsStay
  /\ \A v \in Worker \ {w} : task[v].pc \in {"evaluate", "run"} =>
       artifact'[JobOf(v)] = artifact[JobOf(v)]

LEMMA OthersKeep ==
  ASSUME EvalInv, NEW w \in Worker, Aside(w), NEW v \in Worker \ {w}
  PROVE  FrameOK(v)'
  <1>1. FrameOK(v) /\ task'[v] = task[v]
    BY DEF EvalInv, Aside, OthersRest
  <1>2. LeaseHeld(v)'
    BY <1>1, LeaseStaysHeld DEF FrameOK, Aside
  <1>3. CASE task[v].pc \notin Loop \cup After
    <2>1. LockHeld(v)' /\ InOrder(v)' /\ ResultKnown(v)'
      BY <1>1, <1>3 DEF FrameOK, LockHeld, InOrder, ResultKnown, Loop, After
    <2> QED BY <1>2, <2>1 DEF FrameOK
  <1>4. CASE task[v].pc \in Loop \cup After
    <2>1. JobOf(v) \in Job /\ JobOf(v)' = JobOf(v) /\ Case(v)' = Case(v)
      BY <1>1, <1>4 DEF FrameOK, LeaseHeld, JobOf, Case, Loop, After
    <2>2. lock'[JobOf(v)] = v
      <3>1. lock[JobOf(v)] = v /\ v # None /\ v # w
        BY <1>1, <1>4, NullIsFresh DEF FrameOK, LockHeld
      <3> QED BY <2>1, <3>1 DEF Aside, LockStep, EvalInv, DiskTyped
    <2>3. \A i \in Item : Credited(JobOf(v), i) => Credited(JobOf(v), i)'
      BY <1>1, <2>1 DEF Aside, CreditsStay, Credited, JobOf
    <2>4. InOrder(v)'
      BY <1>1, <2>1, <2>3 DEF FrameOK, InOrder, AllCredited, Credited, JobOf, Case
    <2>5. ResultKnown(v)'
      <3>1. task[v].pc \in Loop => Case(v) \in Item
        BY <1>1 DEF FrameOK, InOrder
      <3>2. task[v].pc \in {"credit", "check again", "complete"} =>
              artifact'[JobOf(v)][Case(v)] = artifact[JobOf(v)][Case(v)]
        BY <1>1, <2>1, <3>1 DEF FrameOK, ResultKnown, Aside, ResultsStay, Loop
      <3>3. task[v].pc \in {"evaluate", "run"} =>
              artifact'[JobOf(v)][Case(v)] = artifact[JobOf(v)][Case(v)]
        BY DEF Aside
      <3> QED BY <1>1, <2>1, <3>2, <3>3 DEF FrameOK, ResultKnown, JobOf, Case
    <2> QED BY <1>1, <1>2, <2>1, <2>2, <2>4, <2>5 DEF FrameOK, LockHeld, JobOf
  <1> QED BY <1>3, <1>4

(* Types outlive a step that writes only one worker's frame and one lock.   *)
LEMMA TypesStay ==
  ASSUME EvalInv, task' \in [Worker -> TaskRow(Result)], UNCHANGED sender,
         NEW w \in Worker, LockStep(w), UNCHANGED disk
  PROVE  ServiceTyped(Result)' /\ DiskTyped'
  <1>1. lock' \in [Job -> Worker \cup {None}]
    BY DEF LockStep, EvalInv, DiskTyped
  <1> QED BY <1>1 DEF EvalInv, ServiceTyped, DiskTyped, disk

(* A step of one worker that credits nothing and leaves the disk alone.     *)
LEMMA QuietKeeps ==
  ASSUME EvalInv, NEW w \in Worker, [Next]_vars, NoNewCredit, UNCHANGED disk,
         OthersRest(w), LockStep(w), UNCHANGED sender,
         task' \in [Worker -> TaskRow(Result)], FrameOK(w)'
  PROVE  EvalInv'
  <1>1. IInv' /\ GrantsStay
    BY StepInvariant, StepsKeepGrants DEF EvalInv, IInv
  <1>2. ServiceTyped(Result)' /\ DiskTyped'
    BY TypesStay
  <1>3. Aside(w)
    BY <1>1 DEF Aside, CreditsStay, ResultsStay, NoNewCredit, Credited, disk
  <1>4. \A v \in Worker : FrameOK(v)'
    BY <1>3, OthersKeep
  <1>5. MarkersComplete' /\ CreditedArtifacts' /\ StagesEarned'
    <2>1. MarkersComplete'
      BY DEF EvalInv, MarkersComplete, disk
    <2>2. CreditedArtifacts'
      BY DEF EvalInv, CreditedArtifacts, NoNewCredit, disk
    <2>3. StagesEarned'
      BY DEF EvalInv, StagesEarned, AllCredited, Credited, NoNewCredit
    <2> QED BY <2>1, <2>2, <2>3
  <1> QED BY <1>1, <1>2, <1>4, <1>5 DEF EvalInv

-----------------------------------------------------------------------------
(* Where a worker goes *)

(* A worker that leaves the work, or the lock, has nothing more to keep.    *)
LEMMA AwayIsFine ==
  ASSUME NEW w \in Worker, FrameOK(w), GrantsStay, task[w].pc # "idle", SamePlace(w),
         task'[w].pc \in {"idle", "finish", "lost", "check success", "succeed"}
  PROVE  FrameOK(w)'
  <1>1. LeaseHeld(w)'
    BY LeaseStaysHeld DEF FrameOK, SamePlace
  <1> QED BY <1>1 DEF FrameOK, LockHeld, InOrder, ResultKnown, Loop, After

(* A worker that goes on with its case, under its lock.                     *)
LEMMA OnwardIsFine ==
  ASSUME EvalInv, NEW w \in Worker, GrantsStay, CreditsStay,
         task[w].pc \in Loop, SamePlace(w), UNCHANGED lock,
         task'[w].pc \in Loop, ResultKnown(w)'
  PROVE  FrameOK(w)'
  <1>1. FrameOK(w) /\ task[w].pc # "idle"
    BY DEF EvalInv, Loop
  <1>2. LeaseHeld(w)'
    BY <1>1, LeaseStaysHeld DEF FrameOK, SamePlace
  <1>3. JobOf(w) \in Job /\ JobOf(w)' = JobOf(w) /\ Case(w)' = Case(w)
    BY <1>1 DEF FrameOK, LeaseHeld, SamePlace, SameClaim, JobOf, Case
  <1>4. LockHeld(w)'
    BY <1>1, <1>3 DEF FrameOK, LockHeld, JobOf
  <1>5. InOrder(w)'
    <2>1. task'[w].pc # "start" /\ task'[w].pc \notin After
      BY DEF Loop, After
    <2>2. \A i \in Item : Credited(JobOf(w), i) => Credited(JobOf(w), i)'
      BY <1>3 DEF CreditsStay, Credited, JobOf
    <2> QED BY <1>1, <1>3, <2>1, <2>2 DEF FrameOK, InOrder, Case
  <1> QED BY <1>2, <1>4, <1>5 DEF FrameOK

(* The same for one that has the cases behind it.                           *)
LEMMA AfterIsFine ==
  ASSUME EvalInv, NEW w \in Worker, GrantsStay, CreditsStay,
         task[w].pc \in After, SamePlace(w), UNCHANGED lock, task'[w].pc \in After
  PROVE  FrameOK(w)'
  <1>1. FrameOK(w) /\ task[w].pc # "idle"
    BY DEF EvalInv, After
  <1>2. LeaseHeld(w)'
    BY <1>1, LeaseStaysHeld DEF FrameOK, SamePlace
  <1>3. JobOf(w) \in Job /\ JobOf(w)' = JobOf(w)
    BY <1>1 DEF FrameOK, LeaseHeld, SamePlace, SameClaim, JobOf
  <1>4. LockHeld(w)'
    BY <1>1, <1>3 DEF FrameOK, LockHeld, JobOf
  <1>5. \A i \in Item : Credited(JobOf(w), i)'
    BY <1>1, <1>3 DEF FrameOK, InOrder, AllCredited, CreditsStay, Credited, JobOf
  <1>6. InOrder(w)' /\ ResultKnown(w)'
    BY <1>5 DEF InOrder, AllCredited, ResultKnown, After, Loop
  <1> QED BY <1>2, <1>4, <1>6 DEF FrameOK

(* On to the next case, or out of the loop, once this one is credited.      *)
LEMMA NextCaseIsFine ==
  ASSUME EvalInv, NEW w \in Worker, GrantsStay, CreditsStay, task[w].pc \in Loop, NextCase(w),
         NEW j \in Job, j = JobOf(w), NEW n \in Item, n = Case(w), Credited(j, n)'
  PROVE  task' \in [Worker -> TaskRow(Result)] /\ OthersRest(w) /\ FrameOK(w)'
  <1>1. FrameOK(w) /\ task[w].pc # "idle" /\ task[w] \in TaskRow(Result)
    BY DEF EvalInv, Loop, ServiceTyped
  <1>2. n \in Nat /\ n \in 1..Cases /\ Cases \in Nat /\ task[w].next = n /\ task[w].job = j
    BY ItemsAreCases DEF Case, JobOf
  <1> DEFINE pc == IF n = Cases THEN "last check" ELSE "check"
             new == [task[w] EXCEPT !.next = n + 1, !.ref = None, !.pc = pc]
  <1>3. pc \in {"last check", "check"} /\ pc \in Place
    BY DEF Place
  <1>4. task' = [task EXCEPT ![w] = new] /\ UNCHANGED lock
    BY <1>1, <1>2 DEF NextCase, Case, EvalInv, ServiceTyped
  <1>5. pc = "last check" <=> n = Cases
    OBVIOUS
  <1> HIDE DEF pc
  <1>6. /\ new \in TaskRow(Result) /\ new.pc = pc /\ new.next = n + 1
        /\ new.job = task[w].job /\ new.epoch = task[w].epoch /\ new.stage = task[w].stage
    <2>1. n + 1 \in Nat /\ None \in Result
      BY <1>2 DEF Result
    <2> QED BY <1>1, <1>3, <2>1 DEF TaskRow
  <1> HIDE DEF new
  <1>7. task' \in [Worker -> TaskRow(Result)] /\ OthersRest(w) /\ task'[w] = new
    BY <1>4, <1>6 DEF EvalInv, ServiceTyped, OthersRest
  <1>8. LeaseHeld(w)'
    BY <1>1, <1>6, <1>7, LeaseStaysHeld DEF FrameOK, SameClaim
  <1>9. task'[w].job = j /\ task'[w].next = n + 1 /\ task'[w].pc = pc
    BY <1>2, <1>6, <1>7
  <1>10. \A i \in Item : i <= n => Credited(j, i)'
    <2>1. \A i \in Item : i < n => Credited(j, i)
      BY <1>1, <1>2 DEF FrameOK, InOrder, Case, JobOf
    <2>2. \A i \in Item : Credited(j, i) => Credited(j, i)'
      BY DEF CreditsStay, Credited
    <2>3. \A i \in Item : i <= n => i < n \/ i = n
      BY <1>2, ItemsAreCases
    <2> QED BY <2>1, <2>2, <2>3
  <1>11. LockHeld(w)'
    BY <1>1, <1>2, <1>4, <1>9 DEF FrameOK, LockHeld, JobOf
  <1>12. ResultKnown(w)'
    BY <1>3, <1>9 DEF ResultKnown
  <1>13. InOrder(w)'
    <2>1. CASE pc = "last check"
      <3>1. \A i \in Item : i <= n
        <4>1. n = Cases
          BY <1>5, <2>1
        <4>2. \A i \in 1..Cases : i <= Cases
          BY <1>2
        <4> QED BY <4>1, <4>2, ItemsAreCases
      <3> QED BY <1>9, <1>10, <2>1, <3>1 DEF InOrder, AllCredited, Loop, After, JobOf
    <2>2. CASE pc = "check"
      <3>1. n + 1 \in Item
        BY <1>2, <1>5, <2>2, ItemsAreCases
      <3>2. \A i \in Item : i < n + 1 => i <= n
        BY <1>2, ItemsAreCases
      <3> QED BY <1>9, <1>10, <2>2, <3>1, <3>2 DEF InOrder, Loop, After, JobOf, Case
    <2> QED BY <1>3, <2>1, <2>2
  <1> QED BY <1>7, <1>8, <1>11, <1>12, <1>13 DEF FrameOK

-----------------------------------------------------------------------------
(* The steps of a worker *)

(* What no transaction touches stays as it is.                              *)
LEMMA NothingWritten ==
  ASSUME EvalInv, UNCHANGED vars
  PROVE  [Next]_vars /\ NoNewCredit /\ CreditsStay /\ GrantsStay
  BY DEF vars, NoNewCredit, CreditsStay, GrantsStay

(* The lease of a worker at work, and the lock of one in its cases.         *)
LEMMA AtWork ==
  ASSUME EvalInv, NEW w \in Worker, task[w].pc # "idle"
  PROVE  /\ JobOf(w) \in Job /\ LeaseHeld(w) /\ FrameOK(w) /\ TypeOK /\ ServiceTyped(Result)
         /\ task[w].pc \in Loop => Case(w) \in Item
         /\ task[w].pc \in Loop \cup After => lock[JobOf(w)] = w
  BY DEF EvalInv, IInv, FrameOK, LeaseHeld, InOrder, LockHeld, JobOf

(* Leaving the work, with the lock given back, kept or not held.            *)
LEMMA LeavingKeeps ==
  ASSUME EvalInv, NEW w \in Worker, task[w].pc # "idle",
         [Next]_vars, NoNewCredit, UNCHANGED <<disk, sender>>,
         \/ GoFail(w, "other") \/ GoCancel(w) \/ Goto(w, "lost")
         \/ Goto(w, "check success") \/ Goto(w, "succeed"),
         LockStep(w)
  PROVE  EvalInv'
  <1>1. ServiceTyped(Result) /\ {"lost", "check success", "succeed"} \subseteq Place
    BY DEF EvalInv, Place
  <1>2. /\ task' \in [Worker -> TaskRow(Result)] /\ OthersRest(w) /\ SamePlace(w)
        /\ task'[w].pc \in {"finish", "lost", "check success", "succeed"}
    BY <1>1, GotoWrites, GoFailWrites
  <1>3. GrantsStay
    BY StepsKeepGrants DEF EvalInv, IInv
  <1>4. FrameOK(w)'
    BY <1>2, <1>3, AwayIsFine DEF EvalInv
  <1> QED BY <1>2, <1>4, QuietKeeps

LEMMA UnlockIsALockStep ==
  ASSUME NEW w \in Worker, lock[JobOf(w)] = w, Unlock(w) \/ UNCHANGED lock
  PROVE  LockStep(w)
  BY DEF LockStep, Unlock

(* The same where the write was refused.                                    *)
LEMMA RefusedKeeps ==
  ASSUME EvalInv, NEW w \in Worker, task[w].pc \in Loop \cup After, Refused(w),
         UNCHANGED <<disk, sender>>
  PROVE  EvalInv'
  <1>1. task[w].pc # "idle"
    BY DEF Loop, After
  <1>2. LockStep(w)
    BY <1>1, AtWork, UnlockIsALockStep DEF Refused
  <1> QED BY <1>1, <1>2, NothingWritten, LeavingKeeps DEF Refused

LEMMA AcquireLockKeeps ==
  ASSUME EvalInv, NEW w \in Worker, AcquireLock(w)
  PROVE  EvalInv'
  <1>1. task[w].pc = "start" /\ FrameOK(w) /\ JobOf(w) \in Job /\ ServiceTyped(Result)
    BY AtWork DEF AcquireLock
  <1>2. UNCHANGED <<vars, sender, disk>> /\ LockStep(w)
    BY DEF AcquireLock, LockStep
  <1> DEFINE pc == IF Cases = 0 THEN "last check" ELSE "check"
  <1>3. pc \in Place /\ Goto(w, pc)
    BY DEF Place, AcquireLock
  <1>4. (pc = "last check" /\ Cases = 0) \/ (pc = "check" /\ Cases # 0)
    OBVIOUS
  <1> HIDE DEF pc
  <1>5. task' \in [Worker -> TaskRow(Result)] /\ OthersRest(w) /\ SamePlace(w) /\ task'[w].pc = pc
    BY <1>1, <1>3, GotoWrites
  <1>6. LeaseHeld(w)'
    BY <1>1, <1>2, <1>5, NothingWritten, LeaseStaysHeld DEF FrameOK, SamePlace
  <1>7. LockHeld(w)'
    <2>1. lock' = [lock EXCEPT ![JobOf(w)] = w] /\ JobOf(w)' = JobOf(w)
      BY <1>5 DEF AcquireLock, JobOf, SamePlace, SameClaim
    <2> QED BY <1>1, <2>1 DEF LockHeld, EvalInv, DiskTyped
  <1>8. ResultKnown(w)'
    BY <1>4, <1>5 DEF ResultKnown
  <1>9. InOrder(w)'
    <2>1. CASE pc = "last check" /\ Cases = 0
      <3>1. \A i \in Item : FALSE
        <4>1. \A i \in 1..0 : FALSE
          OBVIOUS
        <4>2. Item = 1..0
          BY <2>1, ItemsAreCases
        <4> QED BY <4>1, <4>2
      <3> QED BY <1>5, <2>1, <3>1 DEF InOrder, AllCredited, Loop
    <2>2. CASE pc = "check" /\ Cases # 0
      <3>1. 1 \in Item /\ \A i \in Item : ~(i < 1)
        BY <2>2, ItemsAreCases
      <3>2. task'[w].next = 1
        BY <1>1, <1>5 DEF FrameOK, InOrder, SamePlace
      <3> QED BY <1>5, <2>2, <3>1, <3>2 DEF InOrder, Case, After
    <2> QED BY <1>4, <2>1, <2>2
  <1>10. FrameOK(w)'
    BY <1>6, <1>7, <1>8, <1>9 DEF FrameOK
  <1> QED BY <1>2, <1>5, <1>10, NothingWritten, QuietKeeps

LEMMA ChecksKeep ==
  ASSUME EvalInv, NEW w \in Worker,
         CheckCase(w) \/ CheckResult(w) \/ LastCheck(w) \/ CheckSuccess(w)
  PROVE  EvalInv' /\ UNCHANGED vars
  <1>1. ASSUME task[w].pc \in Loop \cup After, NEW onward \in Place, CheckHeld(w, onward),
               \/ task[w].pc = "check" /\ onward = "claim"
               \/ task[w].pc = "check again" /\ onward = "complete"
               \/ task[w].pc = "last check" /\ onward \in {"aggregate", "to aggregating"}
        PROVE  EvalInv' /\ UNCHANGED vars
    <2>1. task[w].pc # "idle" /\ onward \notin {"lost", "finish"}
      BY <1>1 DEF Loop, After
    <2>2. Check(w, onward) /\ UNCHANGED disk
          /\ (IF task'[w].pc = onward THEN UNCHANGED lock ELSE Unlock(w))
      BY <1>1 DEF CheckHeld
    <2>3. /\ task' \in [Worker -> TaskRow(Result)] /\ OthersRest(w) /\ SamePlace(w)
          /\ task'[w].pc \in {onward, "lost", "finish"}
          /\ UNCHANGED <<vars, sender>>
      BY <1>1, <2>2, CheckGoes DEF EvalInv
    <2>4. [Next]_vars /\ NoNewCredit /\ CreditsStay /\ GrantsStay
      BY <2>3, NothingWritten
    <2>5. LockStep(w)
      BY <1>1, <2>1, <2>2, AtWork, UnlockIsALockStep
    <2>6. CASE task'[w].pc \in {"lost", "finish"}
      <3>1. FrameOK(w)'
        BY <2>1, <2>3, <2>4, <2>6, AwayIsFine DEF EvalInv
      <3> QED BY <2>2, <2>3, <2>4, <2>5, <3>1, QuietKeeps
    <2>7. CASE task'[w].pc = onward
      <3>1. UNCHANGED lock
        BY <2>2, <2>7
      <3>2. CASE task[w].pc = "last check"
        <4>1. task[w].pc \in After /\ task'[w].pc \in After
          BY <1>1, <2>7, <3>2 DEF After
        <4>2. FrameOK(w)'
          BY <2>3, <2>4, <3>1, <4>1, AfterIsFine
        <4> QED BY <2>2, <2>3, <2>4, <2>5, <4>2, QuietKeeps
      <3>3. CASE task[w].pc \in {"check", "check again"}
        <4>1. task[w].pc \in Loop /\ task'[w].pc \in Loop
          BY <1>1, <2>7, <3>3 DEF Loop
        <4>2. ResultKnown(w)'
          <5>1. ResultKnown(w) /\ JobOf(w)' = JobOf(w) /\ Case(w)' = Case(w) /\ artifact' = artifact
            BY <2>2, <2>3 DEF EvalInv, FrameOK, SamePlace, SameClaim, JobOf, Case, disk
          <5> QED BY <1>1, <2>3, <2>7, <3>3, <5>1 DEF ResultKnown, SamePlace
        <4>3. FrameOK(w)'
          BY <2>3, <2>4, <3>1, <4>1, <4>2, OnwardIsFine
        <4> QED BY <2>2, <2>3, <2>4, <2>5, <4>3, QuietKeeps
      <3> QED BY <1>1, <3>2, <3>3
    <2> QED BY <2>3, <2>6, <2>7
  <1>2. CASE CheckCase(w)
    <2>1. task[w].pc = "check" /\ CheckHeld(w, "claim")
      BY <1>2 DEF CheckCase
    <2>2. task[w].pc \in Loop /\ "claim" \in Place
      BY <2>1 DEF Loop, Place
    <2> QED BY <1>1, <2>1, <2>2
  <1>3. CASE CheckResult(w)
    <2>1. task[w].pc = "check again" /\ CheckHeld(w, "complete")
      BY <1>3 DEF CheckResult
    <2>2. task[w].pc \in Loop /\ "complete" \in Place
      BY <2>1 DEF Loop, Place
    <2> QED BY <1>1, <2>1, <2>2
  <1>4. CASE LastCheck(w)
    <2>1. PICK onward \in {"aggregate", "to aggregating"} :
                 task[w].pc = "last check" /\ CheckHeld(w, onward)
      BY <1>4 DEF LastCheck
    <2>2. task[w].pc \in After /\ onward \in Place
      BY <2>1 DEF After, Place
    <2> QED BY <1>1, <2>1, <2>2
  <1>5. CASE CheckSuccess(w)
    <2>1. task[w].pc # "idle" /\ Check(w, "succeed") /\ UNCHANGED <<disk, lock>>
      BY <1>5 DEF CheckSuccess
    <2>2. Goto(w, "lost") \/ GoCancel(w) \/ Goto(w, "succeed")
      BY <2>1 DEF Check
    <2>3. UNCHANGED <<vars, sender>>
      BY <2>1 DEF Check
    <2> QED BY <2>1, <2>2, <2>3, NothingWritten, LeavingKeeps DEF LockStep
  <1> QED BY <1>2, <1>3, <1>4, <1>5

(* claim_item and what was found on disk.                                   *)
LEMMA ClaimCaseKeeps ==
  ASSUME EvalInv, NEW w \in Worker, ClaimCase(w)
  PROVE  EvalInv' /\ [Next]_vars
  <1> DEFINE j == JobOf(w)
             e == task[w].epoch
             i == Case(w)
             found == artifact[j][i]
             Claimed == ClaimNewItem(j, w, e, i) \/ RetryItem(j, w, e, i)
             Written == UNCHANGED vars \/ Claimed \/ ExhaustItem(j, w, e, i)
  <1>0. task[w].pc = "claim" /\ UNCHANGED <<sender, disk>>
    BY DEF ClaimCase
  <1>1. /\ task[w].pc \in Loop /\ task[w].pc # "idle"
        /\ j \in Job /\ i \in Item /\ FrameOK(w) /\ LeaseHeld(w) /\ TypeOK /\ ServiceTyped(Result)
        /\ lock[j] = w
    BY <1>0, AtWork DEF Loop
  <1>2. \/ NextCase(w) /\ UNCHANGED vars /\ Credited(j, i)
        \/ (GoFail(w, "other") \/ GoCancel(w) \/ Goto(w, "lost")) /\ Unlock(w) /\ Written
        \/ Goto(w, "credit") /\ UNCHANGED lock /\ found # None /\ Written
        \/ Goto(w, "evaluate") /\ UNCHANGED lock /\ found = None /\ Written
    BY DEF ClaimCase, Credited
  <1> HIDE DEF found
  <1>3. ASSUME Written PROVE [Next]_vars /\ NoNewCredit
    <2>1. CASE UNCHANGED vars
      BY <2>1, NothingWritten
    <2>2. CASE Claimed \/ ExhaustItem(j, w, e, i)
      <3>1. NoNewCredit
        BY <1>1, <2>2, ClaimsCreditNothing
      <3>2. ItemCall(j, w, e, i)
        BY <2>2 DEF ItemCall
      <3> QED BY <1>1, <3>1, <3>2, CallsAreCalls DEF JobOf
    <2> QED BY <1>3, <2>1, <2>2
  <1>4. LockStep(w) \/ NextCase(w)
    BY <1>1, <1>2, UnlockIsALockStep
  <1>5. CASE (GoFail(w, "other") \/ GoCancel(w) \/ Goto(w, "lost")) /\ Unlock(w) /\ Written
    <2>1. LockStep(w)
      BY <1>1, <1>5, UnlockIsALockStep
    <2> QED BY <1>0, <1>1, <1>3, <1>5, <2>1, LeavingKeeps
  <1>6. CASE NextCase(w) /\ UNCHANGED vars /\ Credited(j, i)
    <2>1. [Next]_vars /\ NoNewCredit /\ CreditsStay /\ GrantsStay
      BY <1>6, NothingWritten
    <2>2. PICK m \in Item : m = Case(w)
      BY <1>1
    <2>3. PICK k \in Job : k = JobOf(w)
      BY <1>1
    <2>4. Credited(k, m)'
      BY <1>6, <2>2, <2>3 DEF Credited, vars
    <2>5. task' \in [Worker -> TaskRow(Result)] /\ OthersRest(w) /\ FrameOK(w)'
      BY <1>1, <1>6, <2>1, <2>2, <2>3, <2>4, NextCaseIsFine
    <2>6. LockStep(w)
      BY <1>6 DEF NextCase, LockStep
    <2> QED BY <1>0, <2>1, <2>5, <2>6, QuietKeeps
  <1>7. CASE \/ Goto(w, "credit") /\ UNCHANGED lock /\ found # None /\ Written
             \/ Goto(w, "evaluate") /\ UNCHANGED lock /\ found = None /\ Written
    <2>1. [Next]_vars /\ NoNewCredit
      BY <1>3, <1>7
    <2>2. GrantsStay /\ CreditsStay
      BY <1>1, <2>1, StepsKeepGrants DEF NoNewCredit, CreditsStay, Credited
    <2>3. PICK pc \in {"credit", "evaluate"} :
                 Goto(w, pc) /\ (pc = "credit" <=> found # None)
      BY <1>7
    <2>4. pc \in Loop /\ pc \in Place
      BY <2>3 DEF Loop, Place
    <2>5. task' \in [Worker -> TaskRow(Result)] /\ OthersRest(w) /\ SamePlace(w) /\ task'[w].pc = pc
      BY <1>1, <2>3, <2>4, GotoWrites
    <2>6. ResultKnown(w)'
      <3>1. JobOf(w)' = j /\ Case(w)' = i /\ artifact' = artifact
        BY <1>0, <2>5 DEF SamePlace, SameClaim, JobOf, Case, disk
      <3> QED BY <2>3, <2>5, <3>1 DEF ResultKnown, found
    <2>7. UNCHANGED lock /\ LockStep(w)
      BY <1>7 DEF LockStep
    <2>8. FrameOK(w)'
      BY <1>1, <2>2, <2>4, <2>5, <2>6, <2>7, OnwardIsFine
    <2> QED BY <1>0, <2>1, <2>5, <2>7, <2>8, QuietKeeps
  <1> QED BY <1>2, <1>3, <1>5, <1>6, <1>7, NothingWritten

(* A case is credited with the result that is on disk.                      *)
LEMMA CreditKeeps ==
  ASSUME EvalInv, NEW w \in Worker, task[w].pc \in {"credit", "complete"},
         NEW j \in Job, j = JobOf(w), NEW i \in Item, i = Case(w),
         \/ CompleteItem(j, w, task[w].epoch, i, artifact[j][i])
         \/ ReconcileItem(j, w, task[w].epoch, i, artifact[j][i]),
         NextCase(w), UNCHANGED <<disk, sender>>
  PROVE  EvalInv' /\ [Next]_vars
  <1>1. task[w].pc \in Loop /\ task[w].pc # "idle"
    BY DEF Loop
  <1>2. FrameOK(w) /\ LeaseHeld(w) /\ TypeOK
    BY <1>1, AtWork
  <1>3. artifact[j][i] # None /\ artifact[j][i] \in Ref
    <2>1. artifact[j][i] # None
      BY <1>2 DEF FrameOK, ResultKnown
    <2>2. artifact[j][i] \in Ref \cup {None}
      BY DEF EvalInv, DiskTyped, Result
    <2> QED BY <2>1, <2>2
  <1>4. Next
    <2>1. ItemCall(j, w, task[w].epoch, i)
      BY <1>3 DEF ItemCall
    <2> QED BY <1>1, <1>2, <2>1, CallsAreCalls DEF JobOf
  <1>5. OneItem(j, i) /\ Credited(j, i)' /\ items'[j][i].ref = artifact[j][i]
    BY <1>2, CreditsAreNew DEF Credited
  <1>6. CreditsStay /\ GrantsStay /\ IInv'
    <2>1. CreditsStay
      BY <1>5 DEF OneItem, CreditsStay, Credited
    <2> QED BY <1>2, <1>4, <2>1, StepsKeepGrants, StepInvariant DEF EvalInv
  <1>7. task' \in [Worker -> TaskRow(Result)] /\ OthersRest(w) /\ FrameOK(w)'
    BY <1>1, <1>5, <1>6, NextCaseIsFine
  <1>8. LockStep(w)
    BY DEF NextCase, LockStep
  <1>9. ServiceTyped(Result)' /\ DiskTyped'
    BY <1>7, <1>8, TypesStay
  <1>10. Aside(w)
    BY <1>6, <1>7, <1>8 DEF Aside, ResultsStay, disk
  <1>11. \A v \in Worker : FrameOK(v)'
    BY <1>7, <1>10, OthersKeep
  <1>12. MarkersComplete'
    BY DEF EvalInv, MarkersComplete, disk
  <1>13. CreditedArtifacts'
    <2>1. ASSUME NEW k \in Job, NEW l \in Item, items'[k][l].status = "succeeded"
          PROVE  artifact'[k][l] = items'[k][l].ref /\ artifact'[k][l] # None
      <3>1. artifact' = artifact
        BY DEF disk
      <3>2. CASE k = j /\ l = i
        BY <1>3, <1>5, <3>1, <3>2
      <3>3. CASE k # j \/ l # i
        BY <1>5, <2>1, <3>1, <3>3 DEF OneItem, EvalInv, CreditedArtifacts
      <3> QED BY <3>2, <3>3
    <2> QED BY <2>1 DEF CreditedArtifacts
  <1>14. StagesEarned'
    BY <1>5, <1>6 DEF OneItem, EvalInv, StagesEarned, AllCredited, CreditsStay, Credited
  <1> QED BY <1>4, <1>6, <1>9, <1>11, <1>12, <1>13, <1>14 DEF EvalInv

LEMMA CreditCaseKeeps ==
  ASSUME EvalInv, NEW w \in Worker, CreditCase(w) \/ CompleteCase(w)
  PROVE  EvalInv' /\ [Next]_vars
  <1>1. task[w].pc \in {"credit", "complete"} /\ UNCHANGED <<disk, sender>>
    BY DEF CreditCase, CompleteCase
  <1>2. task[w].pc \in Loop /\ task[w].pc # "idle"
    BY <1>1 DEF Loop
  <1>3. FrameOK(w) /\ JobOf(w) \in Job /\ Case(w) \in Item /\ lock[JobOf(w)] = w
    BY <1>2, AtWork
  <1>4. CASE Refused(w)
    BY <1>1, <1>2, <1>4, RefusedKeeps DEF Refused
  <1>5. CASE Goto(w, "lost") /\ Unlock(w) /\ UNCHANGED vars
    <2>1. LockStep(w)
      BY <1>3, <1>5, UnlockIsALockStep
    <2> QED BY <1>1, <1>2, <1>5, <2>1, NothingWritten, LeavingKeeps
  <1>6. CASE /\ \/ CompleteItem(JobOf(w), w, task[w].epoch, Case(w), task[w].ref)
                  /\ task[w].pc = "complete"
                \/ ReconcileItem(JobOf(w), w, task[w].epoch, Case(w),
                                 artifact[JobOf(w)][Case(w)])
             /\ NextCase(w)
    <2>1. task[w].pc = "complete" => task[w].ref = artifact[JobOf(w)][Case(w)]
      BY <1>3 DEF FrameOK, ResultKnown
    <2> QED BY <1>1, <1>3, <1>6, <2>1, CreditKeeps
  <1> QED BY <1>4, <1>5, <1>6 DEF CreditCase, CompleteCase

(* A recorded stage is one that was earned.                                 *)
LEMMA StageKeeps ==
  ASSUME EvalInv, NEW w \in Worker, task[w].pc # "idle", NEW stage,
         NEW j \in Job, j = JobOf(w), SetStage(j, w, task[w].epoch, stage),
         stage < Aggregating \/ AllCredited(j),
         OthersRest(w), LockStep(w), UNCHANGED <<disk, sender>>,
         task' \in [Worker -> TaskRow(Result)],
         GrantsStay /\ CreditsStay => FrameOK(w)'
  PROVE  EvalInv' /\ [Next]_vars
  <1>1. LeaseHeld(w) /\ TypeOK
    BY AtWork
  <1>2. Next
    <2>1. stage \in 0..LastStage(jobs[j].kind)
      <3>1. jobs[j].stage \in Nat /\ LastStage(jobs[j].kind) \in Int
        BY <1>1, LimitsArePositive DEF TypeOK, JobRow, LastStage, Stages
      <3>2. stage \in jobs[j].stage .. LastStage(jobs[j].kind)
        BY DEF SetStage
      <3> QED BY <3>1, <3>2
    <2>2. JobCall(j, w, task[w].epoch)
      BY <2>1 DEF JobCall
    <2> QED BY <1>1, <2>2, CallsAreCalls DEF JobOf
  <1>3. UNCHANGED items /\ jobs'[j].stage = stage /\ \A k \in Job \ {j} : jobs'[k] = jobs[k]
    BY <1>1, StageWritten
  <1>4. GrantsStay /\ CreditsStay /\ IInv'
    BY <1>1, <1>2, <1>3, StepsKeepGrants, StepInvariant DEF EvalInv, CreditsStay
  <1>5. ServiceTyped(Result)' /\ DiskTyped'
    BY TypesStay
  <1>6. Aside(w)
    BY <1>4 DEF Aside, ResultsStay, disk
  <1>7. \A v \in Worker : FrameOK(v)'
    BY <1>4, <1>6, OthersKeep
  <1>8. MarkersComplete' /\ CreditedArtifacts'
    BY <1>3 DEF EvalInv, MarkersComplete, CreditedArtifacts, disk
  <1>9. StagesEarned'
    <2>1. ASSUME NEW k \in Job, jobs'[k].stage >= Aggregating PROVE AllCredited(k)'
      <3>1. AllCredited(k)
        <4>1. CASE k = j
          <5>1. stage \in Int
            BY DEF SetStage
          <5>2. ~(stage < Aggregating)
            BY <1>3, <2>1, <4>1, <5>1 DEF Aggregating
          <5> QED BY <4>1, <5>2
        <4>2. CASE k # j
          BY <1>3, <2>1, <4>2 DEF EvalInv, StagesEarned
        <4> QED BY <4>1, <4>2
      <3> QED BY <1>3, <3>1 DEF AllCredited, Credited
    <2> QED BY <2>1 DEF StagesEarned
  <1> QED BY <1>2, <1>4, <1>5, <1>7, <1>8, <1>9 DEF EvalInv

LEMMA MarksKeep ==
  ASSUME EvalInv, NEW w \in Worker,
         MarkEvaluating(w) \/ MarkAggregating(w) \/ MarkCompleted(w)
  PROVE  EvalInv' /\ [Next]_vars
  <1>1. /\ task[w].pc \in {"evaluate", "to aggregating", "to completed"}
        /\ UNCHANGED <<disk, sender>>
    BY DEF MarkEvaluating, MarkAggregating, MarkCompleted
  <1>2. task[w].pc \in Loop \cup After /\ task[w].pc # "idle"
    BY <1>1 DEF Loop, After
  <1>3. /\ FrameOK(w) /\ JobOf(w) \in Job /\ lock[JobOf(w)] = w /\ ServiceTyped(Result)
        /\ {"run", "aggregate", "check success"} \subseteq Place
    BY <1>2, AtWork DEF Place
  <1>4. CASE Refused(w)
    BY <1>1, <1>2, <1>4, RefusedKeeps DEF Refused
  <1>5. CASE /\ task[w].pc = "evaluate" /\ SetStage(JobOf(w), w, task[w].epoch, Evaluating)
             /\ Goto(w, "run") /\ UNCHANGED lock
    <2>1. task' \in [Worker -> TaskRow(Result)] /\ OthersRest(w) /\ SamePlace(w) /\ task'[w].pc = "run"
      BY <1>3, <1>5, GotoWrites
    <2>2. task[w].pc \in Loop /\ task'[w].pc \in Loop
      BY <1>5, <2>1 DEF Loop
    <2>3. ResultKnown(w)'
      <3>1. ResultKnown(w) /\ JobOf(w)' = JobOf(w) /\ Case(w)' = Case(w) /\ artifact' = artifact
        BY <1>1, <1>3, <2>1 DEF FrameOK, SamePlace, SameClaim, JobOf, Case, disk
      <3> QED BY <1>5, <2>1, <3>1 DEF ResultKnown
    <2>4. GrantsStay /\ CreditsStay => FrameOK(w)'
      BY <1>5, <2>1, <2>2, <2>3, OnwardIsFine
    <2>5. LockStep(w) /\ Evaluating < Aggregating
      BY <1>5 DEF LockStep, Evaluating, Aggregating
    <2> QED BY <1>1, <1>2, <1>3, <1>5, <2>1, <2>4, <2>5, StageKeeps
  <1>6. CASE /\ task[w].pc = "to aggregating"
             /\ SetStage(JobOf(w), w, task[w].epoch, Aggregating)
             /\ Goto(w, "aggregate") /\ UNCHANGED lock
    <2>1. /\ task' \in [Worker -> TaskRow(Result)] /\ OthersRest(w) /\ SamePlace(w)
          /\ task'[w].pc = "aggregate"
      BY <1>3, <1>6, GotoWrites
    <2>2. task[w].pc \in After /\ task'[w].pc \in After
      BY <1>6, <2>1 DEF After
    <2>3. GrantsStay /\ CreditsStay => FrameOK(w)'
      BY <1>6, <2>1, <2>2, AfterIsFine
    <2>4. LockStep(w) /\ AllCredited(JobOf(w))
      BY <1>3, <1>6, <2>2 DEF LockStep, FrameOK, InOrder
    <2> QED BY <1>1, <1>2, <1>3, <1>6, <2>1, <2>3, <2>4, StageKeeps
  <1>7. CASE /\ task[w].pc = "to completed"
             /\ SetStage(JobOf(w), w, task[w].epoch, Completed)
             /\ Goto(w, "check success") /\ Unlock(w)
    <2>1. /\ task' \in [Worker -> TaskRow(Result)] /\ OthersRest(w) /\ SamePlace(w)
          /\ task'[w].pc = "check success"
      BY <1>3, <1>7, GotoWrites
    <2>2. GrantsStay /\ CreditsStay => FrameOK(w)'
      BY <1>2, <1>3, <2>1, AwayIsFine
    <2>3. task[w].pc \in After
      BY <1>7 DEF After
    <2>4. LockStep(w) /\ AllCredited(JobOf(w))
      BY <1>3, <1>7, <2>3, UnlockIsALockStep DEF FrameOK, InOrder
    <2> QED BY <1>1, <1>2, <1>3, <1>7, <2>1, <2>2, <2>4, StageKeeps
  <1> QED BY <1>4, <1>5, <1>6, <1>7 DEF MarkEvaluating, MarkAggregating, MarkCompleted

LEMMA AggregateKeeps ==
  ASSUME EvalInv, NEW w \in Worker, Aggregate(w)
  PROVE  EvalInv' /\ UNCHANGED vars
  <1>1. task[w].pc = "aggregate" /\ UNCHANGED <<vars, disk, sender>>
    BY DEF Aggregate
  <1>2. task[w].pc \in After /\ task[w].pc # "idle" /\ "to completed" \in Place
    BY <1>1 DEF After, Place
  <1>3. lock[JobOf(w)] = w /\ ServiceTyped(Result)
    BY <1>2, AtWork
  <1>4. [Next]_vars /\ NoNewCredit /\ CreditsStay /\ GrantsStay
    BY <1>1, NothingWritten
  <1>5. CASE (Goto(w, "check success") \/ GoFail(w, "other")) /\ Unlock(w)
    <2>1. LockStep(w)
      BY <1>3, <1>5, UnlockIsALockStep
    <2> QED BY <1>1, <1>2, <1>4, <1>5, <2>1, LeavingKeeps
  <1>6. CASE Goto(w, "to completed") /\ UNCHANGED lock
    <2>1. /\ task' \in [Worker -> TaskRow(Result)] /\ OthersRest(w) /\ SamePlace(w)
          /\ task'[w].pc = "to completed"
      BY <1>2, <1>3, <1>6, GotoWrites
    <2>2. FrameOK(w)'
      BY <1>2, <1>4, <1>6, <2>1, AfterIsFine DEF After
    <2> QED BY <1>1, <1>4, <1>6, <2>1, <2>2, QuietKeeps DEF LockStep
  <1> QED BY <1>1, <1>5, <1>6 DEF Aggregate

LEMMA FailCaseKeeps ==
  ASSUME EvalInv, NEW w \in Worker, FailCase(w)
  PROVE  EvalInv' /\ [Next]_vars
  <1>1. /\ task[w].pc = "fail" /\ GoFail(w, "other") /\ Unlock(w) /\ UNCHANGED <<disk, sender>>
        /\ FailItem(JobOf(w), w, task[w].epoch, Case(w), FALSE) \/ UNCHANGED vars
    BY DEF FailCase
  <1>2. task[w].pc \in Loop /\ task[w].pc # "idle"
    BY <1>1 DEF Loop
  <1>3. /\ lock[JobOf(w)] = w /\ JobOf(w) \in Job /\ Case(w) \in Item /\ LeaseHeld(w) /\ TypeOK
    BY <1>2, AtWork
  <1>4. [Next]_vars /\ NoNewCredit
    <2>1. CASE FailItem(JobOf(w), w, task[w].epoch, Case(w), FALSE)
      <3>1. ItemCall(JobOf(w), w, task[w].epoch, Case(w))
        BY <2>1 DEF ItemCall
      <3>2. Next
        BY <1>2, <1>3, <3>1, CallsAreCalls DEF JobOf
      <3> QED BY <1>3, <2>1, <3>2, ClaimsCreditNothing
    <2> QED BY <1>1, <2>1, NothingWritten
  <1>5. LockStep(w)
    BY <1>1, <1>3, UnlockIsALockStep
  <1> QED BY <1>1, <1>2, <1>4, <1>5, LeavingKeeps

-----------------------------------------------------------------------------
(* The directory of results *)

(* What a run, or what is left of one, adds to the directory of job j.      *)
DiskGrows(j) ==
  /\ attempt' \in [Job -> [Item -> Result \cup {"failed"}]]
  /\ artifact' \in [Job -> [Item -> Result]]
  /\ ResultsStay /\ MarkersComplete'
  /\ \A k \in Job \ {j} : artifact'[k] = artifact[k]

LEMMA RunsGrowTheDisk ==
  ASSUME EvalInv, NEW j \in Job,
         \/ UNCHANGED attempt
         \/ \E k \in Untried(j) \cup {Cases + 1}, a \in Ref \cup {"failed"} :
              attempt' = [attempt EXCEPT ![j] = Attempts(j, k, a)],
         Completes(j, attempt[j]) \/ Completes(j, attempt'[j])
  PROVE  DiskGrows(j)
  <1>1. DiskTyped /\ MarkersComplete
    BY DEF EvalInv
  <1>2. /\ attempt' \in [Job -> [Item -> Result \cup {"failed"}]]
        /\ \A k \in Job \ {j} : attempt'[k] = attempt[k]
        /\ \A i \in Item : attempt[j][i] # None => attempt'[j][i] = attempt[j][i]
    <2>1. CASE UNCHANGED attempt
      BY <1>1, <2>1 DEF DiskTyped
    <2>2. ASSUME NEW k, NEW a \in Ref \cup {"failed"},
                 attempt' = [attempt EXCEPT ![j] = Attempts(j, k, a)]
          PROVE  /\ attempt' \in [Job -> [Item -> Result \cup {"failed"}]]
                 /\ \A l \in Job \ {j} : attempt'[l] = attempt[l]
                 /\ \A i \in Item : attempt[j][i] # None => attempt'[j][i] = attempt[j][i]
      <3>1. Attempts(j, k, a) \in [Item -> Result \cup {"failed"}]
        BY <1>1 DEF Attempts, DiskTyped, Result
      <3>2. \A i \in Item : attempt[j][i] # None => Attempts(j, k, a)[i] = attempt[j][i]
        BY DEF Attempts, Untried
      <3> QED BY <1>1, <2>2, <3>1, <3>2 DEF DiskTyped
    <2> QED BY <2>1, <2>2
  <1>3. PICK done \in {attempt[j], attempt'[j]} : Completes(j, done)
    OBVIOUS
  <1>4. \A i \in Item : attempt[j][i] # None => done[i] = attempt[j][i]
    <2>1. CASE done = attempt[j]
      BY <2>1
    <2>2. CASE done = attempt'[j]
      BY <1>2, <2>2
    <2> QED BY <1>3, <2>1, <2>2
  <1>5. /\ done \in [Item -> Result \cup {"failed"}]
         /\ \A i \in Item : done[i] # None => attempt'[j][i] = done[i]
    BY <1>1, <1>2 DEF DiskTyped
  <1> DEFINE new == [i \in Item |-> IF done[i] = "failed" THEN None ELSE done[i]]
  <1>6. new \in [Item -> Result]
    BY <1>5 DEF Result
  <1>7. artifact' = [artifact EXCEPT ![j] = new]
    BY <1>3 DEF Completes
  <1>8. \A i \in Item : new[i] # None => attempt'[j][i] = new[i] /\ new[i] # "failed"
    BY <1>5
  <1>9. \A i \in Item : artifact[j][i] # None => new[i] = artifact[j][i]
    <2> SUFFICES ASSUME NEW i \in Item, artifact[j][i] # None
                 PROVE  new[i] = artifact[j][i]
      OBVIOUS
    <2>1. attempt[j][i] = artifact[j][i] /\ artifact[j][i] # "failed"
      BY <1>1 DEF MarkersComplete
    <2>2. attempt[j][i] # None
      BY <2>1
    <2>3. done[i] = attempt[j][i]
      BY <1>4, <2>2
    <2>4. done[i] = artifact[j][i] /\ done[i] # "failed"
      BY <2>1, <2>3
    <2>5. new[i] = IF done[i] = "failed" THEN None ELSE done[i]
      OBVIOUS
    <2> HIDE DEF new
    <2> QED BY <2>4, <2>5
  <1> HIDE DEF new
  <1>10. /\ artifact' \in [Job -> [Item -> Result]] /\ artifact'[j] = new
        /\ \A k \in Job \ {j} : artifact'[k] = artifact[k]
    BY <1>1, <1>6, <1>7 DEF DiskTyped
  <1>11. ResultsStay
    BY <1>9, <1>10 DEF ResultsStay
  <1>12. MarkersComplete'
    <2>1. ASSUME NEW k \in Job, NEW i \in Item, artifact'[k][i] # None
          PROVE  attempt'[k][i] = artifact'[k][i] /\ artifact'[k][i] # "failed"
      <3>1. CASE k = j
        BY <1>8, <1>10, <2>1, <3>1
      <3>2. CASE k # j
        BY <1>1, <1>2, <1>10, <2>1, <3>2 DEF MarkersComplete
      <3> QED BY <3>1, <3>2
    <2> QED BY <2>1 DEF MarkersComplete
  <1> QED BY <1>2, <1>10, <1>11, <1>12 DEF DiskGrows

(* Only the holder of the lock writes there, so nobody else is deceived.    *)
LEMMA DiskKeeps ==
  ASSUME EvalInv, NEW w \in Worker, task[w].pc = "run", NEW j \in Job, j = JobOf(w),
         DiskGrows(j), UNCHANGED <<vars, sender>>, OthersRest(w), LockStep(w),
         task' \in [Worker -> TaskRow(Result)], FrameOK(w)'
  PROVE  EvalInv'
  <1>1. IInv' /\ GrantsStay /\ CreditsStay
    BY NothingWritten, StepInvariant DEF EvalInv
  <1>2. ServiceTyped(Result)' /\ DiskTyped'
    BY DEF LockStep, EvalInv, DiskTyped, ServiceTyped, DiskGrows
  <1>3. \A v \in Worker \ {w} : task[v].pc \in {"evaluate", "run"} =>
          artifact'[JobOf(v)] = artifact[JobOf(v)]
    <2> SUFFICES ASSUME NEW v \in Worker \ {w}, task[v].pc \in {"evaluate", "run"}
                 PROVE  artifact'[JobOf(v)] = artifact[JobOf(v)]
      OBVIOUS
    <2>1. task[v].pc \in Loop /\ task[v].pc # "idle" /\ task[w].pc \in Loop /\ task[w].pc # "idle"
      BY DEF Loop
    <2>2. JobOf(v) \in Job /\ lock[JobOf(v)] = v /\ lock[JobOf(w)] = w
      BY <2>1, AtWork
    <2> QED BY <2>2 DEF DiskGrows
  <1>4. Aside(w)
    BY <1>1, <1>3 DEF Aside, DiskGrows
  <1>5. \A v \in Worker : FrameOK(v)'
    BY <1>4, OthersKeep
  <1>6. CreditedArtifacts'
    BY DEF EvalInv, CreditedArtifacts, DiskGrows, ResultsStay, vars
  <1>7. StagesEarned'
    BY DEF EvalInv, StagesEarned, AllCredited, Credited, vars
  <1> QED BY <1>1, <1>2, <1>5, <1>6, <1>7 DEF EvalInv, DiskGrows

LEMMA RunCaseKeeps ==
  ASSUME EvalInv, NEW w \in Worker, RunCase(w)
  PROVE  EvalInv' /\ UNCHANGED vars
  <1>1. task[w].pc = "run" /\ UNCHANGED <<vars, sender, lock>>
    BY DEF RunCase
  <1>2. task[w].pc \in Loop /\ task[w].pc # "idle" /\ {"fail", "check again"} \subseteq Place
    BY <1>1 DEF Loop, Place
  <1>3. FrameOK(w) /\ JobOf(w) \in Job /\ Case(w) \in Item /\ ServiceTyped(Result)
    BY <1>2, AtWork
  <1>4. PICK j \in Job : j = JobOf(w)
    BY <1>3
  <1>5. PICK i \in Item : i = Case(w)
    BY <1>3
  <1>6. DiskGrows(j)
    <2>1. Completes(j, attempt'[j])
      BY <1>4 DEF RunCase
    <2>2. \E k \in Untried(j) \cup {Cases + 1}, r \in Ref :
            attempt' = [attempt EXCEPT ![j] = Attempts(j, k, r)]
      BY <1>4 DEF RunCase
    <2> QED BY <2>1, <2>2, RunsGrowTheDisk
  <1>7. /\ artifact'[j][i] = None => Goto(w, "fail")
        /\ artifact'[j][i] # None =>
             task' = [task EXCEPT ![w].ref = artifact'[j][i], ![w].pc = "check again"]
    BY <1>4, <1>5 DEF RunCase
  <1>8. GrantsStay /\ CreditsStay
    BY <1>1, NothingWritten
  <1>9. CASE artifact'[j][i] = None
    <2>1. /\ task' \in [Worker -> TaskRow(Result)] /\ OthersRest(w) /\ SamePlace(w)
          /\ task'[w].pc = "fail"
      BY <1>2, <1>3, <1>7, <1>9, GotoWrites
    <2>2. ResultKnown(w)'
      BY <2>1 DEF ResultKnown
    <2>3. FrameOK(w)'
      BY <1>1, <1>2, <1>8, <2>1, <2>2, OnwardIsFine DEF Loop
    <2> QED BY <1>1, <1>4, <1>6, <2>1, <2>3, DiskKeeps DEF LockStep
  <1>10. CASE artifact'[j][i] # None
    <2> DEFINE new == [task[w] EXCEPT !.ref = artifact'[j][i], !.pc = "check again"]
    <2>1. task[w] \in TaskRow(Result) /\ artifact'[j][i] \in Result
      BY <1>3, <1>6 DEF ServiceTyped, DiskGrows
    <2>2. /\ new \in TaskRow(Result) /\ new.pc = "check again" /\ new.ref = artifact'[j][i]
          /\ new.next = task[w].next /\ new.job = task[w].job /\ new.epoch = task[w].epoch
          /\ new.stage = task[w].stage
      BY <1>2, <2>1 DEF TaskRow
    <2>3. task' = [task EXCEPT ![w] = new]
      BY <1>7, <1>10
    <2> HIDE DEF new
    <2>4. task' \in [Worker -> TaskRow(Result)] /\ OthersRest(w) /\ task'[w] = new
      BY <1>3, <2>2, <2>3 DEF ServiceTyped, OthersRest
    <2>5. /\ task'[w].job = j /\ task'[w].next = i /\ task'[w].ref = artifact'[j][i]
          /\ task'[w].pc = "check again"
      BY <1>4, <1>5, <2>2, <2>4 DEF JobOf, Case
    <2>6. LeaseHeld(w)'
      BY <1>2, <1>3, <1>8, <2>2, <2>4, LeaseStaysHeld DEF FrameOK, SameClaim
    <2>7. LockHeld(w)'
      BY <1>1, <1>2, <1>3, <1>4, <2>5 DEF FrameOK, LockHeld, JobOf
    <2>8. InOrder(w)'
      <3>1. \A m \in Item : m < i => Credited(j, m)
        BY <1>2, <1>3, <1>4, <1>5 DEF FrameOK, InOrder
      <3>2. \A m \in Item : m < i => Credited(j, m)'
        BY <1>1, <3>1 DEF Credited, vars
      <3> QED BY <2>5, <3>2 DEF InOrder, JobOf, Case, After
    <2>9. ResultKnown(w)'
      BY <1>10, <2>5 DEF ResultKnown, JobOf, Case
    <2>10. FrameOK(w)'
      BY <2>6, <2>7, <2>8, <2>9 DEF FrameOK
    <2> QED BY <1>1, <1>4, <1>6, <2>4, <2>10, DiskKeeps DEF LockStep
  <1> QED BY <1>1, <1>9, <1>10

-----------------------------------------------------------------------------
(* The other steps *)

(* A worker that stays where it is, while results and locks stay.           *)
LEMMA StayIsFine ==
  ASSUME EvalInv, NEW w \in Worker, GrantsStay, CreditsStay, UNCHANGED <<disk, lock>>,
         task'[w].pc = task[w].pc, SamePlace(w), LeaseHeld(w)'
  PROVE  FrameOK(w)'
  <1>1. FrameOK(w)
    BY DEF EvalInv
  <1>2. CASE task[w].pc \in Loop
    <2>1. ResultKnown(w)'
      BY <1>1 DEF FrameOK, ResultKnown, SamePlace, SameClaim, JobOf, Case, disk
    <2> QED BY <1>2, <2>1, OnwardIsFine
  <1>3. CASE task[w].pc \in After
    BY <1>3, AfterIsFine
  <1>4. CASE task[w].pc \notin Loop \cup After
    <2>1. LockHeld(w)' /\ ResultKnown(w)'
      BY <1>4 DEF LockHeld, ResultKnown, Loop
    <2>2. InOrder(w)'
      BY <1>1, <1>4 DEF FrameOK, InOrder, SamePlace
    <2> QED BY <2>1, <2>2 DEF FrameOK
  <1> QED BY <1>2, <1>3, <1>4

(* What process_job does whatever the kind of its job.                      *)
LEMMA ProcessKeeps ==
  ASSUME EvalInv, NEW w \in Worker, Process(w), UNCHANGED <<disk, lock>>
  PROVE  EvalInv' /\ [Next]_vars
  <1>1. FrameOK(w) /\ LeaseHeld(w) /\ ServiceTyped(Result) /\ IInv /\ None \in Result
    BY DEF EvalInv, FrameOK, Result
  <1>2. /\ [Next]_vars /\ KeepsWork
        /\ ServiceTyped(Result)' /\ LeaseHeld(w)' /\ OthersRest(w) /\ ProcessStep(w)
    BY <1>1, ProcessesKeepToTheStore
  <1>3. NoNewCredit /\ GrantsStay
    BY <1>1, <1>2, KeptWorkIsNoCredit, StepsKeepGrants DEF IInv
  <1>4. CreditsStay
    BY <1>3 DEF NoNewCredit, CreditsStay, Credited
  <1>5. FrameOK(w)'
    <2>1. CASE task'[w].pc = task[w].pc /\ SamePlace(w)
      BY <1>2, <1>3, <1>4, <2>1, StayIsFine
    <2>2. CASE task'[w].pc = "start" /\ task'[w].next = 1
      BY <1>2, <2>2 DEF FrameOK, LockHeld, InOrder, ResultKnown, Loop, After
    <2>3. CASE task'[w].pc \in {"idle", "finish", "lost"}
      BY <1>2, <2>3 DEF FrameOK, LockHeld, InOrder, ResultKnown, Loop, After
    <2> QED BY <1>2, <2>1, <2>2, <2>3 DEF ProcessStep
  <1>6. task' \in [Worker -> TaskRow(Result)] /\ LockStep(w)
    BY <1>2 DEF ServiceTyped, LockStep
  <1>7. UNCHANGED sender
    BY DEF Process, Take, Beat, BeatFails, Succeed, Finish, Retry
  <1> QED BY <1>2, <1>3, <1>5, <1>6, <1>7, QuietKeeps

(* Clients, clocks and dispatchers leave every worker where it is.          *)
LEMMA OutsideKeeps ==
  ASSUME EvalInv, Client("evaluation", Cases) \/ PassTime \/ Post, UNCHANGED <<disk, lock>>
  PROVE  EvalInv' /\ [Next]_vars
  <1>1. ServiceTyped(Result) /\ IInv /\ TypeOK
    BY DEF EvalInv, IInv
  <1>2. [Next]_vars /\ KeepsWork /\ UNCHANGED task /\ sender' \in [Dispatcher -> SenderRow]
    <2>1. CASE Client("evaluation", Cases)
      <3>1. "evaluation" \in Kind
        BY DEF Kind
      <3> QED BY <1>1, <2>1, <3>1, CasesAreATotal, ClientsKeepToTheStore
                 DEF serviceVars, ServiceTyped
    <2>2. CASE PassTime
      BY <1>1, <2>2, ClocksKeepToTheStore DEF ServiceTyped
    <2>3. CASE Post
      BY <1>1, <2>3, PostKeepsToTheStore
    <2> QED BY <2>1, <2>2, <2>3
  <1>3. IInv' /\ NoNewCredit /\ GrantsStay
    BY <1>1, <1>2, StepInvariant, KeptWorkIsNoCredit, StepsKeepGrants
  <1>4. CreditsStay
    BY <1>3 DEF NoNewCredit, CreditsStay, Credited
  <1>5. \A v \in Worker : FrameOK(v)'
    <2> SUFFICES ASSUME NEW v \in Worker PROVE FrameOK(v)'
      OBVIOUS
    <2>1. SamePlace(v) /\ task'[v] = task[v]
      BY <1>2 DEF SamePlace, SameClaim
    <2>2. LeaseHeld(v)'
      BY <1>3, <2>1, LeaseStaysHeld DEF EvalInv, FrameOK
    <2> QED BY <1>3, <1>4, <2>1, <2>2, StayIsFine
  <1>6. ServiceTyped(Result)' /\ DiskTyped'
    BY <1>1, <1>2 DEF EvalInv, ServiceTyped, DiskTyped, disk
  <1>7. MarkersComplete'
    BY DEF EvalInv, MarkersComplete, disk
  <1>8. CreditedArtifacts'
    BY <1>3 DEF EvalInv, CreditedArtifacts, NoNewCredit, disk
  <1>9. StagesEarned'
    BY <1>3 DEF EvalInv, StagesEarned, AllCredited, Credited, NoNewCredit
  <1> QED BY <1>2, <1>3, <1>5, <1>6, <1>7, <1>8, <1>9 DEF EvalInv

(* An exception gives the lock back, unless the item is failed first.       *)
LEMMA BreakKeeps ==
  ASSUME EvalInv, NEW w \in Worker, Break(w)
  PROVE  EvalInv' /\ UNCHANGED vars
  <1>1. task[w].pc # "idle" /\ UNCHANGED <<vars, sender, disk>>
    BY DEF Break
  <1>2. ServiceTyped(Result) /\ [Next]_vars /\ NoNewCredit /\ CreditsStay /\ GrantsStay
    BY <1>1, NothingWritten DEF EvalInv
  <1>3. \/ /\ task[w].pc \in {"evaluate", "run", "check again", "complete"}
           /\ Goto(w, "fail") /\ UNCHANGED lock
        \/ Goto(w, "lost") /\ UNCHANGED lock
        \/ GoFail(w, "other") /\ IF lock[JobOf(w)] = w THEN Unlock(w) ELSE UNCHANGED lock
    BY DEF Break
  <1>4. CASE /\ task[w].pc \in {"evaluate", "run", "check again", "complete"}
             /\ Goto(w, "fail") /\ UNCHANGED lock
    <2>1. "fail" \in Place /\ task[w].pc \in Loop
      BY <1>4 DEF Place, Loop
    <2>2. /\ task' \in [Worker -> TaskRow(Result)] /\ OthersRest(w) /\ SamePlace(w)
          /\ task'[w].pc = "fail"
      BY <1>2, <1>4, <2>1, GotoWrites
    <2>3. ResultKnown(w)' /\ task'[w].pc \in Loop
      BY <2>2 DEF ResultKnown, Loop
    <2>4. FrameOK(w)'
      BY <1>2, <1>4, <2>1, <2>2, <2>3, OnwardIsFine
    <2> QED BY <1>1, <1>2, <1>4, <2>2, <2>4, QuietKeeps DEF LockStep
  <1>5. CASE Goto(w, "lost") /\ UNCHANGED lock
    BY <1>1, <1>2, <1>5, LeavingKeeps DEF LockStep
  <1>6. CASE GoFail(w, "other") /\ IF lock[JobOf(w)] = w THEN Unlock(w) ELSE UNCHANGED lock
    <2>1. LockStep(w)
      BY <1>6, UnlockIsALockStep DEF LockStep
    <2> QED BY <1>1, <1>2, <1>6, <2>1, LeavingKeeps
  <1> QED BY <1>1, <1>3, <1>4, <1>5, <1>6

(* A process that dies leaves what it had written, and no lock.             *)
LEMMA DieKeeps ==
  ASSUME EvalInv, NEW w \in Worker, Die(w)
  PROVE  EvalInv' /\ UNCHANGED vars
  <1>1. UNCHANGED <<vars, sender>> /\ task' = [task EXCEPT ![w] = Idle]
    BY DEF Die, Crash
  <1>2. [Next]_vars /\ NoNewCredit /\ ServiceTyped(Result) /\ None \in Result
    BY <1>1, NothingWritten DEF EvalInv, Result
  <1>3. task' \in [Worker -> TaskRow(Result)] /\ OthersRest(w) /\ task'[w].pc = "idle"
    BY <1>1, <1>2, IdleRow DEF ServiceTyped, OthersRest
  <1>4. FrameOK(w)'
    BY <1>3 DEF FrameOK, LeaseHeld, LockHeld, InOrder, ResultKnown, Loop, After
  <1>5. LockStep(w)
    BY UnlockIsALockStep DEF Die, LockStep
  <1>6. CASE UNCHANGED disk
    BY <1>1, <1>2, <1>3, <1>4, <1>5, <1>6, QuietKeeps
  <1>7. CASE task[w].pc = "run" /\ RunCut(JobOf(w))
    <2>1. task[w].pc # "idle"
      BY <1>7
    <2>2. JobOf(w) \in Job
      BY <2>1, AtWork
    <2>3. PICK j \in Job : j = JobOf(w)
      BY <2>2
    <2>4. CASE UNCHANGED <<attempt, artifact>>
      <3>1. DiskGrows(j)
        BY <2>4 DEF EvalInv, DiskTyped, DiskGrows, ResultsStay, MarkersComplete
      <3> QED BY <1>1, <1>3, <1>4, <1>5, <1>7, <2>3, <3>1, DiskKeeps
    <2>5. CASE /\ Completes(j, attempt[j])
               /\ \/ UNCHANGED attempt
                  \/ \E k \in Untried(j), a \in Ref \cup {"failed"} :
                       attempt' = [attempt EXCEPT ![j] = Attempts(j, k, a)]
      <3>1. DiskGrows(j)
        BY <2>5, RunsGrowTheDisk
      <3> QED BY <1>1, <1>3, <1>4, <1>5, <1>7, <2>3, <3>1, DiskKeeps
    <2> QED BY <1>7, <2>3, <2>4, <2>5 DEF RunCut
  <1> QED BY <1>1, <1>6, <1>7 DEF Die

(* What is left of the work of a worker: CheckCase, CheckResult, LastCheck, *)
(* CheckSuccess and the writes.                                             *)
LEMMA EvaluateKeeps ==
  ASSUME EvalInv, NEW w \in Worker, Evaluate(w)
  PROVE  EvalInv' /\ [Next]_vars
  <1>1. CASE AcquireLock(w)
    BY <1>1, AcquireLockKeeps DEF AcquireLock
  <1>2. CASE CheckCase(w) \/ CheckResult(w) \/ LastCheck(w) \/ CheckSuccess(w)
    BY <1>2, ChecksKeep
  <1>3. CASE ClaimCase(w) \/ CreditCase(w) \/ CompleteCase(w)
    BY <1>3, ClaimCaseKeeps, CreditCaseKeeps
  <1>4. CASE MarkEvaluating(w) \/ MarkAggregating(w) \/ MarkCompleted(w)
    BY <1>4, MarksKeep
  <1>5. CASE RunCase(w) \/ Aggregate(w) \/ FailCase(w)
    BY <1>5, RunCaseKeeps, AggregateKeeps, FailCaseKeeps
  <1> QED BY <1>1, <1>2, <1>3, <1>4, <1>5 DEF Evaluate

-----------------------------------------------------------------------------
(* The theorems *)

LEMMA EvalInit == EvaluationInit => EvalInv
  <1> SUFFICES ASSUME EvaluationInit PROVE EvalInv
    OBVIOUS
  <1>1. IInv
    BY InitInvariant DEF EvaluationInit, ServiceInit
  <1>2. ServiceTyped(Result)
    <2>1. Quiet \in SenderRow
      BY DEF Quiet, SenderRow
    <2>2. Idle \in TaskRow(Result)
      BY IdleRow DEF Result
    <2> QED BY <2>1, <2>2 DEF EvaluationInit, ServiceInit, ServiceTyped
  <1>3. DiskTyped
    BY DEF EvaluationInit, DiskTyped, Result
  <1>4. \A w \in Worker : FrameOK(w)
    BY DEF EvaluationInit, ServiceInit, Idle, FrameOK, LeaseHeld, LockHeld, InOrder, ResultKnown,
           Loop, After
  <1>5. MarkersComplete
    BY DEF EvaluationInit, MarkersComplete
  <1>6. CreditedArtifacts
    BY DEF EvaluationInit, ServiceInit, Init, NoLedger, NoItem, CreditedArtifacts
  <1>7. StagesEarned
    BY DEF EvaluationInit, ServiceInit, Init, NoJob, StagesEarned, Aggregating
  <1> QED BY <1>1, <1>2, <1>3, <1>4, <1>5, <1>6, <1>7 DEF EvalInv

LEMMA EvalStep == EvalInv /\ [EvaluationNext]_evaluationVars => EvalInv' /\ [Next]_vars
  <1> SUFFICES ASSUME EvalInv, [EvaluationNext]_evaluationVars
               PROVE  EvalInv' /\ [Next]_vars
    OBVIOUS
  <1>1. CASE UNCHANGED evaluationVars
    <2>1. UNCHANGED <<vars, task, sender, disk, lock>>
      BY <1>1 DEF evaluationVars, serviceVars
    <2>2. IInv' /\ GrantsStay /\ CreditsStay
      BY <2>1, NothingWritten, StepInvariant DEF EvalInv
    <2>3. \A v \in Worker : FrameOK(v)'
      <3> SUFFICES ASSUME NEW v \in Worker PROVE FrameOK(v)'
        OBVIOUS
      <3>1. SamePlace(v) /\ task'[v] = task[v]
        BY <2>1 DEF SamePlace, SameClaim
      <3>2. LeaseHeld(v)'
        BY <2>2, <3>1, LeaseStaysHeld DEF EvalInv, FrameOK
      <3> QED BY <2>1, <2>2, <3>1, <3>2, StayIsFine
    <2>4. ServiceTyped(Result)' /\ DiskTyped'
      BY <2>1 DEF EvalInv, ServiceTyped, DiskTyped, disk
    <2>5. MarkersComplete' /\ CreditedArtifacts' /\ StagesEarned'
      BY <2>1 DEF EvalInv, MarkersComplete, CreditedArtifacts, StagesEarned, AllCredited,
                  Credited, disk, vars
    <2> QED BY <2>1, <2>2, <2>3, <2>4, <2>5 DEF EvalInv
  <1>2. CASE (Client("evaluation", Cases) \/ PassTime \/ Post) /\ UNCHANGED <<disk, lock>>
    BY <1>2, OutsideKeeps
  <1>3. ASSUME NEW w \in Worker,
               \/ Process(w) /\ UNCHANGED <<disk, lock>>
               \/ Evaluate(w) \/ Break(w) \/ Die(w)
        PROVE  EvalInv' /\ [Next]_vars
    BY <1>3, ProcessKeeps, EvaluateKeeps, BreakKeeps, DieKeeps
  <1> QED BY <1>1, <1>2, <1>3 DEF EvaluationNext

(* Whatever crashes, losses and takeovers come between the two writes of a  *)
(* case, the experiment lock, the order of the cases and the marker of each *)
(* result hold: the base of the theorems below.                             *)
THEOREM EvaluationInvariance == EvaluationSafety => []EvalInv
  BY EvalInit, EvalStep, PTL DEF EvaluationSafety

(* run_evaluation_job, process_job and the dispatcher change the tables by  *)
(* transactions of the job store alone, each under a lease that its worker  *)
(* was granted: every theorem about JobStore holds of the evaluation.       *)
THEOREM EvaluationKeepsToTheStore == EvaluationSafety => KeepsToTheStore
  <1>1. EvaluationInit => Init
    BY DEF EvaluationInit, ServiceInit
  <1> QED BY <1>1, EvalStep, EvaluationInvariance, PTL DEF EvaluationSafety, KeepsToTheStore, Spec

(* An item credited by complete_item or reconcile_item has exactly that     *)
(* result on disk with its marker, and a worker that goes to evaluate a     *)
(* case never has a result to overwrite, though its lease may be long gone. *)
THEOREM LedgerFollowsTheDisk == EvaluationSafety => []LedgerMatchesDisk
  <1>1. EvalInv => LedgerMatchesDisk
    BY DEF EvalInv, LedgerMatchesDisk, NothingToOverwrite, FrameOK, ResultKnown
  <1> QED BY <1>1, EvaluationInvariance, PTL

(* The aggregation runs, and its stage is recorded, only with every case of *)
(* the dataset credited, under whichever lease the cases were.              *)
THEOREM AggregationStaysComplete == EvaluationSafety => []AggregationIsComplete
  <1>1. EvalInv => AggregationIsComplete
    BY DEF EvalInv, AggregationIsComplete, StagesEarned, FrameOK, InOrder, AllCredited,
           Credited, After
  <1> QED BY <1>1, EvaluationInvariance, PTL
================================================================================
