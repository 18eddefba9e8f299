----------------------------- MODULE JobService -----------------------------
(***************************************************************************)
(* The processes around the job tables: dispatchers that drain the outbox  *)
(* (jobs/dispatcher.py), the Redis broker, and Celery workers that run     *)
(* process_job (jobs/worker.py, jobs/handlers.py).  Every access to the    *)
(* tables is a transaction of JobStore; what a process knows between two   *)
(* of them is in its own variable.                                         *)
(*                                                                         *)
(* The work of a job, between "start" and "finish" or "lost", belongs to   *)
(* the modules that extend this one.                                       *)
(*                                                                         *)
(* A worker slot keeps its name from one task to the next, where the code  *)
(* draws a fresh worker_id: the owner check gets weaker, never stronger.   *)
(***************************************************************************)
EXTENDS JobStore

CONSTANTS
  MaxRetries,   (* Celery max_retries of a message.                        *)
  MaxFaults     (* Bound of the model: crashes, losses and refusals.       *)

ASSUME BoundsAreCounts == MaxRetries \in Nat /\ MaxFaults \in Nat

VARIABLES
  broker,   (* broker[j][t]: messages of job j waiting, retried t times.   *)
  sender,   (* sender[d]: what dispatch_once has claimed and not settled.  *)
  task,     (* task[w]: the task in worker slot w.                         *)
  faults    (* Faults so far.                                              *)

serviceVars == <<broker, sender, task, faults>>

Try == 0..MaxRetries

(* `mail` is the claimed rows still to be published, each with the lease    *)
(* epoch of its claim; `out` was handed to the broker, and the publish came *)
(* back as `out.ok` says.                                                   *)
Quiet == [mail |-> {}, out |-> None]

(* process_job before it claims a job and after it returns. *)
Idle == [pc |-> "idle", job |-> None, tries |-> 0, epoch |-> 0, stage |-> 0, next |-> 1,
         ref |-> None, lost |-> FALSE, status |-> "failed", error |-> "none"]

ServiceInit ==
  /\ Init
  /\ broker = [j \in Job |-> [t \in Try |-> 0]]
  /\ sender = [d \in Dispatcher |-> Quiet]
  /\ task = [w \in Worker |-> Idle]
  /\ faults = 0

Fault == faults < MaxFaults /\ faults' = faults + 1

Arrive(j, t) == broker' = [broker EXCEPT ![j][t] = @ + 1]
Leave(j, t) == broker[j][t] > 0 /\ broker' = [broker EXCEPT ![j][t] = @ - 1]

-----------------------------------------------------------------------------
(* The dispatcher: one pass of dispatch_once, step by step *)

Scan(d) ==
  /\ sender[d] = Quiet
  /\ \E batch \in SUBSET Job : RequeueExpired(batch)
  /\ UNCHANGED serviceVars

Collect(d) ==
  /\ sender[d] = Quiet
  /\ \E batch \in SUBSET OutboxRows :
       /\ ClaimOutbox(d, batch)
       /\ sender' = [sender EXCEPT ![d].mail =
            {[job |-> p[1], row |-> p[2], epoch |-> outbox[p[1]][p[2]].epoch + 1] :
               p \in batch}]
  /\ UNCHANGED <<broker, task, faults>>

(* The publish of one letter: taken, or an exception that leaves open       *)
(* whether the broker has the message.                                      *)
Publish(d) ==
  /\ sender[d].out = None
  /\ \E letter \in sender[d].mail :
       \/ /\ sender' = [sender EXCEPT ![d].mail = @ \ {letter},
                                     ![d].out = [letter |-> letter, ok |-> TRUE]]
          /\ Arrive(letter.job, 0)
          /\ UNCHANGED faults
       \/ /\ sender' = [sender EXCEPT ![d].mail = @ \ {letter},
                                     ![d].out = [letter |-> letter, ok |-> FALSE]]
          /\ Arrive(letter.job, 0) \/ UNCHANGED broker
          /\ Fault
  /\ UNCHANGED <<vars, task>>

(* mark_outbox_delivered or mark_outbox_retry, if the claim still stands.   *)
Settle(d) ==
  /\ sender[d].out # None
  /\ LET l == sender[d].out.letter
     IN  \/ ~OwnsRow(d, l.job, l.row, l.epoch) /\ UNCHANGED vars
         \/ sender[d].out.ok /\ MarkDelivered(d, l.job, l.row, l.epoch)
         \/ ~sender[d].out.ok /\ MarkRetry(d, l.job, l.row, l.epoch)
  /\ sender' = [sender EXCEPT ![d].out = None]
  /\ UNCHANGED <<broker, task, faults>>

StopDispatcher(d) ==
  /\ sender[d] # Quiet
  /\ Fault
  /\ sender' = [sender EXCEPT ![d] = Quiet]
  /\ UNCHANGED <<vars, broker, task>>

(* The dispatcher that claimed the row is still at work on it. *)
InHand(j, n) ==
  \E d \in Dispatcher :
    LET letters == sender[d].mail \cup
                   (IF sender[d].out = None THEN {} ELSE {sender[d].out.letter})
    IN  \E l \in letters : l.job = j /\ l.row = n /\ l.epoch = outbox[j][n].epoch

-----------------------------------------------------------------------------
(* The broker *)

(* Redis loses a message, or Celery drops it after an error before the claim. *)
Lose(j, t) ==
  /\ Leave(j, t)
  /\ Fault
  /\ UNCHANGED <<vars, sender, task>>

-----------------------------------------------------------------------------
(* The worker: process_job around the work *)

Goto(w, pc) == task' = [task EXCEPT ![w].pc = pc]

(* The task ends in JobPermanentError or another exception. *)
GoFail(w, error) ==
  task' = [task EXCEPT ![w].pc = "finish", ![w].status = "failed", ![w].error = error]

GoCancel(w) ==
  task' = [task EXCEPT ![w].pc = "finish", ![w].status = "cancelled", ![w].error = "none"]

(* The task of a claim: what claim_job returned is all it knows of the row. *)
Started(w, j, t, pc) ==
  [Idle EXCEPT !.pc = pc, !.job = j, !.tries = t, !.epoch = jobs[j].epoch + 1,
               !.stage = jobs[j].stage, !.error = IF pc = "finish" THEN "other" ELSE "none"]

(* A message is taken and its job claimed; the registration may not resolve *)
(* any more.  A job that cannot be claimed is "busy" or ended: the message  *)
(* is acknowledged.  The message stays with the task until it ends.         *)
Take(w, j, t) ==
  /\ task[w] = Idle
  /\ Leave(j, t)
  /\ \/ /\ ClaimJob(j, w)
        /\ \E pc \in {"start", "finish"} :
             task' = [task EXCEPT ![w] = Started(w, j, t, pc)]
     \/ ClaimsSpent(j) /\ UNCHANGED task
     \/ Unclaimable(j) /\ UNCHANGED <<vars, task>>
  /\ UNCHANGED <<sender, faults>>

(* The thread of _LeaseHeartbeat runs until the work is left. *)
Beating(w) == task[w].pc \notin {"idle", "finish", "lost"} /\ ~task[w].lost

Beat(w) ==
  /\ Beating(w)
  /\ LET j == task[w].job
     IN  \/ Heartbeat(j, w, task[w].epoch) /\ UNCHANGED task
         \/ /\ ~LockedActive(j, w, task[w].epoch)
            /\ task' = [task EXCEPT ![w].lost = TRUE]
            /\ UNCHANGED vars
  /\ UNCHANGED <<broker, sender, faults>>

(* A heartbeat that raises: the lease counts as lost. *)
BeatFails(w) ==
  /\ Beating(w)
  /\ Fault
  /\ task' = [task EXCEPT ![w].lost = TRUE]
  /\ UNCHANGED <<vars, broker, sender>>

(* heartbeat.check: the local flag, then the job row, but not its expiry. *)
LeaseGone(w) ==
  LET j == task[w].job
  IN  task[w].lost \/ jobs[j].epoch # task[w].epoch \/ jobs[j].status # "running"

Check(w, onward) ==
  /\ IF LeaseGone(w) THEN Goto(w, "lost")
     ELSE IF jobs[task[w].job].cancel THEN GoCancel(w)
     ELSE Goto(w, onward)
  /\ UNCHANGED <<vars, broker, sender, faults>>

(* Evaluation only: the success is not yet written. *)
Succeed(w) ==
  /\ task[w].pc = "succeed"
  /\ LET j == task[w].job  e == task[w].epoch
     IN  \/ /\ FinishJob(j, w, e, "succeeded", "none")
            /\ task' = [task EXCEPT ![w] = Idle]
         \/ /\ LockedActive(j, w, e) /\ ~Succeedable(j)
            /\ GoFail(w, "other")
            /\ UNCHANGED vars
         \/ /\ ~LockedActive(j, w, e)
            /\ Goto(w, "lost")
            /\ UNCHANGED vars
  /\ UNCHANGED <<broker, sender, faults>>

(* Mutant: the terminal update is not fenced by the lease. *)
Finish_Unfenced(w) ==
  /\ task[w].pc = "finish"
  /\ SetJob(task[w].job, Closed(jobs[task[w].job], task[w].status, task[w].error))
  /\ task' = [task EXCEPT ![w] = Idle]
  /\ UNCHANGED <<items, outbox, grants, broker, sender, faults>>

(* finish_job, whose result is ignored, then the acknowledgement. *)
Finish(w) ==
  /\ task[w].pc = "finish"
  /\ LET j == task[w].job  e == task[w].epoch
     IN  \/ FinishJob(j, w, e, task[w].status, task[w].error)
         \/ ~LockedActive(j, w, e) /\ UNCHANGED vars
  /\ task' = [task EXCEPT ![w] = Idle]
  /\ UNCHANGED <<broker, sender, faults>>

(* JobLeaseLost: execute_job sends the message again, up to MaxRetries. *)
Retry(w) ==
  /\ task[w].pc = "lost"
  /\ IF task[w].tries < MaxRetries
     THEN Arrive(task[w].job, task[w].tries + 1)
     ELSE UNCHANGED broker
  /\ task' = [task EXCEPT ![w] = Idle]
  /\ UNCHANGED <<vars, sender, faults>>

(* The worker process dies: its message was not acknowledged. *)
Crash(w) ==
  /\ task[w] # Idle
  /\ Fault
  /\ Arrive(task[w].job, task[w].tries)
  /\ task' = [task EXCEPT ![w] = Idle]
  /\ UNCHANGED <<vars, sender>>

-----------------------------------------------------------------------------
(* The environment *)

(* Clients submit jobs of one kind with its registered total. *)
Client(kind, total) ==
  /\ \/ \E j \in Job, k \in Key \cup {None}, r \in Request : CreateJob(j, kind, k, r, total)
     \/ \E j \in Job : RequestCancel(j)
  /\ UNCHANGED serviceVars

PassTime ==
  \/ \E j \in Job : TickLease(j) /\ UNCHANGED serviceVars
  \/ \E j \in Job : \E n \in DOMAIN outbox[j] :
       /\ ExpireClaim(j, n)
       /\ IF InHand(j, n) THEN Fault ELSE UNCHANGED faults
       /\ UNCHANGED <<broker, sender, task>>

Post ==
  \/ \E d \in Dispatcher :
       Scan(d) \/ Collect(d) \/ Publish(d) \/ Settle(d) \/ StopDispatcher(d)
  \/ \E j \in Job, t \in Try : Lose(j, t)

(* What process_job does whatever the kind of its job. *)
Process(w) ==
  \/ \E j \in Job, t \in Try : Take(w, j, t)
  \/ Beat(w) \/ BeatFails(w)
  \/ Succeed(w) \/ Finish(w) \/ Retry(w)
=============================================================================
