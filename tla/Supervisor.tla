----------------------------- MODULE Supervisor -----------------------------
(***************************************************************************)
(* RunSupervisor of legal_rag/services/supervisor.py over the runs of      *)
(* RunService: the loop thread, the executor threads it starts and cannot  *)
(* kill, the token that lets an executor deliver stage events, stop(), and *)
(* the end of the process that hosts them (the lifespan of api/app.py).    *)
(* The executor is GraphRunExecutor of harness/runner.py: it writes        *)
(* through the run service under its lease, the answer included.           *)
(*                                                                         *)
(* One process at a time; each has a fresh worker_id.  A database call of  *)
(* the loop may fail.  The wait between two turns of the loop is a stutter *)
(* and a stop that gave up on the loop is one that found it alive.         *)
(***************************************************************************)
EXTENDS RunService

CONSTANTS
  MaxQuarantined,  (* MAX_QUARANTINED_EXECUTIONS.                          *)
  MaxFaults,       (* Bound of the model: failing database calls.          *)
  MaxStops         (* Bound of the model: calls of stop().                 *)

ASSUME SupervisorLimits ==
  /\ MaxQuarantined \in Nat \ {0}
  /\ MaxFaults \in Nat
  /\ MaxStops \in Nat

VARIABLES
  process,      (* worker_id of the process that is up, or None.           *)
  spare,        (* The worker_ids no process has had.                      *)
  loop,         (* The loop thread: where it is, with which execution.     *)
  recovered,    (* _recovery_complete                                      *)
  stopping,     (* _stop is set.                                           *)
  stopper,      (* stop(): not called, called, or what it returned.        *)
  current,      (* _execution_thread                                       *)
  token,        (* The executions whose `active` event is set.             *)
  quarantined,  (* _quarantined_threads                                    *)
  thread,       (* What became of the thread of each execution.            *)
  stops, faults

threadVars == <<current, token, quarantined, thread>>
hostVars == <<process, spare, stopper, stops>>
vars == <<runVars, hostVars, loop, recovered, stopping, threadVars, faults>>

(* An execution is a run under one lease. *)
Execution == Run \X (1..MaxEpoch)

ASSUME NullIsNoExecution == None \notin Execution

Holder(x) == leases[x[1]][x[2]]
HoldsLease(x) == WorkerLease(x[1], Holder(x), x[2])

Alive(x) == thread[x] = "running"

(* Mutant: a thread that has ended is never removed. *)
Draining_Unreaped == quarantined

(* _reap_quarantined_threads *)
Draining == {x \in quarantined : Alive(x)}

NotRunning == [pc |-> "none", x |-> None, expired |-> FALSE]
Top == [pc |-> "top", x |-> None, expired |-> FALSE]
Goto(pc) == loop' = [loop EXCEPT !.pc = pc]

SupervisorInit ==
  /\ RunInit
  /\ process = None /\ spare = Worker
  /\ loop = NotRunning /\ recovered = FALSE
  /\ stopping = FALSE /\ stopper = "idle"
  /\ current = None /\ token = {} /\ quarantined = {}
  /\ thread = [x \in Execution |-> "none"]
  /\ stops = 0 /\ faults = 0

-----------------------------------------------------------------------------
(* The hosting process *)

(* Which worker_id is drawn makes no difference. *)
NewProcess ==
  /\ process = None
  /\ spare # {}
  /\ LET w == CHOOSE w \in spare : TRUE IN process' = w /\ spare' = spare \ {w}
  /\ UNCHANGED <<runVars, loop, recovered, stopping, stopper, stops, threadVars, faults>>

(* Its threads are daemons: they end with it. *)
ProcessGone ==
  /\ process # None
  /\ process' = None
  /\ loop' = NotRunning
  /\ current' = None
  /\ token' = {} /\ quarantined' = {}
  /\ thread' = [x \in Execution |-> "none"]
  /\ recovered' = FALSE
  /\ stopping' = FALSE /\ stopper' = "idle"
  /\ UNCHANGED <<runVars, spare, stops, faults>>

ProcessExit == stopper \in {"stopped", "incomplete"} /\ ProcessGone

(* Bounded: another process can follow. *)
Crash == spare # {} /\ ProcessGone

(* A pass of _recover_all_stale_runs: rows locked by another transaction    *)
(* are skipped.                                                             *)
RecoveryPass(batch) ==
  IF batch = {} THEN UNCHANGED runVars ELSE RecoverStaleRuns(batch)

Fault == faults < MaxFaults /\ faults' = faults + 1

(* start: it refuses while a thread it knows of is draining, and starts the *)
(* loop whether or not the first recovery succeeds.                         *)
StartSupervisor ==
  /\ process # None
  /\ loop.pc = "none"
  /\ stopper # "called"
  /\ current # None => ~Alive(current)
  /\ Draining = {}
  /\ quarantined' = {}
  /\ stopping' = FALSE
  /\ stopper' = "idle"
  /\ \E batch \in SUBSET Stale : RecoveryPass(batch)
  /\ \/ recovered' = TRUE /\ UNCHANGED faults
     \/ recovered' = FALSE /\ Fault
  /\ loop' = Top
  /\ UNCHANGED <<process, spare, stops, current, token, thread>>

(* stop(), up to the join. *)
StopCalled ==
  /\ process # None
  /\ stopper # "called"
  /\ stops < MaxStops
  /\ spare # {}
  /\ stops' = stops + 1
  /\ stopping' = TRUE
  /\ stopper' = "called"
  /\ token' = token \ {current}
  /\ UNCHANGED <<runVars, process, spare, loop, recovered, current, quarantined,
                 thread, faults>>

StopAnswer ==
  IF loop.pc = "none" /\ (current # None => ~Alive(current)) /\ Draining = {}
  THEN "stopped" ELSE "incomplete"

(* stop(), once it has joined the threads it knows of or given up on them. *)
StopReturns ==
  /\ stopper = "called"
  /\ stopper' = StopAnswer
  /\ quarantined' = IF loop.pc = "none" THEN Draining ELSE quarantined
  /\ UNCHANGED <<runVars, process, spare, loop, recovered, stopping, stops, current,
                 token, thread, faults>>

-----------------------------------------------------------------------------
(* The loop thread *)

LoopExit ==
  /\ loop.pc = "top"
  /\ stopping
  /\ loop' = NotRunning
  /\ UNCHANGED <<runVars, hostVars, recovered, stopping, threadVars, faults>>

(* The pass that is due at the first turn, after an error and every         *)
(* min(5, lease_seconds / 2).                                               *)
Recover(batch) ==
  /\ loop.pc = "top"
  /\ ~stopping
  /\ RecoveryPass(batch)
  /\ recovered' = TRUE
  /\ Goto("claim")
  /\ UNCHANGED <<hostVars, stopping, threadVars, faults>>

RecoveryNotDue ==
  /\ loop.pc = "top"
  /\ ~stopping
  /\ recovered
  /\ Goto("claim")
  /\ UNCHANGED <<runVars, hostVars, recovered, stopping, threadVars, faults>>

(* Mutant: the draining threads are not counted. *)
HasCapacity_Always == quarantined = quarantined

HasCapacity == Cardinality(Draining) < MaxQuarantined

(* run_once, with a run to execute. *)
Claim(r) ==
  /\ loop.pc = "claim"
  /\ HasCapacity
  /\ ClaimNextRun(r, process)
  /\ loop' = [Top EXCEPT !.pc = "load", !.x = <<r, runs[r].epoch + 1>>]
  /\ quarantined' = Draining
  /\ UNCHANGED <<hostVars, recovered, stopping, current, token, thread, faults>>

(* run_once, at capacity or with no run that could be locked. *)
ClaimNothing ==
  /\ loop.pc = "claim"
  /\ loop' = Top
  /\ quarantined' = Draining
  /\ UNCHANGED <<runVars, hostVars, recovered, stopping, current, token, thread,
                 faults>>

(* An exception that reaches _loop.  What the transaction does may have     *)
(* been committed.                                                          *)
LoopFault ==
  /\ loop.pc \in {"top", "claim", "fail"}
  /\ loop.pc = "top" => ~stopping
  /\ loop.pc = "claim" => HasCapacity
  /\ Fault
  /\ recovered' = FALSE
  /\ loop' = Top
  /\ \/ UNCHANGED runVars
     \/ loop.pc = "top" /\ \E batch \in SUBSET Stale : RecoverStaleRuns(batch)
     \/ loop.pc = "claim" /\ \E r \in Run : ClaimNextRun(r, process)
     \/ loop.pc = "fail" /\ FailRun(loop.x[1], process, loop.x[2])
  /\ UNCHANGED <<hostVars, stopping, threadVars>>

(* load_execution_input and, under the lease, the executor thread. *)
Load ==
  /\ loop.pc = "load"
  /\ IF HoldsLease(loop.x)
     THEN /\ Goto("watch")
          /\ current' = loop.x
          /\ token' = token \cup {loop.x}
          /\ thread' = [thread EXCEPT ![loop.x] = "running"]
     ELSE /\ loop' = Top
          /\ UNCHANGED <<current, token, thread>>
  /\ UNCHANGED <<runVars, hostVars, recovered, stopping, quarantined, faults>>

(* Leaving _execute_with_timeout, for the handler in _execute_claimed. *)
Forget == current' = None /\ token' = token \ {loop.x}

ExecutionDone ==
  /\ loop.pc = "watch"
  /\ ~Alive(loop.x)
  /\ Forget
  /\ IF thread[loop.x] = "failed" THEN Goto("fail") ELSE loop' = Top
  /\ UNCHANGED <<runVars, hostVars, recovered, stopping, quarantined, thread,
                 faults>>

(* Mutant: _SupervisorStopping is handled like any other exception. *)
AfterStop_Fails == Goto("fail")

(* The run is left under its lease. *)
AfterStop == loop' = Top

StopSeen ==
  /\ loop.pc = "watch"
  /\ stopping
  /\ Forget
  /\ quarantined' = quarantined \cup {loop.x}
  /\ AfterStop
  /\ UNCHANGED <<runVars, hostVars, recovered, stopping, thread, faults>>

(* Mutant: a timed-out execution is only waited for. *)
TimedOut_WhenDone == loop.expired /\ ~Alive(loop.x)

(* execution_timeout_seconds have passed. *)
TimedOut == loop.expired

ExecutionTimeout ==
  /\ loop.pc = "watch"
  /\ ~stopping
  /\ TimedOut
  /\ Forget
  /\ quarantined' = quarantined \cup {loop.x}
  /\ Goto("fail")
  /\ UNCHANGED <<runVars, hostVars, recovered, stopping, thread, faults>>

(* A heartbeat is sent, refused, or fails.  In the two last cases the       *)
(* exception leaves _execute_with_timeout with the thread as it is.         *)
Heartbeat ==
  /\ loop.pc = "watch"
  /\ ~stopping
  /\ \/ /\ HeartbeatRun(loop.x[1], process, loop.x[2])
        /\ UNCHANGED <<loop, faults>>
     \/ /\ ~HoldsLease(loop.x)
        /\ loop' = Top
        /\ UNCHANGED <<runVars, faults>>
     \/ /\ Fault
        /\ Goto("fail")
        /\ UNCHANGED runVars
  /\ UNCHANGED <<hostVars, recovered, stopping, threadVars>>

LoadFault ==
  /\ loop.pc = "load"
  /\ Fault
  /\ Goto("fail")
  /\ UNCHANGED <<runVars, hostVars, recovered, stopping, threadVars>>

(* _safe_fail *)
SafeFail ==
  /\ loop.pc = "fail"
  /\ IF HoldsLease(loop.x) THEN FailRun(loop.x[1], process, loop.x[2])
     ELSE UNCHANGED runVars
  /\ loop' = Top
  /\ UNCHANGED <<hostVars, recovered, stopping, threadVars, faults>>

-----------------------------------------------------------------------------
(* An executor thread *)

(* The stage callback. *)
Deliver(x) ==
  /\ Alive(x)
  /\ x \in token
  /\ AppendStageEvent(x[1], Holder(x), x[2])
  /\ UNCHANGED <<hostVars, loop, recovered, stopping, threadVars, faults>>

(* One answer stands for all: the supervisor does not tell them apart, and  *)
(* of the other writes of the harness it sees nothing.                      *)
PublishAnswer(x) ==
  /\ Alive(x)
  /\ PublishTerminalResult(x[1], Holder(x), x[2], "succeeded")
  /\ UNCHANGED <<hostVars, loop, recovered, stopping, threadVars, faults>>

(* It returns when its answer is published or raises that it was refused,   *)
(* which comes to the same; or it raises for a reason of its own, which     *)
(* only the loop that still waits for it will see.                          *)
ThreadEnds(x, how) ==
  /\ Alive(x)
  /\ \/ /\ how = "ended"
        /\ \/ runs[x[1]].status \in Answered /\ runs[x[1]].epoch = x[2]
           \/ x \notin token \/ ~HoldsLease(x)
     \/ how = "failed" /\ loop.x = x
  /\ thread' = [thread EXCEPT ![x] = how]
  /\ UNCHANGED <<runVars, hostVars, loop, recovered, stopping, current, token,
                 quarantined, faults>>

-----------------------------------------------------------------------------
(* Time.  The deadline of a run and the expiry of keys are left to          *)
(* RunService: nothing here reads them.                                     *)

ExecutionExpires ==
  /\ loop.pc = "watch"
  /\ ~loop.expired
  /\ loop' = [loop EXCEPT !.expired = TRUE]
  /\ UNCHANGED <<runVars, hostVars, recovered, stopping, threadVars, faults>>

Elapse(A) == A /\ UNCHANGED <<hostVars, loop, recovered, stopping, threadVars, faults>>

-----------------------------------------------------------------------------
Host ==
  \/ NewProcess \/ ProcessExit \/ Crash \/ StartSupervisor \/ StopCalled \/ StopReturns

LoopStep ==
  \/ LoopExit \/ RecoveryNotDue \/ ClaimNothing \/ LoopFault
  \/ \E batch \in SUBSET Stale : Recover(batch)
  \/ \E r \in Run : Claim(r)
  \/ Load \/ LoadFault
  \/ ExecutionDone \/ StopSeen \/ ExecutionTimeout \/ Heartbeat
  \/ SafeFail

Executor ==
  \E x \in Execution :
    \/ Deliver(x)
    \/ PublishAnswer(x)
    \/ \E how \in {"ended", "failed"} : ThreadEnds(x, how)

SupervisorNext ==
  \/ Host \/ LoopStep \/ Executor \/ ExecutionExpires
  \/ \E r \in Run : Elapse(Own(r) \/ Tick(r))

SupervisorSafety == SupervisorInit /\ [][SupervisorNext]_vars

(* A lease that nobody renews runs out. *)
LeaseRunsOut(r) == (loop.pc = "watch" => loop.x[1] # r) /\ Elapse(Tick(r))

(* The loop thread is scheduled, and recovers and claims again and again;   *)
(* time passes; a process that has stopped ends, and another one follows    *)
(* it and starts.  Nothing is asked of executors, users and the database.   *)
Fairness ==
  /\ WF_vars(LoopExit \/ RecoveryNotDue \/ ClaimNothing \/ Load \/ ExecutionDone
               \/ StopSeen \/ ExecutionTimeout \/ SafeFail)
  /\ \A r \in Run : SF_vars(\E batch \in SUBSET Stale : r \in batch /\ Recover(batch))
  /\ SF_vars(\E batch \in SUBSET Stale : Recover(batch))
  /\ SF_vars(\E r \in Run : Claim(r))
  /\ WF_vars(ExecutionExpires)
  /\ \A r \in Run : WF_vars(LeaseRunsOut(r))
  /\ WF_vars(StopReturns) /\ WF_vars(ProcessExit)
  /\ WF_vars(NewProcess)
  /\ WF_vars(stopper = "idle" /\ StartSupervisor)

SupervisorSpec == SupervisorSafety /\ Fairness

-----------------------------------------------------------------------------
(* Properties *)

(* Types: the loop has an execution exactly between   *)
(* its claim and its handling, of its own process, and what it watches is   *)
(* the current thread; a stopped or absent process executes nothing.        *)
SupervisorTypeOK ==
  /\ process \in Worker \cup {None} /\ spare \in SUBSET Worker
  /\ loop \in [pc: {"none", "top", "claim", "load", "watch", "fail"},
               x: Execution \cup {None}, expired: BOOLEAN]
  /\ recovered \in BOOLEAN /\ stopping \in BOOLEAN
  /\ stopper \in {"idle", "called", "stopped", "incomplete"}
  /\ current \in Execution \cup {None}
  /\ token \in SUBSET Execution
  /\ quarantined \in SUBSET Execution
  /\ thread \in [Execution -> {"none", "running", "ended", "failed"}]
  /\ stops \in 0..MaxStops /\ faults \in 0..MaxFaults
  /\ loop.x # None <=> loop.pc \in {"load", "watch", "fail"}
  /\ loop.x # None => Holder(loop.x) = process
  /\ loop.pc = "watch" => current = loop.x /\ thread[loop.x] # "none"
  /\ process = None => loop = NotRunning /\ ~stopping /\ \A x \in Execution : ~Alive(x)
  /\ current \notin quarantined

(* The threads the supervisor knows of are bounded: what drains and what    *)
(* executes together never exceed the capacity of the quarantine, and the   *)
(* loop has an execution exactly between its claim and its handling.        *)
KnownExecutionsBounded ==
  /\ SupervisorTypeOK
  /\ Cardinality({x \in quarantined \cup {current} : x # None /\ Alive(x)})
       <= MaxQuarantined

(* A run fails for a reason of its own: its execution raised, or ran out of *)
(* time, or the database refused a call.  A shutdown is no reason.          *)
FailuresHaveACause ==
  [][\A r \in Run :
       runs[r].status # "failed" /\ runs'[r].status = "failed" =>
         LET x == <<r, runs[r].epoch>> IN
         (loop.x = x /\ loop.expired) \/ thread[x] = "failed" \/ faults > 0]_vars

(* No claim is kept for ever: not by an executor that never returns, nor by *)
(* one that crashed, was shut down or lost the answer to its claim.         *)
RunsSettle ==
  \A r \in Run : runs[r].status = "running" ~> runs[r].status # "running"

(* A run that can be claimed, queued or to be resumed, waits for ever only  *)
(* behind a quarantine that stays full.                                     *)
ClaimableIsServed ==
  \A r \in Run : <>[](Claimable(r) /\ runs[r].epoch < MaxEpoch)
                   => <>[](Cardinality({x \in quarantined : Alive(x)}) >= MaxQuarantined)

(* stop() answers True only if no execution is left alive, as ADR-002 says  *)
(* and as the lifespan relies on when it disposes the engine.               *)
StopMeansStopped ==
  stopper = "stopped" => \A x \in Execution : ~Alive(x)
=============================================================================
