----------------------------- MODULE RunHarness -----------------------------
(***************************************************************************)
(* The bounded graph of legal_rag/harness: GraphRunExecutor runs a claimed *)
(* run through the nodes of BoundedHarnessNodes, from its trusted          *)
(* checkpoint on.  A frame is one such execution, in the thread of one     *)
(* lease epoch; every call it makes to the run service is a step of its    *)
(* own, and what it computes between two calls belongs to the one before.  *)
(* Frames of older epochs live on after their lease is gone; that a        *)
(* process crashed shows as a frame that takes no further step.            *)
(*                                                                         *)
(* Left out: the seed checkpoint is put twice by LangGraph, with the same  *)
(* state; identity fields that no node may change (_assert_frozen_state,   *)
(* _validated_node); query texts, of which only the number counts; stop    *)
(* reasons; and observations, which write nothing of this.                 *)
(***************************************************************************)
EXTENDS RunService, ChatTurn

CONSTANTS
  Risky,     (* The requests whose question has a terminal risk flag.      *)
  Raw,       (* What a generator may answer.                               *)
  Settings   (* [planner, generate, retry, strict]: whether the executor   *)
             (* has a follow-up planner, generates, retries unknown        *)
             (* outcomes; whether its generator raises provider errors.    *)

ASSUME SettingsAreFlags ==
  Settings \subseteq [planner: BOOLEAN, generate: BOOLEAN, retry: BOOLEAN, strict: BOOLEAN]

ASSUME AnswersAreRead == Raw \subseteq RawAnswer

(* The retriever, of PostgresAssistantFactory, ranks the chunks of one      *)
(* snapshot and scope, and these are the verification context as well.      *)
ASSUME ResultsAreInScope == InScope = Chunk

(* operation_key: the searches of a round, a plan for the next one, and the *)
(* answer.                                                                  *)
GraphOperation ==
  ({"search_laws"} \X (1..MaxRounds) \X (1..MaxQueries))
    \cup ({"plan_followup"} \X (1..MaxRounds) \X {0}) \cup {<<"generate_answer", 0, 0>>}

ASSUME OperationsAreKnown ==
  /\ GraphOperation \subseteq Operation
  /\ \A op \in GraphOperation :
       KindOf[op] = IF op[1] = "search_laws" THEN "tool" ELSE "model"

VARIABLES
  frame,     (* frame[r][e]: the execution of run r under lease epoch e.   *)
  published  (* published[r]: its row of run_results.                      *)

harnessVars == <<runs, ledger, attempts, checkpoints, artifacts, events, messages,
                 keys, leases, frame, published>>

NodeName == {"analyze_query", "route", "retrieve", "merge_evidence", "check_evidence",
             "plan_followup", "generate", "verify", "persist_result"}

(* _SUCCESSORS *)
Successors ==
  [node \in NodeName \cup {None} |->
     CASE node = None -> {"analyze_query"}
       [] node = "analyze_query" -> {"route"}
       [] node = "route" -> {"retrieve"}
       [] node = "retrieve" -> {"merge_evidence"}
       [] node = "merge_evidence" -> {"check_evidence"}
       [] node = "check_evidence" -> {"plan_followup", "generate"}
       [] node = "plan_followup" -> {"retrieve", "generate"}
       [] node = "generate" -> {"verify"}
       [] node = "verify" -> {"persist_result"}
       [] node = "persist_result" -> {None}]

(* new_harness_state *)
NewState == [last |-> None, next |-> "analyze_query", rounds |-> 0, route |-> None,
             queries |-> 0, retrieved |-> None, verified |-> None, status |-> None]

(* What a state refers to. *)
HarnessArtifact == ({"retrieved_turn"} \X RetrievedTurn) \cup ({"verified_result"} \X PublishedResult)

(* HarnessState *)
HarnessState ==
  [last: NodeName \cup {None}, next: NodeName \cup {None}, rounds: 0..MaxRounds,
   route: {"retrieve", "programmatic_terminal", None}, queries: 0..MaxQueries,
   retrieved: ({"retrieved_turn"} \X RetrievedTurn) \cup {None},
   verified: ({"verified_result"} \X PublishedResult) \cup {None},
   status: Answered \cup {None}]

ASSUME NullIsNoState ==
  /\ None \notin NodeName
  /\ None \notin {"retrieve", "programmatic_terminal"}
  /\ None \notin Answered
  /\ None \notin {"retrieved_turn"} \X RetrievedTurn
  /\ None \notin {"verified_result"} \X PublishedResult
  /\ None \notin PublishedResult
  /\ None \notin GraphOperation

NoFrame == [pc |-> "none", with |-> None, state |-> NewState, op |-> None, n |-> 0,
            tries |-> 0, found |-> {}, turn |-> None]

HarnessInit ==
  /\ RunInit
  /\ frame = [r \in Run |-> [e \in 1..MaxEpoch |-> NoFrame]]
  /\ published = [r \in Run |-> None]

-----------------------------------------------------------------------------
(* Frames *)

At(r, e, pc) == e \in DOMAIN leases[r] /\ frame[r][e].pc = pc
AtNode(r, e, node) == At(r, e, "node") /\ frame[r][e].state.next = node
Calling(r, e, name) == At(r, e, "call") /\ frame[r][e].op[1] = name

Become(r, e, f) == frame' = [frame EXCEPT ![r] = [@ EXCEPT ![e] = f]]

End(r, e) == Become(r, e, [NoFrame EXCEPT !.pc = "done", !.with = frame[r][e].with])

Proceed(r, e, pc) == Become(r, e, [frame[r][e] EXCEPT !.pc = pc])

(* _complete: the node is done, its state is to be put. *)
Complete(r, e, next, state) ==
  Become(r, e, [NoFrame EXCEPT !.pc = "put", !.with = frame[r][e].with,
                               !.state = [state EXCEPT !.last = state.next, !.next = next]])

(* The loops of _invoke_*: an operation of its own count of tries. *)
Invoke(r, e, op, found) ==
  Become(r, e, [frame[r][e] EXCEPT !.pc = "reserve", !.op = op, !.n = 0, !.tries = 0,
                                   !.found = found])

(* _assert_execution_fence, of the saver and of the node retrieve. *)
Fence(r, e) == LeaseOrPublished(r, leases[r][e], e)

Local == UNCHANGED runVars /\ UNCHANGED published

(* retrieved_turn_to_artifact; _safe_result. *)
RetrievedArtifact(turn) == <<"retrieved_turn", turn>>
VerifiedArtifact(turn) == <<"verified_result", SafeResult(turn)>>

(* _retrieved, _safe_result: a turn and a result are read back. *)
Retrieved(state) == state.retrieved[2]
Safe(state) == state.verified[2]

(* load_node_artifact: what a state refers to is found. *)
Loadable(r, state) == {state.retrieved, state.verified} \ {None} \subseteq artifacts[r]

(* Mutant: only what this lease does not know. *)
HasOutcomeUnknown_ThisLease(r, name) ==
  \E n \in Attempts(r, {"outcome_unknown"}) :
    attempts[r][n].operation[1] = name /\ attempts[r][n].epoch = runs[r].epoch

(* has_outcome_unknown *)
HasOutcomeUnknown(r, name) ==
  \E n \in Attempts(r, {"outcome_unknown"}) : attempts[r][n].operation[1] = name

-----------------------------------------------------------------------------
(* execute_claimed, and the saver *)

(* load_trusted_checkpoint *)
Resumed(r) ==
  IF runs[r].trusted = None THEN NewState ELSE checkpoints[r][runs[r].trusted].state

(* load_execution_input, under the lease, and execute_claimed up to the     *)
(* graph.                                                                   *)
Start(r, e) ==
  /\ At(r, e, "none")
  /\ WorkerLease(r, leases[r][e], e)
  /\ \E with \in Settings :
       Become(r, e, [NoFrame EXCEPT !.pc = IF BeforeDeadline(r) THEN "put" ELSE "limited",
                                    !.with = with, !.state = Resumed(r)])
  /\ Local

(* FencedPostgresSaver.put, of the saver's own tables ... *)
Put(r, e) ==
  /\ At(r, e, "put")
  /\ Fence(r, e)
  /\ Proceed(r, e, "bind")
  /\ Local

(* The checkpoints of a lease are numbered. *)
NextCheckpoint(r, e) ==
  Cardinality({c \in CheckpointKey : c[1] = e /\ checkpoints[r][c] # None}) + 1

(* ... and of the projection, in a transaction of its own; then the graph   *)
(* goes on with the next node, or ends.  CheckpointId bounds the number of  *)
(* checkpoints in the model.                                                *)
Bind(r, e) ==
  LET f == frame[r][e] IN
  /\ At(r, e, "bind")
  /\ NextCheckpoint(r, e) \in CheckpointId
  /\ BindCheckpoint(r, leases[r][e], e, NextCheckpoint(r, e), f.state)
  /\ IF f.state.next = None THEN End(r, e) ELSE Proceed(r, e, "node")
  /\ UNCHANGED published

(* A call that finds the lease gone raises, and the execution ends. *)
Fenced(r, e) ==
  /\ e \in DOMAIN leases[r]
  /\ \/ frame[r][e].pc \in {"put", "bind"} /\ ~Fence(r, e)
     \/ frame[r][e].pc \in {"reserve", "dispatch", "call", "save", "emit", "limited", "raise"}
          /\ ~WorkerLease(r, leases[r][e], e)
     \/ \E node \in {"retrieve", "generate", "persist_result"} :
          AtNode(r, e, node) /\ ~WorkerLease(r, leases[r][e], e)
  /\ End(r, e)
  /\ Local

(* BudgetExhausted, of a ledger at its limit or a deadline that has passed: *)
(* _limited_result is to be published.                                      *)
Exhausted(r, e) ==
  LET f == frame[r][e]
      queries == IF f.state.rounds = 0 THEN 1 ELSE f.state.queries
  IN
  /\ e \in DOMAIN leases[r] /\ WorkerLease(r, leases[r][e], e)
  /\ \/ /\ AtNode(r, e, "retrieve") /\ f.state.route = "retrieve"
        /\ \/ ~BeforeDeadline(r)
           \/ ledger[r].rounds >= MaxRounds
           \/ ledger[r].queries + queries > MaxRounds * MaxQueries
     \/ f.pc = "reserve" /\ ~(BeforeDeadline(r) /\ WithinBudget(r, f.op))
     \/ f.pc = "dispatch" /\ ~BeforeDeadline(r)
  /\ Proceed(r, e, "limited")
  /\ Local

Publish(r, e, status, result) ==
  /\ PublishTerminalResult(r, leases[r][e], e, status)
  /\ published' = [published EXCEPT ![r] = result]

Limit(r, e) ==
  /\ At(r, e, "limited")
  /\ Publish(r, e, "completed_with_limits", LimitedResult)
  /\ End(r, e)

(* ExecutionFailure: the supervisor fails the run. *)
Raise(r, e) ==
  /\ At(r, e, "raise")
  /\ FailRun(r, leases[r][e], e)
  /\ End(r, e)
  /\ UNCHANGED published

(* The supervisor stops waiting: the run fails, the thread lives on. *)
TimeOut(r, e) ==
  /\ e \in DOMAIN leases[r] /\ frame[r][e].pc \notin {"none", "done"}
  /\ FailRun(r, leases[r][e], e)
  /\ UNCHANGED <<frame, published>>

-----------------------------------------------------------------------------
(* Calls to the retriever, the planner and the generator *)

(* reserve_attempt *)
Reserve(r, e) ==
  LET f == frame[r][e] IN
  /\ At(r, e, "reserve")
  /\ ReserveAttempt(r, leases[r][e], e, f.op)
  /\ Become(r, e, [f EXCEPT !.pc = "dispatch", !.n = Len(attempts[r]) + 1, !.tries = @ + 1])
  /\ UNCHANGED published

(* mark_attempt_dispatched, and the call goes out *)
Dispatch(r, e) ==
  /\ At(r, e, "dispatch")
  /\ MarkAttemptDispatched(r, frame[r][e].n, leases[r][e], e)
  /\ Proceed(r, e, "call")
  /\ UNCHANGED published

(* The call came back: finish_attempt. *)
CameBack(r, e, status) ==
  FinishAttempt(r, frame[r][e].n, leases[r][e], e, status) /\ UNCHANGED published

(* retry_allowed.  A timeout leaves the outcome unknown, and is retryable. *)
CallFailed(r, e, status, retryable) ==
  LET f == frame[r][e] IN
  /\ At(r, e, "call")
  /\ status = "outcome_unknown" => retryable
  /\ f.op[1] = "generate_answer" => f.with.strict
  /\ CameBack(r, e, status)
  /\ Proceed(r, e, IF retryable /\ f.tries <= MaxRetry THEN "reserve" ELSE "raise")

-----------------------------------------------------------------------------
(* The nodes *)

AnalyzeQuery(r, e) ==
  /\ AtNode(r, e, "analyze_query")
  /\ Complete(r, e, "route", [frame[r][e].state EXCEPT !.queries = 1])
  /\ Local

Route(r, e) ==
  /\ AtNode(r, e, "route")
  /\ Complete(r, e, "retrieve", [frame[r][e].state EXCEPT
       !.route = IF runs[r].body \in Risky THEN "programmatic_terminal" ELSE "retrieve"])
  /\ Local

(* retrieve, of a question that is refused: no round, no attempt. *)
RefuseRetrieval(r, e) ==
  /\ AtNode(r, e, "retrieve")
  /\ frame[r][e].state.route = "programmatic_terminal"
  /\ Fence(r, e)
  /\ Become(r, e, [frame[r][e] EXCEPT !.pc = "save",
                     !.turn = RetrieveTurn(TRUE, {}, {}, FALSE, 0)])
  /\ Local

(* retrieve, up to its first search.  The operation key holds the round of  *)
(* the state, which a lease that failed in a round has not moved.           *)
BeginRound(r, e) ==
  LET state == frame[r][e].state
      queries == IF state.rounds = 0 THEN 1 ELSE state.queries
  IN
  /\ AtNode(r, e, "retrieve")
  /\ state.route = "retrieve"
  /\ BeginRetrievalRound(r, leases[r][e], e, queries)
  /\ Invoke(r, e, <<"search_laws", state.rounds + 1, 1>>, {})
  /\ UNCHANGED published

(* One query of the round found `more`: the next, or the round is merged. *)
SearchAnswered(r, e, more) ==
  LET f == frame[r][e]
      found == f.found \cup more
      exhausted == IF ledger[r].rounds >= MaxRounds THEN "max_retrieval_rounds"
                   ELSE "followup_evidence_insufficient"
  IN
  /\ Calling(r, e, "search_laws")
  /\ CameBack(r, e, "succeeded")
  /\ IF f.state.rounds > 0 /\ f.op[3] < f.state.queries
     THEN Invoke(r, e, <<f.op[1], f.op[2], f.op[3] + 1>>, found)
     ELSE Become(r, e, [f EXCEPT !.pc = "save", !.op = None, !.n = 0, !.tries = 0,
            !.found = {},
            !.turn = IF f.state.rounds = 0 THEN RetrieveTurn(FALSE, more, {}, FALSE, 0)
                     ELSE MergeFollowupTurn(Retrieved(f.state), found, exhausted)])

(* retrieve: the turn becomes an artifact, and the state refers to it. *)
SaveRetrieved(r, e) ==
  LET f == frame[r][e]
      artifact == RetrievedArtifact(f.turn)
  IN
  /\ At(r, e, "save") /\ f.state.next = "retrieve"
  /\ IF RetrievedAccepted(f.turn)
     THEN /\ SaveNodeArtifact(r, leases[r][e], e, artifact)
          /\ Become(r, e, [f EXCEPT !.pc = "emit", !.turn = None,
               !.state = [@ EXCEPT !.retrieved = artifact, !.rounds = ledger[r].rounds,
                                   !.queries = 0]])
     ELSE UNCHANGED runVars /\ Proceed(r, e, "refused")
  /\ UNCHANGED published

(* retrieval.completed, verification.completed *)
Emit(r, e) ==
  LET f == frame[r][e] IN
  /\ At(r, e, "emit")
  /\ AppendStageEvent(r, leases[r][e], e)
  /\ Complete(r, e, IF f.state.next = "retrieve" THEN "merge_evidence" ELSE "verify", f.state)
  /\ UNCHANGED published

MergeEvidence(r, e) ==
  /\ AtNode(r, e, "merge_evidence")
  /\ Complete(r, e, "check_evidence", frame[r][e].state)
  /\ Local

(* The completion status the evidence decides at once, if it does. *)
EvidenceVerdict(r, with, turn) ==
  IF turn.terminal = Refusal THEN "completed_with_limits"
  ELSE IF turn.check.sufficient THEN "succeeded"
  ELSE IF turn.check.stop = "needs_clarification" THEN "needs_clarification"
  ELSE IF \/ ledger[r].rounds >= MaxRounds
          \/ ledger[r].used["tool"] >= MaxUsed["tool"]
          \/ ~with.planner /\ ~turn.check.followups
  THEN "completed_with_limits"
  ELSE None

CheckEvidenceNode(r, e) ==
  LET f == frame[r][e]
      status == EvidenceVerdict(r, f.with, Retrieved(f.state))
  IN
  /\ AtNode(r, e, "check_evidence")
  /\ Complete(r, e, IF status = None THEN "plan_followup" ELSE "generate",
              [f.state EXCEPT !.status = status, !.rounds = ledger[r].rounds])
  /\ Local

(* plan_followup ends: without queries, or at the limit, an answer is due. *)
Plan(r, e, queries) ==
  LET state == [frame[r][e].state EXCEPT !.rounds = ledger[r].rounds] IN
  IF queries = 0 \/ ledger[r].rounds >= MaxRounds
  THEN Complete(r, e, "generate", [state EXCEPT !.status = "completed_with_limits"])
  ELSE Complete(r, e, "retrieve", [state EXCEPT !.queries = queries])

(* plan_followup, up to the call of the planner.  Without one, the check of *)
(* the evidence has proposed a query.                                       *)
PlanFollowup(r, e) ==
  LET f == frame[r][e] IN
  /\ AtNode(r, e, "plan_followup")
  /\ IF HasOutcomeUnknown(r, "plan_followup") /\ ~f.with.retry THEN Plan(r, e, 0)
     ELSE IF f.with.planner
     THEN Invoke(r, e, <<"plan_followup", ledger[r].rounds + 1, 0>>, {})
     ELSE Plan(r, e, IF Retrieved(f.state).check.followups THEN 1 ELSE 0)
  /\ Local

(* The planner proposes; what is no list of queries is refused. *)
PlannerAnswered(r, e) ==
  /\ Calling(r, e, "plan_followup")
  /\ CameBack(r, e, "succeeded")
  /\ \/ \E queries \in 0..MaxQueries : Plan(r, e, queries)
     \/ Proceed(r, e, "raise")

(* generate: generation.started *)
BeginGeneration(r, e) ==
  /\ AtNode(r, e, "generate")
  /\ AppendStageEvent(r, leases[r][e], e)
  /\ Proceed(r, e, "generate")
  /\ UNCHANGED published

(* The turn is verified before anything of it is stored. *)
Verified(r, e, turn, status) ==
  LET f == frame[r][e] IN
  Become(r, e, [f EXCEPT !.pc = "save", !.op = None, !.n = 0, !.tries = 0,
                         !.turn = VerifyTurn(turn), !.state = [@ EXCEPT !.status = status]])

(* generate: without a model, or instead of one whose answer was lost.      *)
GenerateLocally(r, e) ==
  LET f == frame[r][e]
      turn == Retrieved(f.state)
      model == f.with.generate /\ turn.terminal = Nothing
  IN
  /\ At(r, e, "generate")
  /\ IF ~model THEN Verified(r, e, GenerateTurn(turn, FALSE, Nothing), f.state.status)
     ELSE IF HasOutcomeUnknown(r, "generate_answer") /\ ~f.with.retry
     THEN Verified(r, e, GenerateTurn(turn, TRUE, Nothing), "completed_with_limits")
     ELSE Invoke(r, e, <<"generate_answer", 0, 0>>, {})
  /\ Local

(* The generator answers.  Where the client does not raise its errors, the  *)
(* turn says that it failed, and the attempt counts as a success.           *)
GeneratorAnswered(r, e, raw) ==
  LET f == frame[r][e] IN
  /\ Calling(r, e, "generate_answer")
  /\ raw = Nothing => ~f.with.strict
  /\ CameBack(r, e, "succeeded")
  /\ Verified(r, e, GenerateTurn(Retrieved(f.state), TRUE, raw), f.state.status)

(* generate: the safe result of the verified turn becomes an artifact.      *)
SaveVerified(r, e) ==
  LET f == frame[r][e]
      artifact == VerifiedArtifact(f.turn)
  IN
  /\ At(r, e, "save") /\ f.state.next = "generate"
  /\ IF Publishable(f.turn)
     THEN /\ SaveNodeArtifact(r, leases[r][e], e, artifact)
          /\ Become(r, e, [f EXCEPT !.pc = "emit", !.turn = None,
               !.state = [f.state EXCEPT !.verified = artifact, !.rounds = ledger[r].rounds,
                                         !.status = IF @ = None THEN "succeeded" ELSE @]])
     ELSE UNCHANGED runVars /\ Proceed(r, e, "refused")
  /\ UNCHANGED published

Verify(r, e) ==
  /\ AtNode(r, e, "verify")
  /\ Complete(r, e, "persist_result", frame[r][e].state)
  /\ Local

(* persist_result; its checkpoint follows the publication. *)
PersistResult(r, e) ==
  LET state == frame[r][e].state IN
  /\ AtNode(r, e, "persist_result")
  /\ Publish(r, e, IF state.status = None THEN "succeeded" ELSE state.status,
             Safe(state))
  /\ Complete(r, e, None, state)

-----------------------------------------------------------------------------
Node(r, e) ==
  \/ AnalyzeQuery(r, e) \/ Route(r, e) \/ RefuseRetrieval(r, e) \/ BeginRound(r, e)
  \/ SaveRetrieved(r, e) \/ MergeEvidence(r, e) \/ CheckEvidenceNode(r, e)
  \/ PlanFollowup(r, e) \/ BeginGeneration(r, e) \/ GenerateLocally(r, e)
  \/ SaveVerified(r, e) \/ Emit(r, e) \/ Verify(r, e) \/ PersistResult(r, e)

External(r, e) ==
  \/ Reserve(r, e) \/ Dispatch(r, e)
  \/ \E status \in {"failed", "outcome_unknown"}, retryable \in BOOLEAN :
       CallFailed(r, e, status, retryable)
  \/ \E more \in SUBSET Chunk : SearchAnswered(r, e, more)
  \/ PlannerAnswered(r, e)
  \/ \E raw \in Raw \cup {Nothing} : GeneratorAnswered(r, e, raw)

GraphStep(r, e) ==
  \/ Start(r, e) \/ Put(r, e) \/ Bind(r, e) \/ Fenced(r, e) \/ Exhausted(r, e)
  \/ Limit(r, e) \/ Raise(r, e) \/ TimeOut(r, e)
  \/ Node(r, e) \/ External(r, e)

(* The owner's and the supervisor's own steps, of RunService. *)
Around ==
  /\ \/ \E r \in Run, s \in Session, k \in Key, body \in Body : CreateRun(r, s, k, body, None)
     \/ \E r \in Run : CancelRun(r) \/ ResumeRun(r) \/ Tick(r) \/ PassDeadline(r)
     \/ \E r \in Run, w \in Worker : ClaimNextRun(r, w)
     \/ \E batch \in SUBSET Stale : RecoverStaleRuns(batch)
     \/ \E r \in Run : \E e \in DOMAIN leases[r] : HeartbeatRun(r, leases[r][e], e)
  /\ UNCHANGED <<frame, published>>

HarnessNext == Around \/ \E r \in Run : \E e \in 1..MaxEpoch : GraphStep(r, e)

HarnessSpec == HarnessInit /\ [][HarnessNext]_harnessVars

-----------------------------------------------------------------------------
(* Properties *)

(* The trusted state of a run. *)
Trusted(r) == Resumed(r)

(* The durable progress of a run is one walk through the graph, whatever    *)
(* leases it takes, crashes or threads that outlive their lease; what is    *)
(* published is the draft the walk ends with, or the limit, and only once.  *)
Progress(r) ==
  INSTANCE RunProgress WITH
    at <- Trusted(r).last, rounds <- Trusted(r).rounds,
    draft <- Trusted(r).verified, answer <- IF published[r] = None THEN None
      ELSE <<"verified_result", published[r]>>,
    closed <- runs[r].status \in Terminal,
    LimitAnswer <- <<"verified_result", LimitedResult>>

ImplementsProgress ==
  /\ \A r \in Run : Progress(r)!Init
  /\ [][\A r \in Run : [Progress(r)!Next]_(Progress(r)!progress)]_harnessVars

(* A model is not asked twice in silence.  While an earlier call of the     *)
(* same name may have been answered, only the lease that saw it time out    *)
(* repeats it, as a retry within its budget; unless the executor is told to *)
(* retry unknown outcomes.  What was answered is not asked again.           *)
NoSilentRepeat ==
  [][\A r \in Run : \A n \in DOMAIN attempts[r] :
       LET new == attempts[r][n] IN
       /\ new.status = "reserved" /\ attempts'[r][n].status = "dispatched"
       /\ KindOf[new.operation] = "model"
       => \A m \in DOMAIN attempts[r] \ {n} :
            LET old == attempts[r][m] IN
            old.operation[1] = new.operation[1] =>
              /\ old.status # "dispatched"
              /\ old.status = "succeeded" => old.operation # new.operation
              /\ old.status = "outcome_unknown" =>
                   \/ old.epoch = new.epoch /\ old.operation = new.operation
                   \/ frame[r][new.epoch].with.retry]_harnessVars

(* What is published has been earned: what the trusted state refers to can  *)
(* be loaded, by whichever lease; a result is there exactly for the         *)
(* statuses that bear one; it cites no source that its evidence lacks; a    *)
(* model's own words are shown with the sources they rest on; a run         *)
(* succeeds on sufficient evidence only, and is limited where it stopped    *)
(* early.  No turn is refused when it is stored, nor would one be where the *)
(* stages are stored one by one.                                            *)
AnswersAreEarned ==
  \A r \in Run :
    LET result == published[r]
        state == Trusted(r)
    IN
    /\ Loadable(r, state)
    /\ result # None <=> runs[r].status \in Answered
    /\ result = LimitedResult => runs[r].status = "completed_with_limits"
    /\ result # None /\ result # LimitedResult =>
         LET turn == Retrieved(state) IN
         /\ <<"verified_result", result>> = state.verified
         /\ result.sources = Cardinality(turn.results)
         /\ result.cited \subseteq 1..result.sources
         /\ result.mode = "evidence_answer" <=> result.text = "own"
         /\ result.text = "own" => result.cited # {} /\ turn.check.sufficient
         /\ runs[r].status = "succeeded" => turn.check # Nothing /\ turn.check.sufficient
         /\ turn.terminal # Nothing => result.mode = turn.terminal.mode
    /\ \A e \in 1..MaxEpoch :
         LET f == frame[r][e] IN
         /\ f.pc # "refused"
         /\ f.pc = "save" /\ f.state.next = "generate" =>
              GeneratedAccepted(f.turn.generated) /\ VerifiedAccepted(f.turn)
=============================================================================
