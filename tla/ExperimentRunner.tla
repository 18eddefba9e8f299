--------------------------- MODULE ExperimentRunner ---------------------------
(***************************************************************************)
(* Running M2 experiments: the scheduler of experiment_runner.py with its  *)
(* worker threads, the stages of a case as experiment_adapter.py executes  *)
(* them through the exact stage cache of experiment_runtime.py, and the    *)
(* run, resume and replay calls of experiment_lifecycle.py, over the       *)
(* directories of ExperimentStore.                                         *)
(*                                                                         *)
(* Several experiments may run, each in a process of its own, and share    *)
(* one cache; one experiment has one runner at a time, which the code      *)
(* enforces within a process and asks of its callers across processes.  A  *)
(* process may die between any two steps.                                  *)
(*                                                                         *)
(* Stages that call no provider compute a value their key determines and   *)
(* are one step; a provider call is three (dispatch, answer, publication). *)
(* Observations, usage ledgers, timings and scores are left out, except    *)
(* for which stage values were made in the attempt.                        *)
(***************************************************************************)
EXTENDS ExperimentStore

CONSTANTS
    Experiments,   \* experiment ids, numbers
    Providers,     \* stages that call a provider in this configuration
    Permits,       \* calls in flight for one kind: runtime.provider_limits
    Scenarios      \* what is run, and how often a fault may happen (bounds)

ASSUME RunnerAssumption == Permits \in Nat \ {0} /\ Experiments \subseteq Nat

\* A dataset is a sequence of cases with distinct ids, which the store and the
\* runner check before they use it.
ASSUME ScenariosAreValid ==
    \A s \in Scenarios :
        /\ s.dataset \in Seq({s.dataset[i] : i \in DOMAIN s.dataset})
        /\ \A i, j \in DOMAIN s.dataset : s.dataset[i].id = s.dataset[j].id => i = j
        /\ s.generate \in BOOLEAN /\ s.judged \in BOOLEAN /\ s.external \in BOOLEAN
        /\ s.stopAfter \subseteq Nat
        /\ s.budget \in [DOMAIN s.budget -> Nat] /\ "damages" \in DOMAIN s.budget

VARIABLES
    scenario,   \* the dataset, the execution policy and the modes in use
    code,       \* the identity of the checked-out repository and corpus
    budget,     \* what may still happen: launches, resumes, stops, faults...
    exps,       \* the experiments on disk: id -> [manifest, dirs]
    cache,      \* the exact stage cache: stage key -> [value, intact]
    run,        \* run[e]: the runner of e
    work        \* work[e][u]: the thread that works on unit u of e

runnerVars == <<scenario, code, budget, exps, cache, run, work>>

NoRuntime == None
Runtime == [mode : CacheModes, memory : Seq(Values)]

ASSUME NothingIsNoRuntime == NoRuntime \notin Runtime

IdleRun == [pc |-> "off", mode |-> "cache", stop |-> FALSE, after |-> 0,
            completed |-> 0, terminal |-> {}, unit |-> 0, result |-> "none"]

IdleWorker == [pc |-> "off", turn |-> 1, state |-> NoState, runtime |-> NoRuntime,
               number |-> 0, mode |-> "cache", stage |-> 1, vals |-> <<>>,
               fresh |-> {}, answer |-> Computed,
               out |-> [status |-> "none", retryable |-> FALSE, error |-> "none",
                        after |-> NoState]]

UnitsOf == [dataset \in {s.dataset : s \in Scenarios} |-> WorkUnits(dataset)]
Units == UnitsOf[scenario.dataset]

Init ==
    /\ scenario \in Scenarios
    /\ code \in Codes
    /\ code = CHOOSE c \in Codes : TRUE
    /\ budget = scenario.budget
    /\ exps = <<>>
    /\ cache = <<>>
    /\ run = [e \in Experiments |-> IdleRun]
    /\ work = [e \in Experiments |-> [u \in DOMAIN Units |-> IdleWorker]]

Spend(what) ==
    /\ budget[what] > 0
    /\ budget' = [budget EXCEPT ![what] = @ - 1]

SetDirs(e, dirs) == exps' = [exps EXCEPT ![e].dirs = dirs]
SetDir(e, id, dir) == exps' = [exps EXCEPT ![e].dirs[id] = dir]
SetRun(e, r) == run' = [run EXCEPT ![e] = r]
SetWork(e, u, w) == work' = [work EXCEPT ![e][u] = w]
Goto(e, u, pc) == SetWork(e, u, [work[e][u] EXCEPT !.pc = pc])
StopWork(e) == work' = [work EXCEPT ![e] = [u \in DOMAIN Units |-> IdleWorker]]

-----------------------------------------------------------------------------
(* The lifecycle calls.                                                    *)

\* The manifest a call builds from the repository as it is now.
PlannedManifest(default) ==
    Manifest(scenario.dataset, scenario.generate, scenario.judged,
             scenario.external /\ default # "replay", code,
             scenario.concurrency, default)

Existing == DOMAIN exps

CaseIds(dataset) == {dataset[i].id : i \in DOMAIN dataset}

\* A bound of the model: ids are interchangeable and are used in order.
FirstFree(e) == e \notin Existing /\ \A f \in Experiments : f < e => f \in Existing

Create(e, manifest) ==
    /\ FirstFree(e)
    /\ PolicyAllows(manifest)
    /\ ContiguousGroups(manifest.dataset)
    /\ exps' = [f \in Existing \cup {e} |->
                   IF f = e
                   THEN [manifest |-> manifest,
                         dirs |-> [id \in CaseIds(manifest.dataset) |-> EmptyDir]]
                   ELSE exps[f]]

\* A runner is made for one call and prepares the units in their order.
StartRunner(e, mode, after) ==
    SetRun(e, [IdleRun EXCEPT !.pc = "start", !.mode = mode, !.after = after])

\* A bound of the model: some scenarios run one experiment at a time.
Alone == scenario.serial => \A f \in Experiments : run[f].pc = "off"

\* A caller that brings providers of its own uses the store and the runner
\* without the lifecycle, whose runtimes have none: _runtime_factory refuses to
\* generate and to execute a manifest that allows external calls.
ProviderFree(manifest) == ~manifest.generate /\ ~manifest.external

Launch(e, mode, after) ==
    /\ run[e].pc = "off" /\ Alone
    /\ mode \in scenario.modes
    /\ after > 0 => scenario.concurrency = 1
    /\ Spend("launches")
    /\ Create(e, PlannedManifest(mode))
    /\ StartRunner(e, mode, after)
    /\ UNCHANGED <<scenario, code, cache, work>>

RunExperiment(e, mode, after) ==
    /\ ProviderFree(PlannedManifest(mode))
    /\ Launch(e, mode, after)

RunWithProviders(e, mode, after) ==
    /\ ~ProviderFree(PlannedManifest(mode))
    /\ Launch(e, mode, after)

\* A resume rebuilds the manifest with the stored default mode and runs in the
\* mode it is given, whatever the default is; what differs is refused before
\* any case is read.
Relaunch(e, mode, after) ==
    /\ run[e].pc = "off" /\ Alone
    /\ e \in Existing
    /\ mode \in scenario.resumeModes
    /\ after > 0 => scenario.concurrency = 1
    /\ Compatible(exps[e].manifest, PlannedManifest(exps[e].manifest.default))
    /\ Spend("resumes")
    /\ StartRunner(e, mode, after)
    /\ UNCHANGED <<scenario, code, exps, cache, work>>

ResumeExperiment(e, mode, after) ==
    /\ Relaunch(e, mode, after)
    /\ ProviderFree(exps[e].manifest)

ResumeWithProviders(e, mode, after) ==
    /\ Relaunch(e, mode, after)
    /\ ~ProviderFree(exps[e].manifest)

\* A replay is a new experiment over the source's dataset, whose manifest lets
\* nobody be called; the source need not be complete.
NewReplay(source, e) ==
    /\ source # e
    /\ source \in Existing
    /\ run[e].pc = "off" /\ Alone
    /\ Spend("replays")
    /\ Create(e, PlannedManifest("replay"))
    /\ UNCHANGED <<scenario, code, cache, work>>

\* The lifecycle refuses to generate when the directory is already there.
ReplayExperiment(source, e) ==
    /\ NewReplay(source, e)
    /\ ~exps[source].manifest.external
    /\ IF ProviderFree(PlannedManifest("replay")) THEN StartRunner(e, "replay", 0)
       ELSE UNCHANGED run

ReplayWithProviders(source, e) ==
    /\ NewReplay(source, e)
    /\ ~ProviderFree(PlannedManifest("replay"))
    /\ StartRunner(e, "replay", 0)

-----------------------------------------------------------------------------
(* Preparation: scan, then plan unit by unit and commit what a crash kept   *)
(* from being marked.                                                      *)

Histories(dirs) == [id \in DOMAIN dirs |-> dirs[id].attempts]

ScanIsCorrupt(dirs) == \E id \in DOMAIN dirs : Category(dirs[id]) = "corrupt"

ScanDirectory(e) ==
    /\ run[e].pc = "start"
    /\ SetRun(e, IF ScanIsCorrupt(exps[e].dirs)
                 THEN [run[e] EXCEPT !.pc = "off", !.result = "blocked"]
                 ELSE [run[e] EXCEPT !.pc = "plan", !.unit = 1])
    /\ UNCHANGED <<scenario, code, budget, exps, cache, work>>

\* The completed turns whose history is in order, counted from the first.
SoundPrefix(unit, histories) ==
    CHOOSE n \in 0 .. CompletedPrefix(unit, histories) :
        /\ \A i \in 1 .. n :
              CaseHistoryValid(histories[unit[i].id], unit, StateBefore(unit, histories, i))
        /\ n < CompletedPrefix(unit, histories) =>
              ~CaseHistoryValid(histories[unit[n + 1].id], unit,
                                StateBefore(unit, histories, n + 1))

\* The first turn that is not complete can no longer succeed: its attempts are
\* used up or its last failure was not retryable.
CannotGoOn(attempts) ==
    /\ attempts # <<>>
    /\ \/ Len(attempts) >= MaxAttempts
       \/ ~LatestAttempt(attempts).retryable

PrepareUnit(e) ==
    LET u         == run[e].unit
        unit      == Units[u]
        dirs      == exps[e].dirs
        histories == Histories(dirs)
        done      == CompletedPrefix(unit, histories)
        sound     == SoundPrefix(unit, histories)
        next      == unit[done + 1].id
    IN  /\ run[e].pc = "plan"
        /\ u <= Len(Units)
        /\ SetDirs(e, [id \in DOMAIN dirs |->
                         IF \E i \in 1 .. sound : unit[i].id = id
                         THEN CommitPending(dirs[id]) ELSE dirs[id]])
        /\ IF ~UnitHistoryValid(unit, histories)
           THEN SetRun(e, [run[e] EXCEPT !.pc = "off", !.result = "refused"]) /\ StopWork(e)
           ELSE IF done = Len(unit)
           THEN SetRun(e, [run[e] EXCEPT !.unit = u + 1]) /\ UNCHANGED work
           ELSE IF CannotGoOn(histories[next])
           THEN /\ SetRun(e, [run[e] EXCEPT !.unit = u + 1, !.terminal = @ \cup {next}])
                /\ UNCHANGED work
           ELSE /\ SetRun(e, [run[e] EXCEPT !.unit = u + 1])
                /\ SetWork(e, u, [IdleWorker EXCEPT !.pc = "queued", !.turn = done + 1,
                                     !.state = StateBefore(unit, histories, done + 1)])
        /\ UNCHANGED <<scenario, code, budget, cache>>

StartThreads(e) ==
    /\ run[e].pc = "plan"
    /\ run[e].unit > Len(Units)
    /\ SetRun(e, [run[e] EXCEPT !.pc = "on"])
    /\ UNCHANGED <<scenario, code, budget, exps, cache, work>>

-----------------------------------------------------------------------------
(* One work unit in its thread.                                            *)

CurrentCase(e, u) == Units[u][work[e][u].turn]
At(e, u, pc) == run[e].pc = "on" /\ work[e][u].pc = pc

Working(e) == {u \in DOMAIN Units : work[e][u].pc \notin {"off", "queued", "done", "raised"}}

TakeUnit(e, u) ==
    /\ At(e, u, "queued")
    /\ Cardinality(Working(e)) < exps[e].manifest.concurrency
    /\ Goto(e, u, "turn")
    /\ UNCHANGED <<scenario, code, budget, exps, cache, run>>

\* Mutant: the session state is not restored into the runtime.
NewRuntime_Empty(state, mode) == [mode |-> mode, memory |-> <<>>]

\* The runtime is built with the session state the turn starts from.
NewRuntime(state, mode) ==
    [mode |-> mode, memory |-> IF state = NoState THEN <<>> ELSE state]

\* A requested-fresh first attempt publishes its stages; its retries read them.
AttemptMode(requested, number) ==
    IF requested = "fresh" /\ number > 1 THEN "cache" ELSE requested

\* The scheduler's note of a case that cannot be completed any more.
Terminate(e, u) ==
    SetRun(e, [run[e] EXCEPT !.terminal = @ \cup {CurrentCase(e, u).id}])

BeginAttempt(e, u) ==
    LET w        == work[e][u]
        attempts == exps[e].dirs[CurrentCase(e, u).id].attempts
        number   == Len(attempts) + 1
        mode     == AttemptMode(run[e].mode, number)
    IN  IF ~HistoryReads(exps[e].dirs[CurrentCase(e, u).id])
        THEN Goto(e, u, "raised") /\ UNCHANGED run
        ELSE IF number > MaxAttempts
        THEN Goto(e, u, "done") /\ Terminate(e, u)
        ELSE /\ SetWork(e, u,
                   [w EXCEPT !.pc = "begun", !.number = number, !.mode = mode,
                             !.runtime = IF @ = NoRuntime THEN NewRuntime(w.state, mode) ELSE @,
                             !.stage = 1, !.vals = <<>>, !.fresh = {}])
             /\ UNCHANGED run

StartTurn(e, u) ==
    /\ At(e, u, "turn")
    /\ IF run[e].stop \/ work[e][u].turn > Len(Units[u])
       THEN Goto(e, u, "done") /\ UNCHANGED run
       ELSE BeginAttempt(e, u)
    /\ UNCHANGED <<scenario, code, budget, exps, cache>>

RetryAttempt(e, u) ==
    /\ At(e, u, "retry")
    /\ BeginAttempt(e, u)
    /\ UNCHANGED <<scenario, code, budget, exps, cache>>

\* A failure of the attempt.  Session state is not moved.
Failure(error, retryable) ==
    [status |-> IF error = "controlled_interrupt" THEN "interrupted" ELSE "failed",
     retryable |-> retryable, error |-> error, after |-> NoState]

Fail(e, u, error, retryable) ==
    SetWork(e, u, [work[e][u] EXCEPT !.pc = "record", !.out = Failure(error, retryable)])

EnterCase(e, u) ==
    /\ At(e, u, "begun")
    /\ IF run[e].stop THEN Fail(e, u, "controlled_interrupt", TRUE)
       ELSE IF work[e][u].runtime.mode # work[e][u].mode
       THEN Fail(e, u, "executor_contract_error", FALSE)
       ELSE Goto(e, u, "stage")
    /\ UNCHANGED <<scenario, code, budget, exps, cache, run>>

-----------------------------------------------------------------------------
(* The stages of a case.                                                   *)

\* Retrieval-only cases stop after retrieval; the judge needs an answer.
StagesOf(manifest) ==
    IF ~manifest.generate THEN <<"query_analysis", "retrieval">>
    ELSE IF ~manifest.judged
    THEN <<"query_analysis", "retrieval", "generation", "verification">>
    ELSE <<"query_analysis", "retrieval", "generation", "verification", "judge">>

Generation == 3   \* the place of the answer among the stage values

StageAt(e, u) == StagesOf(exps[e].manifest)[work[e][u].stage]
Finished(e, u) == work[e][u].stage > Len(StagesOf(exps[e].manifest))

\* What a stage value is filed under: the contract, the question, the values
\* of the stages before and, up to generation, the session state.
StageKey(e, u) ==
    [stage    |-> StageAt(e, u),
     contract |-> StageContract(exps[e].manifest),
     generate |-> exps[e].manifest.generate,
     question |-> CurrentCase(e, u).question,
     memory   |-> IF StageAt(e, u) \in {"verification", "judge"}
                  THEN NoState ELSE work[e][u].runtime.memory,
     vals     |-> work[e][u].vals]

Cached(key) == key \in DOMAIN cache

\* Modes cache and replay read first.
Reads(mode) == mode \in {"cache", "replay"}

Use(e, u, value) ==
    SetWork(e, u, [work[e][u] EXCEPT !.pc = "stage", !.stage = @ + 1,
                                     !.vals = Append(@, value)])

UseFresh(e, u, value) ==
    SetWork(e, u, [work[e][u] EXCEPT !.pc = "stage", !.stage = @ + 1,
                                     !.vals = Append(@, value),
                                     !.fresh = @ \cup {work[e][u].stage}])

\* A corrupt entry ends the case even though the value could be made again.
StageHit(e, u) ==
    LET key == StageKey(e, u) IN
    /\ At(e, u, "stage") /\ ~Finished(e, u)
    /\ Reads(work[e][u].mode) /\ Cached(key)
    /\ IF cache[key].intact THEN Use(e, u, cache[key].value)
       ELSE Fail(e, u, "cache_corruption", FALSE)
    /\ UNCHANGED <<scenario, code, budget, exps, cache, run>>

ReplayMiss(e, u) ==
    /\ At(e, u, "stage") /\ ~Finished(e, u)
    /\ work[e][u].mode = "replay" /\ ~Cached(StageKey(e, u))
    /\ Fail(e, u, "replay_cache_miss", FALSE)
    /\ UNCHANGED <<scenario, code, budget, exps, cache, run>>

Produces(e, u) ==
    /\ At(e, u, "stage") /\ ~Finished(e, u)
    /\ ~Reads(work[e][u].mode) \/ (work[e][u].mode = "cache" /\ ~Cached(StageKey(e, u)))

\* Mutant: an entry that lost the race for the link is overwritten.
WriteImmutable_Overwrites(e, u, value) ==
    LET key == StageKey(e, u) IN
    /\ cache' = [k \in DOMAIN cache \cup {key} |->
                    IF k = key THEN [value |-> value, intact |-> TRUE] ELSE cache[k]]
    /\ UseFresh(e, u, value)

\* The error carries the stage with the cache mode of the attempt as its origin.
\* With origin "cache" and a call of its own the stage is refused by to_dict
\* while the failure is put together, so that no attempt is written and the
\* exception ends the run.
FailPublication(e, u, error) ==
    IF work[e][u].mode = "cache" /\ work[e][u].pc = "publish"
    THEN Goto(e, u, "raised")
    ELSE Fail(e, u, error, FALSE)

\* _write_immutable: the first writer of a key wins; a later one must bring
\* the same value, also when it lost the race for the link.
WriteImmutable(e, u, value) ==
    LET key == StageKey(e, u) IN
    IF ~Cached(key)
    THEN /\ cache' = [k \in DOMAIN cache \cup {key} |->
                         IF k = key THEN [value |-> value, intact |-> TRUE] ELSE cache[k]]
         /\ UseFresh(e, u, value)
    ELSE /\ UNCHANGED cache
         /\ IF ~cache[key].intact THEN FailPublication(e, u, "cache_corruption")
            ELSE IF cache[key].value = value THEN UseFresh(e, u, value)
            ELSE FailPublication(e, u, "cache_conflict")

LocalStage(e, u) ==
    /\ Produces(e, u)
    /\ StageAt(e, u) \notin Providers
    /\ WriteImmutable(e, u, Computed)
    /\ UNCHANGED <<scenario, code, budget, exps, run>>

\* A provider stage goes through the attempt's controls.
RequestCall(e, u) ==
    /\ Produces(e, u)
    /\ StageAt(e, u) \in Providers
    /\ IF exps[e].manifest.external
       THEN Goto(e, u, "call")
       ELSE Fail(e, u, "executor_contract_error", FALSE)
    /\ UNCHANGED <<scenario, code, budget, exps, cache, run>>

KindOf(stage) ==
    CASE stage = "generation" -> "generation"
      [] stage = "judge" -> "judge"
      [] OTHER -> "normalizer"

\* Mutant: a thread that waits for a permit holds one.
InFlight_Waiting(e, kind) ==
    {u \in DOMAIN Units : work[e][u].pc \in {"call", "wait"} /\ KindOf(StageAt(e, u)) = kind}

InFlight(e, kind) ==
    {u \in DOMAIN Units : At(e, u, "wait") /\ KindOf(StageAt(e, u)) = kind}

\* A thread waits for a permit of its kind; a stop asked for before it has one
\* interrupts it, one asked for later does not.
CallStopped(e, u) ==
    /\ At(e, u, "call")
    /\ run[e].stop
    /\ Fail(e, u, "controlled_interrupt", TRUE)
    /\ UNCHANGED <<scenario, code, budget, exps, cache, run>>

Dispatch(e, u) ==
    /\ At(e, u, "call")
    /\ ~run[e].stop
    /\ Cardinality(InFlight(e, KindOf(StageAt(e, u)))) < Permits
    /\ Goto(e, u, "wait")
    /\ UNCHANGED <<scenario, code, budget, exps, cache, run>>

Answer(e, u, answer) ==
    /\ At(e, u, "wait")
    /\ SetWork(e, u, [work[e][u] EXCEPT !.pc = "publish", !.answer = answer])
    /\ UNCHANGED <<scenario, code, budget, exps, cache, run>>

\* The provider fails; a client whose usage disagrees with the attempt's ledger
\* ends the case in the same way, as a failure that is not retryable.
ProviderFails(e, u, retryable) ==
    /\ At(e, u, "wait")
    /\ Spend("failures")
    /\ Fail(e, u, "provider_failure", retryable)
    /\ UNCHANGED <<scenario, code, exps, cache, run>>

PublishStage(e, u) ==
    /\ At(e, u, "publish")
    /\ WriteImmutable(e, u, work[e][u].answer)
    /\ UNCHANGED <<scenario, code, budget, exps, run>>

\* The turn is committed to the session only after its output was scored and
\* decoded; an independent case publishes no state.
StateAfter(e, u) ==
    IF IsSession(Units[u]) THEN Append(work[e][u].runtime.memory, work[e][u].vals[Generation])
    ELSE NoState

SucceedCase(e, u) ==
    /\ At(e, u, "stage")
    /\ Finished(e, u)
    /\ SetWork(e, u, [work[e][u] EXCEPT !.pc = "record",
                        !.out = [status |-> "succeeded", retryable |-> FALSE,
                                 error |-> "none", after |-> StateAfter(e, u)]])
    /\ UNCHANGED <<scenario, code, budget, exps, cache, run>>

-----------------------------------------------------------------------------
(* Recording the attempt and going on.                                     *)

Payload(e, u) ==
    LET w == work[e][u] IN
    AttemptPayload(w.number, w.mode, w.out, w.state, w.runtime.memory, w.vals, w.fresh)

\* After a failure: retry, unless the failure is final or a stop was asked for.
AfterFailure(e, u) ==
    LET w == work[e][u]
        final == ~w.out.retryable \/ w.number >= MaxAttempts
    IN  /\ IF final THEN Terminate(e, u) ELSE UNCHANGED run
        /\ SetWork(e, u, [w EXCEPT !.runtime = NoRuntime,
                             !.pc = IF final \/ run[e].stop THEN "done" ELSE "retry"])

RecordAttempt(e, u) ==
    LET w  == work[e][u]
        id == CurrentCase(e, u).id
    IN  /\ At(e, u, "record")
        /\ IF ~MayWriteAttempt(exps[e].dirs[id], w.number, Payload(e, u))
           THEN Goto(e, u, "raised") /\ UNCHANGED <<exps, run>>
           ELSE /\ SetDir(e, id, WriteAttempt(exps[e].dirs[id], w.number, Payload(e, u)))
                /\ IF w.out.status = "succeeded"
                   THEN Goto(e, u, "mark") /\ UNCHANGED run
                   ELSE AfterFailure(e, u)
        /\ UNCHANGED <<scenario, code, budget, cache>>

\* Mutant: the runtime is kept whatever mode it was built for.
KeptRuntime_AnyMode(e, u) ==
    [work[e][u].runtime EXCEPT !.memory =
        IF work[e][u].out.after = NoState THEN @ ELSE work[e][u].out.after]

\* The runtime serves the next turn if it was built for the requested mode.
KeptRuntime(e, u) ==
    IF work[e][u].mode = run[e].mode
    THEN [work[e][u].runtime EXCEPT !.memory =
            IF work[e][u].out.after = NoState THEN @ ELSE work[e][u].out.after]
    ELSE NoRuntime

MarkCase(e, u) ==
    LET w  == work[e][u]
        id == CurrentCase(e, u).id
    IN  /\ At(e, u, "mark")
        /\ IF ~MayMarkComplete(exps[e].dirs[id], w.number)
           THEN Goto(e, u, "raised") /\ UNCHANGED <<exps, run>>
           ELSE /\ SetDir(e, id, MarkComplete(exps[e].dirs[id], w.number))
                /\ SetWork(e, u, [w EXCEPT !.pc = "turn", !.turn = @ + 1,
                                     !.state = w.out.after, !.runtime = KeptRuntime(e, u)])
                /\ SetRun(e, [run[e] EXCEPT !.completed = @ + 1,
                                !.stop = @ \/ (run[e].after > 0
                                               /\ run[e].completed + 1 >= run[e].after)])
        /\ UNCHANGED <<scenario, code, budget, cache>>

-----------------------------------------------------------------------------
(* The end of a run.                                                       *)

\* Mutant: the failures the threads met are not taken into account.
Summary_NoTerminal(e) ==
    LET dirs == exps[e].dirs
        category == [id \in DOMAIN dirs |-> Category(dirs[id])]
    IN  IF ScanIsCorrupt(dirs) THEN "blocked"
        ELSE IF \A id \in DOMAIN dirs : category[id] = "succeeded" THEN "succeeded"
        ELSE IF run[e].stop THEN "interrupted"
        ELSE IF \E id \in DOMAIN dirs : category[id] = "exhausted"
        THEN "completed_with_failures"
        ELSE "partial"

Summary(e) ==
    LET dirs == exps[e].dirs
        category == [id \in DOMAIN dirs |-> Category(dirs[id])]
    IN  IF ScanIsCorrupt(dirs) THEN "blocked"
        ELSE IF \A id \in DOMAIN dirs : category[id] = "succeeded" THEN "succeeded"
        ELSE IF run[e].stop THEN "interrupted"
        ELSE IF run[e].terminal # {} \/ \E id \in DOMAIN dirs : category[id] = "exhausted"
        THEN "completed_with_failures"
        ELSE "partial"

\* The pool is joined before an exception of one of its threads leaves run().
FinishRun(e) ==
    /\ run[e].pc = "on"
    /\ \A u \in DOMAIN Units : work[e][u].pc \in {"off", "done", "raised"}
    /\ SetRun(e, [run[e] EXCEPT !.pc = "off",
                    !.result = IF \E u \in DOMAIN Units : work[e][u].pc = "raised"
                               THEN "raised" ELSE Summary(e)])
    /\ StopWork(e)
    /\ UNCHANGED <<scenario, code, budget, exps, cache>>

-----------------------------------------------------------------------------
(* The environment: a stop request, the death of a process, damage to a    *)
(* file, another checkout.                                                 *)

RequestStop(e) ==
    /\ run[e].pc # "off" /\ ~run[e].stop
    /\ Spend("stops")
    /\ SetRun(e, [run[e] EXCEPT !.stop = TRUE])
    /\ UNCHANGED <<scenario, code, exps, cache, work>>

Crash(e) ==
    /\ run[e].pc # "off"
    /\ Spend("crashes")
    /\ SetRun(e, [IdleRun EXCEPT !.result = "crashed"])
    /\ StopWork(e)
    /\ UNCHANGED <<scenario, code, exps, cache>>

DamageCache(key) ==
    /\ cache[key].intact
    /\ Spend("damages")
    /\ cache' = [cache EXCEPT ![key].intact = FALSE]
    /\ UNCHANGED <<scenario, code, exps, run, work>>

DamageAttempt(e, id, number) ==
    /\ exps[e].dirs[id].attempts[number].intact
    /\ Spend("damages")
    /\ SetDir(e, id, [exps[e].dirs[id] EXCEPT !.attempts[number].intact = FALSE])
    /\ UNCHANGED <<scenario, code, cache, run, work>>

DamageMarker(e, id) ==
    /\ exps[e].dirs[id].marker # NoMarker
    /\ exps[e].dirs[id].marker.intact
    /\ Spend("damages")
    /\ SetDir(e, id, [exps[e].dirs[id] EXCEPT !.marker.intact = FALSE])
    /\ UNCHANGED <<scenario, code, cache, run, work>>

StrayFile(e, id) ==
    /\ ~exps[e].dirs[id].junk
    /\ Spend("damages")
    /\ SetDir(e, id, [exps[e].dirs[id] EXCEPT !.junk = TRUE])
    /\ UNCHANGED <<scenario, code, cache, run, work>>

Upgrade(c) ==
    /\ c # code
    /\ Spend("upgrades")
    /\ code' = c
    /\ UNCHANGED <<scenario, exps, cache, run, work>>

-----------------------------------------------------------------------------

Lifecycle ==
    \/ \E e \in Experiments, mode \in CacheModes, after \in scenario.stopAfter :
          \/ RunExperiment(e, mode, after) \/ ResumeExperiment(e, mode, after)
          \/ RunWithProviders(e, mode, after) \/ ResumeWithProviders(e, mode, after)
    \/ \E source, e \in Experiments :
          ReplayExperiment(source, e) \/ ReplayWithProviders(source, e)

Preparation(e) == ScanDirectory(e) \/ PrepareUnit(e) \/ StartThreads(e)

UnitStep(e, u) ==
    \/ TakeUnit(e, u) \/ StartTurn(e, u) \/ RetryAttempt(e, u) \/ EnterCase(e, u)
    \/ StageHit(e, u) \/ ReplayMiss(e, u) \/ LocalStage(e, u) \/ RequestCall(e, u)
    \/ CallStopped(e, u) \/ Dispatch(e, u)
    \/ \E answer \in Answers : Answer(e, u, answer)
    \/ \E retryable \in BOOLEAN : ProviderFails(e, u, retryable)
    \/ PublishStage(e, u) \/ SucceedCase(e, u) \/ RecordAttempt(e, u) \/ MarkCase(e, u)

RunnerStep(e) ==
    Preparation(e) \/ (\E u \in DOMAIN Units : UnitStep(e, u)) \/ FinishRun(e)

Environment ==
    \/ \E e \in Experiments : RequestStop(e) \/ Crash(e)
    \/ \E key \in DOMAIN cache : DamageCache(key)
    \/ \E e \in Existing : \E id \in DOMAIN exps[e].dirs :
          \/ DamageMarker(e, id) \/ StrayFile(e, id)
          \/ \E number \in DOMAIN exps[e].dirs[id].attempts : DamageAttempt(e, id, number)
    \/ \E c \in Codes : Upgrade(c)

Next == Lifecycle \/ (\E e \in Experiments : RunnerStep(e)) \/ Environment

-----------------------------------------------------------------------------
(* Properties.                                                             *)

RunPhases == {"off", "start", "plan", "on"}
WorkerPhases == {"off", "queued", "turn", "begun", "stage", "call", "wait", "publish",
                 "record", "mark", "retry", "done", "raised"}
Results == {"none", "crashed", "blocked", "refused", "raised", "succeeded", "interrupted",
            "completed_with_failures", "partial"}

ExperimentFiles ==
    [manifest : [dataset : {scenario.dataset}, generate : {scenario.generate},
                 judged : {scenario.judged}, external : BOOLEAN, code : Codes,
                 concurrency : {scenario.concurrency}, default : CacheModes],
     dirs : [CaseIds(scenario.dataset) -> CaseDir]]

RunnerRow ==
    [pc : RunPhases, mode : CacheModes, stop : BOOLEAN, after : Nat, completed : Nat,
     terminal : SUBSET CaseIds(scenario.dataset), unit : Nat, result : Results]

Outcome ==
    [status : AttemptStatuses \cup {"none"}, retryable : BOOLEAN, error : Errors, after : State]

WorkerRow ==
    [pc : WorkerPhases, turn : Nat, state : State, runtime : Runtime \cup {NoRuntime},
     number : Nat, mode : CacheModes, stage : Nat, vals : Seq(Values),
     fresh : SUBSET Nat, answer : Values,
     out : Outcome]

\* Types of what is kept between steps, and the runner and its threads are in
\* phases that go together.
RunnerTypeOK ==
    /\ scenario \in Scenarios /\ code \in Codes
    /\ budget \in [DOMAIN scenario.budget -> Nat]
    /\ Existing \subseteq Experiments /\ exps \in [Existing -> ExperimentFiles]
    /\ cache \in [DOMAIN cache -> [value : Values, intact : BOOLEAN]]
    /\ run \in [Experiments -> RunnerRow]
    /\ work \in [Experiments -> [DOMAIN Units -> WorkerRow]]
    /\ \A e \in Experiments :
          /\ run[e].pc # "off" => e \in Existing
          /\ \A u \in DOMAIN Units :
                /\ work[e][u].pc # "off" => run[e].pc \in {"plan", "on"}
                /\ work[e][u].pc \notin {"off", "queued"} => run[e].pc = "on"

Undamaged == budget.damages = scenario.budget.damages

\* An exact cache key has one value for ever: two successful attempts that
\* asked the same question from the same session state under one contract
\* used the same stage values, in whatever modes, experiments and order they
\* ran, through races, crashes and damage (README, "exact cache hits").
ExactReuse ==
    \A e, f \in Existing :
        exps[e].manifest.code = exps[f].manifest.code =>
            \A u, v \in DOMAIN Units : \A i \in DOMAIN Units[u], j \in DOMAIN Units[v] :
                Units[u][i].question = Units[v][j].question =>
                    LET a == exps[e].dirs[Units[u][i].id].attempts
                        b == exps[f].dirs[Units[v][j].id].attempts
                    IN  \A k \in Succeeded(a), l \in Succeeded(b) :
                            a[k].asked = b[l].asked => a[k].vals = b[l].vals

\* A session is one conversation whatever interrupts it: every attempt of a
\* turn was made from the state the turn before it left, which was marked
\* complete by then, and only the answer of a success is added to it.
SessionChain ==
    Undamaged =>
        \A e \in Existing : \A u \in DOMAIN Units : \A i \in DOMAIN Units[u] :
            LET unit     == Units[u]
                dirs     == exps[e].dirs
                before   == StateBefore(unit, Histories(dirs), i)
                attempts == dirs[unit[i].id].attempts
            IN  attempts # <<>> /\ IsSession(unit) =>
                    /\ i > 1 => dirs[unit[i - 1].id].marker # NoMarker
                    /\ \A k \in DOMAIN attempts :
                          /\ attempts[k].asked = before
                          /\ attempts[k].status = "succeeded" =>
                                attempts[k].after = Append(before, attempts[k].vals[Generation])

\* The call was made in mode "cache" and another thread filed another answer.
LostRace(e, u) ==
    /\ work[e][u].mode = "cache"
    /\ StageAt(e, u) \in Providers
    /\ Cached(StageKey(e, u))
    /\ cache[StageKey(e, u)].value # work[e][u].answer

\* The runner accepts everything it can have written itself: without damage no
\* run is blocked or refused, no case fails for a disagreement of the runner
\* with its own runtime, and the one exception a thread can end with is that
\* of a lost race for a stage of mode "cache".  One thread alone meets none.
AcceptsItsOwnHistory ==
    /\ RunnerTypeOK
    /\ \A e \in Experiments : run[e].result # "partial"
    /\ \A e \in Existing : \A id \in DOMAIN exps[e].dirs :
          Len(exps[e].dirs[id].attempts) <= MaxAttempts
    /\ Undamaged =>
        \A e \in Experiments :
            /\ run[e].result \notin {"blocked", "refused"}
            /\ scenario.serial /\ scenario.concurrency = 1 => run[e].result # "raised"
            /\ \A u \in DOMAIN Units : work[e][u].pc = "raised" => LostRace(e, u)
            /\ e \in Existing /\ exps[e].manifest.external =>
                  \A id \in DOMAIN exps[e].dirs : \A k \in DOMAIN exps[e].dirs[id].attempts :
                      exps[e].dirs[id].attempts[k].error # "executor_contract_error"

\* What a run reports is what the directories say: success means every case is
\* complete, and a run that was not stopped and is not successful names a case
\* that no resume can complete, so that nothing is left undone silently.
SummaryIsTrue ==
    \A e \in Existing :
        run[e].pc = "off" /\ Undamaged =>
            LET dirs == exps[e].dirs IN
            /\ run[e].result = "succeeded" <=>
                  /\ run[e].result \notin {"none", "crashed"}
                  /\ \A id \in DOMAIN dirs : CompletedReads(dirs[id])
            /\ run[e].result = "completed_with_failures" =>
                  \E id \in DOMAIN dirs : Succeeded(dirs[id].attempts) = {}
                                          /\ CannotGoOn(dirs[id].attempts)
            /\ run[e].result # "partial"

\* Every run ends, however its threads wait for permits, fail and retry.
RunsEnd == \A e \in Experiments : run[e].pc # "off" ~> run[e].pc = "off"

=============================================================================
