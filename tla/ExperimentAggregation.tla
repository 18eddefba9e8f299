------------------------- MODULE ExperimentAggregation -------------------------
(***************************************************************************)
(* Aggregating an M2 experiment (experiment_aggregation.py, and the        *)
(* publication in experiment_lifecycle.py) next to the processes that may  *)
(* still write it.  aggregate_experiment reads the case directories in     *)
(* four passes, one directory after the other and without a lock: the      *)
(* inventory, the physical evidence, the histories and, for cases that     *)
(* look complete, the completion proofs.  Whatever a runner does between   *)
(* two reads, a bundle must not claim more than the directories hold.      *)
(*                                                                         *)
(* Left out: scores, call ledgers, usage and timings, which are functions  *)
(* of the trusted attempts, and the text of the published files.           *)
(***************************************************************************)
EXTENDS ExperimentRunner

VARIABLES
    agg,         \* the aggregating process
    published    \* published aggregations: case rows -> names of files present

aggVars == <<agg, published>>
allVars == <<runnerVars, aggVars>>

Unread == None

Files == <<"summary.json", "cases.jsonl", "cases.csv", "report.md", "complete.json">>

IdleAgg == [pc |-> "off", e |-> Unread, i |-> 1, quiet |-> TRUE,
            store |-> <<>>, evidence |-> <<>>, raw |-> <<>>, proof |-> <<>>,
            bundle |-> Unread, result |-> "none"]

AggInit == Init /\ agg = IdleAgg /\ published = <<>>

-----------------------------------------------------------------------------
(* What is computed from the four readings: store, evidence, raw and proof  *)
(* are functions of the case's place in the dataset.                        *)

Place(id) == CHOOSE i \in DOMAIN scenario.dataset : scenario.dataset[i].id = id

\* The turns of a unit in front of the first unreadable history.
ReadablePrefix(unit, raw) ==
    CHOOSE n \in 0 .. Len(unit) :
        /\ \A i \in 1 .. n : raw[Place(unit[i].id)] # Unread
        /\ n < Len(unit) => raw[Place(unit[n + 1].id)] = Unread

\* The longest prefix that is valid and cannot depend on corruption.
TrustPrefix(unit, raw) ==
    LET histories == [id \in {unit[i].id : i \in 1 .. ReadablePrefix(unit, raw)} |->
                         raw[Place(id)]]
    IN  CHOOSE n \in 0 .. ReadablePrefix(unit, raw) :
            /\ UnitHistoryValid(SubSeq(unit, 1, n), histories)
            /\ n < ReadablePrefix(unit, raw) =>
                  ~UnitHistoryValid(SubSeq(unit, 1, n + 1), histories)

PublicStatus(category) == IF category = "missing" THEN "pending" ELSE category

\* Mutant: a success without its completion marker counts as succeeded.
OwnStatus_Unmarked(i, view) ==
    LET attempts == view.raw[i]
        latest   == attempts[Len(attempts)]
    IN  CASE attempts = Unread -> "corrupt"
          [] attempts = <<>> -> PublicStatus(view.store[i])
          [] attempts # <<>> /\ latest.status # "succeeded" ->
                IF view.store[i] \in {"failed", "interrupted", "exhausted"}
                THEN view.store[i] ELSE "corrupt"
          [] OTHER -> "succeeded"

\* The status of one case before it is compared with the turns around it.
OwnStatus(i, view) ==
    LET attempts == view.raw[i]
        latest   == attempts[Len(attempts)]
    IN  CASE attempts = Unread -> "corrupt"
          [] attempts = <<>> -> PublicStatus(view.store[i])
          [] attempts # <<>> /\ latest.status # "succeeded" ->
                IF view.store[i] \in {"failed", "interrupted", "exhausted"}
                THEN view.store[i] ELSE "corrupt"
          [] OTHER ->
                IF view.store[i] = "missing" THEN "pending"
                ELSE IF view.store[i] = "succeeded" /\ view.proof[i] = latest
                THEN "succeeded" ELSE "corrupt"

HasAttempts(i, view) == view.raw[i] # Unread /\ view.raw[i] # <<>>

\* A turn that has attempts is corrupt when an earlier one is, or when it lies
\* behind the trusted prefix of its unit.
RowStatus(unit, k, view) ==
    LET i == Place(unit[k].id) IN
    IF /\ HasAttempts(i, view)
       /\ \/ k > TrustPrefix(unit, view.raw)
          \/ \E j \in 1 .. k - 1 : OwnStatus(Place(unit[j].id), view) = "corrupt"
    THEN "corrupt"
    ELSE OwnStatus(i, view)

TrustedAttempts(unit, k, view) ==
    IF k <= TrustPrefix(unit, view.raw) THEN view.raw[Place(unit[k].id)] ELSE <<>>

\* One row of the bundle.  `count' is the logical number of attempts; where no
\* history could be read it is the number of files.
Row(unit, k, view) ==
    LET i == Place(unit[k].id) IN
    [id       |-> unit[k].id,
     store    |-> view.store[i],
     files    |-> view.evidence[i].count,
     marker   |-> view.evidence[i].marker # NoMarker,
     readable |-> view.raw[i] # Unread,
     count    |-> IF view.raw[i] = Unread THEN view.evidence[i].count ELSE Len(view.raw[i]),
     status   |-> RowStatus(unit, k, view),
     attempts |-> TrustedAttempts(unit, k, view)]

UnitOf(id) == CHOOSE u \in DOMAIN Units : \E k \in DOMAIN Units[u] : Units[u][k].id = id
TurnOf(id) == CHOOSE k \in DOMAIN Units[UnitOf(id)] : Units[UnitOf(id)][k].id = id

Rows(view) ==
    [i \in DOMAIN scenario.dataset |->
        LET id == scenario.dataset[i].id IN Row(Units[UnitOf(id)], TurnOf(id), view)]

\* The audit counts every file that is there, and every attempt as trusted or
\* untrusted.
Audit(rows) ==
    [persisted |-> SumFunction([i \in DOMAIN rows |-> rows[i].files]),
     trusted   |-> SumFunction([i \in DOMAIN rows |-> Len(rows[i].attempts)]),
     untrusted |-> SumFunction([i \in DOMAIN rows |->
                      IF rows[i].readable THEN rows[i].count - Len(rows[i].attempts)
                      ELSE rows[i].files])]

\* Mutant: a success whose completion marker is missing does not hold a bundle back.
BundleStatus_PendingIsDone(rows) ==
    IF \E i \in DOMAIN rows : rows[i].status = "corrupt" THEN "corrupt"
    ELSE IF \A i \in DOMAIN rows : rows[i].status \in {"succeeded", "pending"} THEN "complete"
    ELSE "partial"

BundleStatus(rows) ==
    IF \E i \in DOMAIN rows : rows[i].status = "corrupt" THEN "corrupt"
    ELSE IF \A i \in DOMAIN rows : rows[i].status = "succeeded" THEN "complete"
    ELSE "partial"

Bundle(view) ==
    [rows |-> Rows(view), audit |-> Audit(Rows(view)), status |-> BundleStatus(Rows(view))]

\* validate_aggregation_bundle: the attempts of a row agree with its files...
CountsAgree(row) ==
    /\ row.count = row.files
    /\ Len(row.attempts) <= row.count

\* ... its status with the inventory and with its attempts...
StatusAgrees(row) ==
    /\ row.status = "succeeded" =>
          /\ row.store = "succeeded" /\ row.marker
          /\ row.attempts # <<>> /\ row.attempts[Len(row.attempts)].status = "succeeded"
    /\ row.status = "pending" =>
          /\ row.store = "missing"
          /\ row.attempts # <<>> /\ row.attempts[Len(row.attempts)].status = "succeeded"
    /\ row.status = "not_run" => row.count = 0 /\ row.attempts = <<>>
    /\ row.status \in {"failed", "interrupted", "exhausted", "not_run"} =>
          row.store = row.status

\* ... and the totals agree with the rows.
BundleIsCoherent(bundle) ==
    /\ \A i \in DOMAIN bundle.rows : CountsAgree(bundle.rows[i]) /\ StatusAgrees(bundle.rows[i])
    /\ bundle.audit.persisted =
          SumFunction([i \in DOMAIN bundle.rows |-> bundle.rows[i].count])
    /\ bundle.audit.trusted + bundle.audit.untrusted = bundle.audit.persisted
    /\ bundle.status = BundleStatus(bundle.rows)

-----------------------------------------------------------------------------
(* The reading passes.                                                     *)

StartAggregation(e) ==
    /\ agg.pc = "off" /\ Alone
    /\ e \in Existing
    /\ Spend("aggregates")
    /\ agg' = [IdleAgg EXCEPT !.pc = "scan", !.e = e]
    /\ UNCHANGED <<scenario, code, exps, cache, run, work, published>>

DirAt(i) == exps[agg.e].dirs[scenario.dataset[i].id]
Left == agg.i <= Len(scenario.dataset)

\* One directory is read and the pass goes on to the next.
ReadInto(field, pass, value) ==
    /\ agg.pc = pass
    /\ Left
    /\ agg' = [agg EXCEPT ![field] = Append(@, value), !.i = @ + 1]
    /\ UNCHANGED <<runnerVars, published>>

ScanCase == ReadInto("store", "scan", Category(DirAt(agg.i)))

EvidenceCase == ReadInto("evidence", "evidence", Evidence(DirAt(agg.i)))

\* A case that was not run when it was scanned is not looked at again.
LoadCase ==
    ReadInto("raw", "load",
             IF agg.store[agg.i] = "not_run" THEN <<>>
             ELSE IF HistoryReads(DirAt(agg.i)) THEN DirAt(agg.i).attempts
             ELSE Unread)

ProveCase ==
    ReadInto("proof", "prove",
             IF agg.store[agg.i] = "succeeded" /\ CompletedReads(DirAt(agg.i))
             THEN DirAt(agg.i).attempts[DirAt(agg.i).marker.number]
             ELSE Unread)

PassAfter ==
    [scan |-> "evidence", evidence |-> "load", load |-> "prove", prove |-> "bundle"]

NextPass ==
    /\ agg.pc \in DOMAIN PassAfter
    /\ ~Left
    /\ agg' = [agg EXCEPT !.pc = PassAfter[agg.pc], !.i = 1]
    /\ UNCHANGED <<runnerVars, published>>

\* A bundle that disagrees with itself is refused and nothing is published.
MakeBundle ==
    LET bundle == Bundle(agg) IN
    /\ agg.pc = "bundle"
    /\ agg' = IF BundleIsCoherent(bundle)
              THEN [agg EXCEPT !.pc = "publish", !.bundle = bundle]
              ELSE [agg EXCEPT !.pc = "off", !.result = "contract_error"]
    /\ UNCHANGED <<runnerVars, published>>

-----------------------------------------------------------------------------
(* Publication under the key of the case rows: four files, then the marker. *)

Present(key) == IF key \in DOMAIN published THEN published[key] ELSE {}

PublishFile ==
    LET key == agg.bundle.rows IN
    /\ agg.pc = "publish"
    /\ "complete.json" \notin Present(key)
    /\ agg.i <= Len(Files)
    /\ published' = [k \in DOMAIN published \cup {key} |->
                        IF k = key THEN Present(key) \cup {Files[agg.i]} ELSE published[k]]
    /\ agg' = [agg EXCEPT !.i = @ + 1]
    /\ UNCHANGED runnerVars

\* Files found complete are compared and left alone.
Published ==
    /\ agg.pc = "publish"
    /\ "complete.json" \in Present(agg.bundle.rows)
    /\ agg' = [agg EXCEPT !.pc = "off", !.result = "published"]
    /\ UNCHANGED <<runnerVars, published>>

AggCrash ==
    /\ agg.pc # "off"
    /\ Spend("aggCrashes")
    /\ agg' = IdleAgg
    /\ UNCHANGED <<scenario, code, exps, cache, run, work, published>>

AggregatorStep ==
    \/ \E e \in Experiments : StartAggregation(e)
    \/ ScanCase \/ EvidenceCase \/ LoadCase \/ ProveCase \/ NextPass
    \/ MakeBundle \/ PublishFile \/ Published \/ AggCrash

\* `quiet' remembers whether a directory changed since the aggregation began;
\* it serves the properties only.
Beside ==
    /\ agg' = IF agg # IdleAgg /\ exps' # exps THEN [agg EXCEPT !.quiet = FALSE] ELSE agg
    /\ UNCHANGED published

AggNext == AggregatorStep \/ (Next /\ Beside)

\* Every thread of a live runner goes on and every provider call returns, by
\* its request timeout; nobody is obliged to launch, resume, stop or aggregate.
AggSpec ==
    /\ AggInit /\ [][AggNext]_allVars
    /\ \A e \in Experiments : WF_allVars(RunnerStep(e) /\ Beside)

-----------------------------------------------------------------------------
(* Properties.                                                             *)

\* While nobody writes, aggregation never fails, and it calls a case corrupt
\* exactly when its files, or those of an earlier turn it builds on, are
\* damaged; every other case keeps the category of the inventory.
QuietBundlesAreExact ==
    agg.quiet =>
        /\ agg.result # "contract_error"
        /\ agg.bundle # Unread =>
              \A u \in DOMAIN Units : \A k \in DOMAIN Units[u] :
                  LET dirs     == exps[agg.e].dirs
                      category == Category(dirs[Units[u][k].id])
                      status   == agg.bundle.rows[Place(Units[u][k].id)].status
                      tainted  == \E j \in 1 .. k - 1 :
                                     Category(dirs[Units[u][j].id]) = "corrupt"
                  IN  status = IF category # "not_run" /\ tainted THEN "corrupt"
                               ELSE PublicStatus(category)

\* A bundle claims nothing the directories do not hold, although they were
\* read one after the other while runners went on: a case it reports as
\* succeeded, pending or exhausted is so, with the attempts the row names, and
\* a bundle called complete covers an experiment that is. An aggregation that is
\* marked complete has all its files, also when its publisher died half-way and
\* another finished the work.
RowIsTrue(row, dir) ==
    /\ row.status = "succeeded" => CompletedReads(dir) /\ dir.attempts = row.attempts
    /\ row.status = "pending" => Succeeded(dir.attempts) # {}
    /\ row.status = "exhausted" =>
          Succeeded(dir.attempts) = {} /\ Len(dir.attempts) = MaxAttempts
    /\ agg.bundle.status = "complete" => CompletedReads(dir)

BundlesAreTrue ==
    /\ QuietBundlesAreExact
    /\ agg.bundle # Unread /\ Undamaged =>
          \A i \in DOMAIN agg.bundle.rows :
              LET row == agg.bundle.rows[i] IN RowIsTrue(row, exps[agg.e].dirs[row.id])
    /\ \A key \in DOMAIN published :
          "complete.json" \in published[key] => published[key] = ToSet(Files)

\* What the runner and the aggregation report: the summary of every run and
\* every bundle say what the directories hold.
ReportsAreTrue == SummaryIsTrue /\ BundlesAreTrue

=============================================================================
