--------------------------- MODULE ExperimentStore ---------------------------
(***************************************************************************)
(* What an M2 experiment keeps on disk and how it is read back: the        *)
(* manifest, one directory per case with numbered attempt files and a      *)
(* completion marker, and the runner's own validation of a case's and of a *)
(* session's history (experiment_store.py, the validators of               *)
(* experiment_runner.py and the manifest half of experiment_runtime.py).   *)
(* The module has no variables: the runner and the aggregator read the     *)
(* same directories through these operators.                               *)
(*                                                                         *)
(* Abstraction: a case directory is a record; an attempt file keeps the    *)
(* fields its readers compare and a flag that says whether its bytes still *)
(* match their checksum.  Session state is the sequence of answers given.  *)
(***************************************************************************)
EXTENDS Integers, Sequences, FiniteSets, SequencesExt

CONSTANTS
    Cases,        \* case ids
    Questions,    \* questions; two cases may ask the same one
    Answers,      \* what a provider may answer
    Codes,        \* repository identities: commit, diff and stage fingerprints
    MaxRetries,   \* manifest runtime.max_retries
    None          \* absent: no group, no state, no marker, no file

ASSUME ExperimentAssumption ==
    /\ MaxRetries \in Nat
    /\ Answers # {}

CacheModes == {"fresh", "cache", "replay"}
AttemptStatuses == {"succeeded", "failed", "interrupted"}
Errors == {"none", "controlled_interrupt", "executor_contract_error", "replay_cache_miss",
           "cache_corruption", "cache_conflict", "provider_failure"}

NoGroup  == None   \* session_group is None
NoState  == None   \* session state of a unit that has none
NoMarker == None
NoFile   == None

MaxAttempts == 1 + MaxRetries

\* Stage values: what a provider answers, or what a stage that calls no
\* provider makes of its key.
Computed == "computed"
Values == Answers \cup {Computed}

\* Session state: the answers given so far.
State == Seq(Values) \cup {NoState}

\* What the files of a case directory hold.
AttemptFile ==
    [number : Nat, mode : CacheModes, status : AttemptStatuses, retryable : BOOLEAN,
     error : Errors, before : State, after : State, asked : Seq(Values),
     vals : Seq(Values), fresh : SUBSET Nat, intact : BOOLEAN]
MarkerFile == [number : Nat, bound : AttemptFile, intact : BOOLEAN]
CaseDir ==
    [attempts : Seq(AttemptFile), marker : MarkerFile \cup {NoMarker}, junk : BOOLEAN]

ASSUME NothingIsNoFile == None \notin Seq(Values) \cup AttemptFile \cup MarkerFile

-----------------------------------------------------------------------------
(* The manifest.                                                           *)

\* A dataset is a sequence of cases: [id, question, group].  The manifest
\* fixes it together with the code identity, the execution policy and the
\* runtime limits; the default cache mode is recorded but is not part of the
\* identity a resume is compared with.
Manifest(dataset, generate, judged, external, code, concurrency, default) ==
    [dataset     |-> dataset,
     generate    |-> generate,
     judged      |-> judged,
     external    |-> external,
     code        |-> code,
     concurrency |-> concurrency,
     default     |-> default]

\* The fingerprint of a stage is computed from the code and the contracts, so
\* every entry of the stage cache belongs to one code identity.
StageContract(manifest) == manifest.code

\* The execution policy: a registered mode decides whether generation runs and
\* whether a provider may be called; a replay manifest may call nobody, and
\* sessions exist only where answers are generated.
PolicyAllows(manifest) ==
    /\ manifest.default = "replay" => ~manifest.external
    /\ manifest.external \/ manifest.judged => manifest.generate
    /\ ~manifest.generate =>
          \A i \in DOMAIN manifest.dataset : manifest.dataset[i].group = NoGroup

\* Everything that can alter an output must be equal before a resume looks at
\* a single case; the default cache mode may differ.
Compatible(existing, requested) ==
    [existing EXCEPT !.default = "fresh"] = [requested EXCEPT !.default = "fresh"]

-----------------------------------------------------------------------------
(* Work units: a session is a contiguous run of cases of one group.        *)

StartsUnit(dataset, i) ==
    \/ i = 1
    \/ dataset[i].group = NoGroup
    \/ dataset[i].group # dataset[i - 1].group

\* Groups that come back after another group has started are refused.
ContiguousGroups(dataset) ==
    \A i, j \in DOMAIN dataset :
        /\ i < j
        /\ dataset[i].group # NoGroup
        /\ dataset[i].group = dataset[j].group
        => \A k \in i .. j : dataset[k].group = dataset[i].group

UnitEnd(dataset, i) ==
    CHOOSE j \in i .. Len(dataset) :
        /\ \A k \in i + 1 .. j : ~StartsUnit(dataset, k)
        /\ j = Len(dataset) \/ StartsUnit(dataset, j + 1)

\* The place where the u-th unit starts.
UnitStart(starts, u) == CHOOSE i \in starts : Cardinality({j \in starts : j <= i}) = u

WorkUnits(dataset) ==
    LET starts == {i \in DOMAIN dataset : StartsUnit(dataset, i)}
    IN  [u \in 1 .. Cardinality(starts) |->
            SubSeq(dataset, UnitStart(starts, u), UnitEnd(dataset, UnitStart(starts, u)))]

IsSession(unit) == unit[1].group # NoGroup

InitialState(unit) == IF IsSession(unit) THEN <<>> ELSE NoState

-----------------------------------------------------------------------------
(* Case directories.                                                       *)

\* attempts: the attempt files present, by number; marker: the completion
\* proof; junk: a file that does not belong there.
EmptyDir == [attempts |-> <<>>, marker |-> NoMarker, junk |-> FALSE]

NumberedFrom1(attempts) == DOMAIN attempts = 1 .. Cardinality(DOMAIN attempts)

\* One attempt file.  `asked' is the session state that entered the stage keys
\* of this execution and `vals' the stage values it used; `before' and `after'
\* are the session checkpoint.
AttemptPayload(number, mode, out, before, asked, vals, fresh) ==
    [number |-> number, mode |-> mode,
     status |-> out.status, retryable |-> out.retryable, error |-> out.error,
     before |-> before, after |-> out.after, asked |-> asked, vals |-> vals,
     fresh |-> fresh, intact |-> TRUE]

\* The envelope's checksum and the identity fields bind a file to its case and
\* its number.
AttemptReads(attempt, number) ==
    /\ attempt.intact
    /\ attempt.number = number
    /\ attempt.status \in AttemptStatuses
    /\ attempt.mode \in CacheModes

Succeeded(attempts) == {k \in DOMAIN attempts : attempts[k].status = "succeeded"}

\* The whole history of a case reads back, or none of it does.
HistoryReads(dir) ==
    /\ ~dir.junk
    /\ \A k \in DOMAIN dir.attempts : AttemptReads(dir.attempts[k], k)
    /\ NumberedFrom1(dir.attempts)
    /\ Cardinality(DOMAIN dir.attempts) <= MaxAttempts
    /\ Succeeded(dir.attempts) \subseteq {Cardinality(DOMAIN dir.attempts)}

LatestAttempt(attempts) == attempts[Cardinality(DOMAIN attempts)]

MarkerFor(attempts, number) ==
    [number |-> number, bound |-> attempts[number], intact |-> TRUE]

MarkerReads(marker) == marker.intact

\* load_completed: the marker, the history and the attempt it names agree.
CompletedReads(dir) ==
    /\ dir.marker # NoMarker
    /\ MarkerReads(dir.marker)
    /\ HistoryReads(dir)
    /\ dir.marker.number \in DOMAIN dir.attempts
    /\ dir.marker.bound = dir.attempts[dir.marker.number]
    /\ dir.attempts[dir.marker.number].status = "succeeded"

\* scan: the category of one case.
Category(dir) ==
    CASE dir.marker # NoMarker -> IF CompletedReads(dir) THEN "succeeded" ELSE "corrupt"
      [] dir.marker = NoMarker /\ ~HistoryReads(dir) -> "corrupt"
      [] OTHER ->
            CASE DOMAIN dir.attempts = {} -> "not_run"
              [] Succeeded(dir.attempts) # {} -> "missing"
              [] OTHER -> IF Cardinality(DOMAIN dir.attempts) >= MaxAttempts
                          THEN "exhausted"
                          ELSE LatestAttempt(dir.attempts).status

\* The physical files of a directory, readable or not: what the aggregate
\* binds itself to.
Evidence(dir) ==
    [files |-> dir.attempts, count |-> Cardinality(DOMAIN dir.attempts),
     marker |-> dir.marker, junk |-> dir.junk]

-----------------------------------------------------------------------------
(* Writing: a path is created once, by a hard link of a synced temporary   *)
(* file; whoever finds it taken accepts equal content and refuses any      *)
(* other.                                                                  *)

ImmutableWrite(existing, value) ==
    IF existing = NoFile THEN "created"
    ELSE IF existing = value THEN "accepted" ELSE "conflict"

ExistingAttempt(dir, number) ==
    IF number \in DOMAIN dir.attempts THEN dir.attempts[number] ELSE NoFile

\* write_attempt: refused on a complete case, on an unreadable history, on a
\* number that is not the next one, and after a success.
MayWriteAttempt(dir, number, attempt) ==
    /\ number <= MaxAttempts
    /\ dir.marker = NoMarker
    /\ HistoryReads(dir)
    /\ number \notin DOMAIN dir.attempts =>
          /\ number = Cardinality(DOMAIN dir.attempts) + 1
          /\ Succeeded(dir.attempts) = {}
    /\ ImmutableWrite(ExistingAttempt(dir, number), attempt) # "conflict"

WriteAttempt(dir, number, attempt) ==
    [dir EXCEPT !.attempts =
        [k \in DOMAIN dir.attempts \cup {number} |->
            IF k = number THEN attempt ELSE dir.attempts[k]]]

\* mark_complete: only the latest attempt, only if it succeeded; a second call
\* for the same attempt is accepted.
MayMarkComplete(dir, number) ==
    IF dir.marker # NoMarker
    THEN dir.marker.number = number /\ CompletedReads(dir)
    ELSE /\ HistoryReads(dir)
         /\ number \in DOMAIN dir.attempts
         /\ number = Cardinality(DOMAIN dir.attempts)
         /\ dir.attempts[number].status = "succeeded"

MarkComplete(dir, number) ==
    IF dir.marker # NoMarker THEN dir
    ELSE [dir EXCEPT !.marker = MarkerFor(dir.attempts, number)]

\* commit_pending: the marker a crash kept from being written.
CommitPending(dir) ==
    IF dir.marker # NoMarker \/ Succeeded(dir.attempts) = {}
    THEN dir
    ELSE MarkComplete(dir, Cardinality(DOMAIN dir.attempts))

-----------------------------------------------------------------------------
(* The runner's own reading of a history: one attempt, one case, one unit. *)

\* No provider was called in a replay, and a stage value made in this attempt
\* cannot occur in one.
ObservationsValid(attempt) == attempt.mode = "replay" => attempt.fresh = {}

\* The session checkpoint of an attempt continues the state chain: it starts
\* from the state its predecessor left and only a success moves it on.
AttemptValid(attempt, unit, before) ==
    /\ ObservationsValid(attempt)
    /\ attempt.before = before
    /\ IF ~IsSession(unit)
       THEN attempt.after = NoState
       ELSE (attempt.status = "succeeded") = (attempt.after # NoState)

\* A retry follows only a retryable failure, and a success is the last attempt.
CaseHistoryValid(attempts, unit, before) ==
    \A k \in DOMAIN attempts :
        /\ AttemptValid(attempts[k], unit, before)
        /\ k < Cardinality(DOMAIN attempts) =>
              attempts[k].status # "succeeded" /\ attempts[k].retryable

Done(attempts) == Succeeded(attempts) # {}

\* The session state in front of a turn, from the histories of the turns
\* before it.
StateBefore(unit, histories, i) ==
    IF i = 1 THEN InitialState(unit)
    ELSE LatestAttempt(histories[unit[i - 1].id]).after

\* Attempts form a prefix of the unit: a turn is tried only after every turn
\* before it has succeeded, and from the state it left.
UnitHistoryValid(unit, histories) ==
    \A i \in DOMAIN unit :
        DOMAIN histories[unit[i].id] # {} =>
            /\ \A j \in 1 .. i - 1 : Done(histories[unit[j].id])
            /\ CaseHistoryValid(histories[unit[i].id], unit,
                                StateBefore(unit, histories, i))

CompletedPrefix(unit, histories) ==
    CHOOSE n \in 0 .. Len(unit) :
        /\ \A i \in 1 .. n : Done(histories[unit[i].id])
        /\ n < Len(unit) => ~Done(histories[unit[n + 1].id])

=============================================================================
