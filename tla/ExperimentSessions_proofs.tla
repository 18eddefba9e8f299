---------------------- MODULE ExperimentSessions_proofs ----------------------
(***************************************************************************)
(* Theorems about the sessions, the summaries and the lost races of the    *)
(* experiments, for every value of the constants.  Experiments_proofs has  *)
(* the invariants these rest on and the steps of a thread up to the        *)
(* attempt it writes; here are the files, the runs and the races.          *)
(***************************************************************************)
EXTENDS Experiments_proofs


-----------------------------------------------------------------------------
(* Attempts that are written.                                              *)

LEMMA OpenIsNotHopeless ==
  ASSUME NEW a \in Seq(AttemptFile), Open(a)
  PROVE  ~Hopeless(a)
  <1>1. /\ Len(a) \in Nat /\ DOMAIN a = 1 .. Len(a) /\ Cardinality(DOMAIN a) = Len(a)
        /\ a # <<>> => Len(a) \in DOMAIN a
    BY CountIsLen
  <1>2. Len(a) < MaxAttempts /\ \A k \in DOMAIN a : a[k].retryable
    BY DEF Open
  <1>3. ~(Len(a) >= MaxAttempts)
    BY <1>1, <1>2, AttemptsBounded
  <1>4. a # <<>> => LatestAttempt(a).retryable
    BY <1>1, <1>2 DEF LatestAttempt
  <1> QED BY <1>3, <1>4 DEF Hopeless, CannotGoOn

\* What write_attempt leaves in a directory.
LEMMA Written ==
  ASSUME NEW d \in CaseDir, NEW number \in Nat, NEW file \in AttemptFile, file.intact,
         MayWriteAttempt(d, number, file)
  PROVE  LET next == WriteAttempt(d, number, file) IN
         /\ next \in CaseDir /\ next.marker = NoMarker
         /\ DirClean(d) /\ DirClean(next)
         /\ Len(next.attempts) <= MaxAttempts
         /\ number = Len(d.attempts) + 1 =>
               /\ Len(next.attempts) = number /\ DOMAIN next.attempts = 1 .. number
               /\ next.attempts[number] = file
               /\ \A k \in DOMAIN d.attempts : next.attempts[k] = d.attempts[k]
  <1> DEFINE next == WriteAttempt(d, number, file)
             a == d.attempts
             b == [k \in DOMAIN a \cup {number} |-> IF k = number THEN file ELSE a[k]]
  <1>1. a \in Seq(AttemptFile)
    BY DEF CaseDir
  <1>2. /\ Len(a) \in Nat /\ DOMAIN a = 1 .. Len(a) /\ Cardinality(DOMAIN a) = Len(a)
        /\ \A k \in DOMAIN a : a[k] \in AttemptFile
    BY <1>1, CountIsLen
  <1>3. /\ number <= MaxAttempts /\ d.marker = NoMarker /\ HistoryReads(d)
        /\ number \in DOMAIN a \/ number = Len(a) + 1
    BY <1>2 DEF MayWriteAttempt
  <1>4. DirClean(d) /\ Len(a) <= MaxAttempts
    BY <1>2, <1>3 DEF HistoryReads, DirClean, AttemptReads, Marked
  <1>5. next \in CaseDir /\ \A k \in DOMAIN next.attempts :
           next.attempts[k] = file \/ (k \in DOMAIN a /\ next.attempts[k] = a[k])
    BY Writes
  <1>6. next = [d EXCEPT !.attempts = b]
    BY DEF WriteAttempt
  <1>7. next.attempts = b /\ next.marker = d.marker /\ next.junk = d.junk
    <2> HIDE DEF b, next
    <2> QED BY <1>6 DEF CaseDir
  <1>8. DirClean(next)
    BY <1>3, <1>4, <1>5, <1>7 DEF DirClean, Marked
  <1>9. b \in Seq(AttemptFile) /\ DOMAIN b = DOMAIN a \cup {number} /\ b[number] = file
        /\ \A k \in DOMAIN a : k # number => b[k] = a[k]
    <2>1. b \in Seq(AttemptFile)
      <3> HIDE DEF b, next
      <3> QED BY <1>5, <1>7 DEF CaseDir
    <2> QED BY <2>1
  <1> HIDE DEF b, next, a
  <1>10. \A n \in Nat : DOMAIN b = 1 .. n => Len(b) = n
    <2>1. Cardinality(DOMAIN b) = Len(b)
      BY <1>9, CountIsLen
    <2> QED BY <2>1, FS_Interval
  <1>11. CASE number = Len(a) + 1
    <2>1. DOMAIN b = 1 .. number
      BY <1>2, <1>9, <1>11
    <2>2. Len(b) = number
      BY <1>10, <2>1
    <2>3. \A k \in DOMAIN a : b[k] = a[k]
      BY <1>2, <1>9, <1>11
    <2> QED BY <1>3, <1>4, <1>5, <1>7, <1>8, <1>9, <2>1, <2>2, <2>3 DEF next, a
  <1>12. CASE number # Len(a) + 1
    <2>1. DOMAIN b = 1 .. Len(a)
      BY <1>2, <1>3, <1>9, <1>12
    <2>2. Len(b) = Len(a)
      BY <1>2, <1>10, <2>1
    <2> QED BY <1>3, <1>4, <1>5, <1>7, <1>8, <1>12, <2>2 DEF next, a
  <1> QED BY <1>11, <1>12

\* The turns of a unit, when the files of a turn that was not marked change.
LEMMA TurnsGoOn ==
  ASSUME NEW unit, Len(unit) \in Nat, DOMAIN unit = 1 .. Len(unit), NEW dirs, NEW dirs2,
         NEW i \in DOMAIN unit,
         \A j \in DOMAIN unit : j # i => dirs2[unit[j].id] = dirs[unit[j].id],
         ~Marked(dirs[unit[i].id]), \A j \in 1 .. i - 1 : Marked(dirs[unit[j].id]),
         \A j \in DOMAIN unit : TurnSound(unit, dirs, j),
         \A k \in DOMAIN dirs2[unit[i].id].attempts :
            FileSound(unit, StateIn(unit, dirs, i), dirs2[unit[i].id].attempts[k])
  PROVE  /\ \A j \in DOMAIN unit : TurnSound(unit, dirs2, j)
         /\ StateIn(unit, dirs2, i) = StateIn(unit, dirs, i)
         /\ \A j \in 1 .. i - 1 : Marked(dirs2[unit[j].id])
  <1>1. ASSUME NEW j \in 1 .. i PROVE StateIn(unit, dirs2, j) = StateIn(unit, dirs, j)
    <2>1. CASE j = 1
      <3>1. StateIn(unit, dirs, j) = InitialState(unit) /\ StateIn(unit, dirs2, j) = InitialState(unit)
        BY <2>1 DEF StateIn
      <3> QED BY <3>1
    <2>2. CASE j # 1
      <3>1. j - 1 \in DOMAIN unit /\ j - 1 # i
        BY <2>2
      <3>2. dirs2[unit[j - 1].id] = dirs[unit[j - 1].id]
        BY <3>1
      <3> QED BY <2>2, <3>2 DEF StateIn
    <2> QED BY <2>1, <2>2
  <1>2. \A j \in 1 .. i - 1 : dirs2[unit[j].id] = dirs[unit[j].id]
    OBVIOUS
  <1>3. StateIn(unit, dirs2, i) = StateIn(unit, dirs, i)
    BY <1>1
  <1>4. ASSUME NEW j \in DOMAIN unit PROVE TurnSound(unit, dirs2, j)
    <2>1. CASE j < i
      <3>1. StateIn(unit, dirs2, j) = StateIn(unit, dirs, j) /\ dirs2[unit[j].id] = dirs[unit[j].id]
        BY <1>1, <2>1
      <3>2. \A h \in 1 .. j - 1 : dirs2[unit[h].id] = dirs[unit[h].id]
        BY <2>1
      <3>3. TurnSound(unit, dirs, j)
        OBVIOUS
      <3> QED BY <3>1, <3>2, <3>3 DEF TurnSound
    <2>2. CASE j = i
      BY <1>2, <1>3, <2>2 DEF TurnSound
    <2>3. CASE j > i
      <3>1. dirs2[unit[j].id] = dirs[unit[j].id] /\ TurnSound(unit, dirs, j) /\ i \in 1 .. j - 1
        BY <2>3
      <3>2. dirs[unit[j].id].attempts = <<>>
        BY <3>1 DEF TurnSound
      <3> QED BY <3>1, <3>2 DEF TurnSound
    <2> QED BY <2>1, <2>2, <2>3
  <1> QED BY <1>2, <1>3, <1>4
\* A thread goes on and writes the directory of its turn.
LEMMA DirGoesOn ==
  ASSUME SoundInv, BaseInv', NEW e \in Existing, NEW u \in DOMAIN Units, run[e].pc = "on",
         UNCHANGED <<scenario, budget>>, NEW i \in DOMAIN Units[u],
         NEW d \in CaseDir, SetDir(e, Units[u][i].id, d),
         DirClean(d) <=> DirClean(exps[e].dirs[Units[u][i].id]), Len(d.attempts) <= MaxAttempts,
         \A f \in Experiments : f # e => run'[f] = run[f],
         NEW r, run'[e] = r, r.pc = "on", r.result = run[e].result,
         NEW w, SetWork(e, u, w), w.pc # "off",
         Clean(exps[e].dirs) =>
            /\ DirSound(d, exps[e].manifest.external)
            /\ r.mode = run[e].mode /\ (run[e].stop => r.stop)
            /\ run[e].terminal \subseteq r.terminal
            /\ \A t \in r.terminal : t \in run[e].terminal \/ t = Units[u][i].id
            /\ Units[u][i].id \in r.terminal => Hopeless(d.attempts)
            /\ UnitSound(Units[u], exps'[e].dirs, exps[e].manifest.external, r, w)
  PROVE  SoundInv'
  <1>0. /\ e \in Experiments /\ scenario \in Scenarios /\ BaseInv /\ RunnerTypeOK
        /\ exps[e].dirs \in [CaseIds(scenario.dataset) -> CaseDir]
    BY SoundFiles DEF SoundInv, BaseInv
  <1> DEFINE id == Units[u][i].id
             dirs == exps[e].dirs
             external == exps[e].manifest.external
  <1>1. id \in CaseIds(scenario.dataset)
    BY <1>0, CasePlaces
  <1>2. /\ Existing' = Existing /\ exps' \in [Existing -> ExperimentFiles] /\ ManifestsStay
        /\ \A f \in Existing : f # e => exps'[f] = exps[f]
        /\ exps'[e].dirs[id] = d
        /\ \A other \in CaseIds(scenario.dataset) : other # id => exps'[e].dirs[other] = dirs[other]
    BY <1>0, <1>1, DirSet
  <1>3. PICK dirs2 \in [CaseIds(scenario.dataset) -> CaseDir] : exps'[e].dirs = dirs2
    BY <1>2 DEF ExperimentFiles
  <1>4. /\ dirs2[id] = d /\ \A other \in CaseIds(scenario.dataset) : other # id => dirs2[other] = dirs[other]
    BY <1>2, <1>3
  <1>5. exps'[e].manifest.external = external
    BY <1>2 DEF ManifestsStay
  <1>6. DOMAIN dirs = CaseIds(scenario.dataset) /\ DOMAIN dirs2 = CaseIds(scenario.dataset)
    BY <1>0
  <1>7. Clean(dirs2) <=> Clean(dirs)
    BY <1>1, <1>4, <1>6 DEF Clean
  <1>8. /\ \A f \in Experiments : f # e => work'[f] = work[f]
        /\ work'[e][u] = w /\ \A v \in DOMAIN Units : v # u => work'[e][v] = work[e][v]
    BY <1>0 DEF SetWork, RunnerTypeOK
  <1>9. ASSUME Clean(dirs2)
        PROVE  /\ \A o \in DOMAIN dirs2 : DirSound(dirs2[o], external)
               /\ \A v \in DOMAIN Units : UnitSound(Units[v], dirs2, external, r, work'[e][v])
               /\ RunSound(Units, dirs2, r, work'[e])
    <2>1. Clean(dirs)
      BY <1>7, <1>9
    <2>2. /\ \A o \in DOMAIN dirs : DirSound(dirs[o], external)
          /\ \A v \in DOMAIN Units : UnitSound(Units[v], dirs, external, run[e], work[e][v])
          /\ RunSound(Units, dirs, run[e], work[e])
      BY <2>1 DEF SoundInv, Sound, ExpSound
    <2>3. /\ DirSound(d, external)
          /\ r.mode = run[e].mode /\ (run[e].stop => r.stop)
          /\ run[e].terminal \subseteq r.terminal
          /\ \A t \in r.terminal : t \in run[e].terminal \/ t = id
          /\ id \in r.terminal => Hopeless(d.attempts)
          /\ UnitSound(Units[u], dirs2, external, r, w)
      BY <1>3, <2>1
    <2>4. \A o \in DOMAIN dirs2 : DirSound(dirs2[o], external)
      BY <1>4, <1>6, <2>2, <2>3
    <2>5. ASSUME NEW v \in DOMAIN Units, v # u
          PROVE  /\ \A j \in DOMAIN Units[v] : dirs2[Units[v][j].id] = dirs[Units[v][j].id]
                 /\ Len(Units[v]) \in Nat /\ DOMAIN Units[v] = 1 .. Len(Units[v])
      <3>1. ASSUME NEW j \in DOMAIN Units[v] PROVE dirs2[Units[v][j].id] = dirs[Units[v][j].id]
        <4>1. Units[v][j].id # id
          BY <1>0, <2>5, SamePlace
        <4>2. Units[v][j].id \in CaseIds(scenario.dataset)
          BY <1>0, CasePlaces
        <4> QED BY <1>4, <4>1, <4>2
      <3> QED BY <1>0, <3>1, UnitFacts
    <2>6. ASSUME NEW v \in DOMAIN Units PROVE UnitSound(Units[v], dirs2, external, r, work'[e][v])
      <3>1. CASE v = u
        BY <1>8, <2>3, <3>1
      <3>2. CASE v # u
        <4>1. Stands(Units[v], work[e][v])
          BY <1>0, ThreadsStand
        <4>2. /\ r.mode = run[e].mode /\ (run[e].stop => r.stop)
              /\ run[e].terminal # {} => r.terminal # {}
          BY <2>3
        <4>3. UnitSound(Units[v], dirs, external, run[e], work[e][v])
          BY <2>2
        <4>4. UnitSound(Units[v], dirs2, external, r, work[e][v])
          <5> HIDE DEF dirs, external
          <5> QED BY <2>5, <3>2, <4>1, <4>2, <4>3, UnitCarries
        <4> QED BY <1>8, <3>2, <4>4
      <3> QED BY <3>1, <3>2
    <2>7. ASSUME NEW v \in DOMAIN Units PROVE UnitSettled(Units, dirs2, r, work'[e], v)
      <3>1. CASE v = u
        BY <1>8, <3>1 DEF UnitSettled
      <3>2. CASE v # u
        <4>1. UnitSettled(Units, dirs, run[e], work[e], v)
          BY <2>2 DEF RunSound
        <4>2. work'[e][v].pc = "off" => run[e].terminal # {} \/ AllMarked(Units[v], dirs)
          BY <1>8, <3>2, <4>1 DEF UnitSettled, Planned
        <4>3. AllMarked(Units[v], dirs) => AllMarked(Units[v], dirs2)
          BY <2>5, <3>2 DEF AllMarked
        <4>4. run[e].terminal # {} => r.terminal # {}
          BY <2>3
        <4> QED BY <4>2, <4>3, <4>4 DEF UnitSettled
      <3> QED BY <3>1, <3>2
    <2>8. ASSUME NEW t \in r.terminal PROVE t \in DOMAIN dirs2 /\ Hopeless(dirs2[t].attempts)
      <3>1. CASE t = id
        BY <1>1, <1>4, <1>6, <2>3, <3>1
      <3>2. CASE t # id
        <4>1. t \in DOMAIN dirs /\ Hopeless(dirs[t].attempts)
          BY <2>2, <2>3, <3>2 DEF RunSound
        <4> QED BY <1>4, <1>6, <3>2, <4>1
      <3> QED BY <3>1, <3>2
    <2>9. r.result = "none"
      BY <2>2 DEF RunSound
    <2>10. RunSound(Units, dirs2, r, work'[e])
      <3> HIDE DEF dirs, external, id
      <3> QED BY <2>7, <2>8, <2>9 DEF RunSound
    <2> QED BY <2>4, <2>6, <2>10
  <1>10. ExpSound(Units, exps'[e].dirs, exps'[e].manifest.external, run'[e], work'[e])
    <2>1. ExpSound(Units, dirs2, external, r, work'[e])
      <3> HIDE DEF dirs, external
      <3> QED BY <1>9 DEF ExpSound
    <2> QED BY <1>3, <1>5, <2>1
  <1>11. DamagesCounted'
    <2>1. \A f \in Existing' : f \in Existing /\ (Clean(exps[f].dirs) => Clean(exps'[f].dirs))
      BY <1>2, <1>3, <1>7
    <2> QED BY <2>1, DamagesStay
  <1>12. /\ \A o \in DOMAIN exps'[e].dirs : Len(exps'[e].dirs[o].attempts) <= MaxAttempts
        /\ run'[e].result # "partial"
    <2>1. \A o \in DOMAIN dirs : Len(dirs[o].attempts) <= MaxAttempts
      BY DEF SoundInv, FilesCounted
    <2> QED BY <1>0, <1>3, <1>4, <1>6, <2>1 DEF SoundInv, ResultsKnown
  <1> QED BY <1>0, <1>2, <1>8, <1>10, <1>11, <1>12, SoundMoves

\* Files that agree with their place and their mode.
InOrder(a, external) ==
  \A k \in DOMAIN a : /\ a[k].number = k
                      /\ a[k].mode = "replay" => a[k].fresh = {}
                      /\ external => a[k].error # "executor_contract_error"
                      /\ a[k].status # "succeeded" => a[k].after = NoState

Extends(b, a, number, file) ==
  /\ number = Len(a) + 1 /\ Len(b) = number /\ DOMAIN b = 1 .. number /\ b[number] = file
  /\ \A k \in DOMAIN a : b[k] = a[k]

\* The outcome of an attempt, written as its file.
LEMMA FileRecorded ==
  ASSUME NEW unit, NEW external, NEW a \in Seq(AttemptFile), Open(a),
         NEW w,
         IsSession(unit) => w.runtime.memory = w.state,
         w.mode = "replay" => w.fresh = {}, OutcomeSound(unit, external, w),
         NEW file, file = AttemptPayload(w.number, w.mode, w.out, w.state, w.runtime.memory,
                                         w.vals, w.fresh),
         NEW b, Extends(b, a, w.number, file), InOrder(a, external)
  PROVE  /\ FileSound(unit, w.state, file)
         /\ \A k \in DOMAIN b :
               /\ b[k].number = k
               /\ b[k].mode = "replay" => b[k].fresh = {}
               /\ external => b[k].error # "executor_contract_error"
               /\ b[k].status # "succeeded" => b[k].after = NoState
               /\ k < Len(b) => b[k].status # "succeeded" /\ b[k].retryable
         /\ file.status = w.out.status /\ file.retryable = w.out.retryable
         /\ file.after = w.out.after /\ file.intact
  <1>0. /\ w.number = Len(a) + 1 /\ Len(b) = w.number /\ DOMAIN b = 1 .. w.number /\ b[w.number] = file
        /\ \A k \in DOMAIN a : b[k] = a[k]
    BY DEF Extends
  <1>1. /\ file.number = w.number /\ file.mode = w.mode /\ file.status = w.out.status
        /\ file.retryable = w.out.retryable /\ file.error = w.out.error
        /\ file.before = w.state /\ file.after = w.out.after /\ file.asked = w.runtime.memory
        /\ file.vals = w.vals /\ file.fresh = w.fresh /\ file.intact
    BY DEF AttemptPayload
  <1>2. /\ external => w.out.error # "executor_contract_error"
        /\ w.out.status # "succeeded" => w.out.after = NoState
        /\ w.out.status = "succeeded" => w.out.after = AfterSuccess(unit, w.runtime.memory, w.vals)
    BY DEF OutcomeSound
  <1>3. AfterSuccess(unit, w.runtime.memory, w.vals) = AfterSuccess(unit, w.state, w.vals)
    <2>1. CASE IsSession(unit)
      BY <2>1
    <2>2. CASE ~IsSession(unit)
      BY <2>2 DEF AfterSuccess
    <2> QED BY <2>1, <2>2
  <1>4. FileSound(unit, w.state, file)
    BY <1>1, <1>2, <1>3 DEF FileSound
  <1>5. Len(a) \in Nat /\ DOMAIN a = 1 .. Len(a)
    BY CountIsLen
  <1>6. ASSUME NEW k \in DOMAIN b
        PROVE  /\ b[k].number = k
               /\ b[k].mode = "replay" => b[k].fresh = {}
               /\ external => b[k].error # "executor_contract_error"
               /\ b[k].status # "succeeded" => b[k].after = NoState
               /\ k < Len(b) => b[k].status # "succeeded" /\ b[k].retryable
    <2>1. CASE k = w.number
      BY <1>0, <1>1, <1>2, <1>5, <2>1
    <2>2. CASE k # w.number
      <3>1. k \in DOMAIN a
        BY <1>0, <1>5, <2>2
      <3>2. b[k] = a[k] /\ a[k].status # "succeeded" /\ a[k].retryable
        BY <1>0, <3>1 DEF Open
      <3> QED BY <3>1, <3>2 DEF InOrder
    <2> QED BY <2>1, <2>2
  <1> QED BY <1>1, <1>4, <1>6

\* After a failure a case is open again or it is hopeless.
LEMMA FailureRecorded ==
  ASSUME NEW a \in Seq(AttemptFile), Open(a), NEW b \in Seq(AttemptFile),
         NEW number, number = Len(a) + 1, Len(b) = number, DOMAIN b = 1 .. number,
         \A k \in DOMAIN a : b[k] = a[k], b[number].status # "succeeded"
  PROVE  /\ ~b[number].retryable \/ number >= MaxAttempts => Hopeless(b)
         /\ b[number].retryable /\ ~(number >= MaxAttempts) => Open(b)
  <1>1. Len(a) \in Nat /\ DOMAIN a = 1 .. Len(a) /\ Cardinality(DOMAIN b) = number
    BY CountIsLen
  <1>2. \A k \in DOMAIN b : k = number \/ (k \in DOMAIN a /\ b[k] = a[k])
    BY <1>1
  <1>3. Succeeded(b) = {}
    BY <1>2 DEF Succeeded, Open
  <1>4. b # <<>>
    BY <1>1
  <1>5. LatestAttempt(b) = b[number]
    BY <1>1 DEF LatestAttempt
  <1>6. number \in Nat /\ MaxAttempts \in Nat
    BY <1>1, AttemptsBounded
  <1>7. ~b[number].retryable \/ number >= MaxAttempts => Hopeless(b)
    BY <1>3, <1>4, <1>5 DEF Hopeless, CannotGoOn
  <1>8. ASSUME b[number].retryable, ~(number >= MaxAttempts) PROVE Open(b)
    <2>1. \A k \in DOMAIN b : b[k].status # "succeeded" /\ b[k].retryable
      BY <1>2, <1>8 DEF Open
    <2>2. Len(b) < MaxAttempts
      BY <1>6, <1>8
    <2> QED BY <2>1, <2>2 DEF Open
  <1> QED BY <1>7, <1>8

\* A write that the store accepts whatever is damaged.
LEMMA WriteAccepted ==
  ASSUME NEW d \in CaseDir, HistoryReads(d), ~Marked(d), Open(d.attempts),
         NEW number, number = Len(d.attempts) + 1, NEW file
  PROVE  MayWriteAttempt(d, number, file)
  <1>1. d.attempts \in Seq(AttemptFile)
    BY DEF CaseDir
  <1>2. Len(d.attempts) \in Nat /\ DOMAIN d.attempts = 1 .. Len(d.attempts)
        /\ Cardinality(DOMAIN d.attempts) = Len(d.attempts)
    BY <1>1, CountIsLen
  <1>3. number <= MaxAttempts
    BY <1>1, OpenHasRoom
  <1>4. Succeeded(d.attempts) = {}
    BY DEF Open, Succeeded
  <1>5. number \notin DOMAIN d.attempts
    BY <1>2
  <1>6. ImmutableWrite(ExistingAttempt(d, number), file) = "created"
    BY <1>5 DEF ImmutableWrite, ExistingAttempt
  <1> QED BY <1>2, <1>3, <1>4, <1>6 DEF MayWriteAttempt, Marked

\* What the files of a turn say when its attempt has been written.
Recorded(unit, dirs2, external, w) ==
  LET d == dirs2[unit[w.turn].id]
      b == d.attempts
  IN  /\ \A j \in DOMAIN unit : TurnSound(unit, dirs2, j)
      /\ DirSound(d, external)
      /\ StateIn(unit, dirs2, w.turn) = w.state /\ (IsSession(unit) => w.state \in Seq(Values))
      /\ \A j \in 1 .. w.turn - 1 : Marked(dirs2[unit[j].id])
      /\ ~Marked(d)
      /\ IsSession(unit) => w.runtime.memory = w.state
      /\ BuiltFor(w)
      /\ w.mode = "replay" => w.fresh = {}
      /\ b # <<>> /\ w.number = Len(b) /\ b[Len(b)].status = w.out.status
      /\ w.out.after = b[Len(b)].after
      /\ w.out.status # "succeeded" =>
           /\ ~w.out.retryable \/ w.number >= MaxAttempts => Hopeless(b)
           /\ w.out.retryable /\ ~(w.number >= MaxAttempts) => Open(b)

\* The unit of a thread that has written its attempt.
LEMMA UnitRecorded ==
  ASSUME NEW unit, Len(unit) \in Nat, DOMAIN unit = 1 .. Len(unit), NEW dirs, NEW dirs2,
         NEW external, NEW r, NEW r2, NEW w, w.turn \in DOMAIN unit, w.pc = "record",
         \A j \in DOMAIN unit : j # w.turn => dirs2[unit[j].id] = dirs[unit[j].id],
         UnitSound(unit, dirs, external, r, w),
         dirs[unit[w.turn].id].attempts \in Seq(AttemptFile),
         dirs2[unit[w.turn].id].attempts \in Seq(AttemptFile),
         DirSound(dirs[unit[w.turn].id], external),
         NEW file, file = AttemptPayload(w.number, w.mode, w.out, w.state, w.runtime.memory,
                                         w.vals, w.fresh),
         w.number = Len(dirs[unit[w.turn].id].attempts) + 1 =>
            Extends(dirs2[unit[w.turn].id].attempts, dirs[unit[w.turn].id].attempts, w.number, file),
         dirs2[unit[w.turn].id].marker = NoMarker
  PROVE  Recorded(unit, dirs2, external, w)
  <1> DEFINE id == unit[w.turn].id
             a == dirs[id].attempts
             b == dirs2[id].attempts
  <1>1. ThreadSound(unit, dirs, external, r, w) /\ \A j \in DOMAIN unit : TurnSound(unit, dirs, j)
    BY DEF UnitSound
  <1>2. /\ \A j \in 1 .. w.turn - 1 : Marked(dirs[unit[j].id])
        /\ w.state = StateIn(unit, dirs, w.turn)
        /\ IsSession(unit) => w.state \in Seq(Values)
        /\ ~Marked(dirs[id]) /\ Open(a)
    <2>1. TurnKnown(unit, dirs, w)
      BY <1>1 DEF ThreadSound
    <2>2. w.turn <= Len(unit)
      OBVIOUS
    <2> QED BY <2>1, <2>2 DEF TurnKnown
  <1>3. AttemptSound(unit, external, w, a)
    BY <1>1 DEF ThreadSound, AtWork
  <1>4. /\ IsSession(unit) => w.runtime.memory = w.state
        /\ w.number = Len(a) + 1
        /\ BuiltFor(w)
        /\ w.mode = "replay" => w.fresh = {}
        /\ OutcomeSound(unit, external, w)
    BY <1>3 DEF AttemptSound
  <1>5. /\ Len(b) = w.number /\ DOMAIN b = 1 .. w.number /\ b[w.number] = file
        /\ \A k \in DOMAIN a : b[k] = a[k]
    BY <1>4 DEF Extends
  <1>6. InOrder(a, external) /\ Extends(b, a, w.number, file)
    BY <1>4, <1>5 DEF DirSound, InOrder, Extends
  <1>7. a \in Seq(AttemptFile) /\ b \in Seq(AttemptFile)
    OBVIOUS
  <1>8. /\ FileSound(unit, w.state, file)
        /\ \A k \in DOMAIN b :
               /\ b[k].number = k
               /\ b[k].mode = "replay" => b[k].fresh = {}
               /\ external => b[k].error # "executor_contract_error"
               /\ b[k].status # "succeeded" => b[k].after = NoState
               /\ k < Len(b) => b[k].status # "succeeded" /\ b[k].retryable
        /\ file.status = w.out.status /\ file.retryable = w.out.retryable
        /\ file.after = w.out.after
    <2> HIDE DEF a, b
    <2> QED BY <1>2, <1>4, <1>6, <1>7, FileRecorded
  <1>9. ~Marked(dirs2[id])
    BY DEF Marked
  <1>10. DirSound(dirs2[id], external)
    BY <1>8, <1>9 DEF DirSound
  <1>11. Len(a) \in Nat /\ DOMAIN a = 1 .. Len(a)
    BY CountIsLen
  <1>12. \A k \in DOMAIN b : FileSound(unit, StateIn(unit, dirs, w.turn), b[k])
    <2>1. ASSUME NEW k \in DOMAIN b PROVE FileSound(unit, StateIn(unit, dirs, w.turn), b[k])
      <3>1. CASE k = w.number
        BY <1>2, <1>5, <1>8, <3>1
      <3>2. CASE k # w.number
        <4>1. k \in DOMAIN a /\ b[k] = a[k]
          <5> HIDE DEF a, b
          <5> QED BY <1>4, <1>5, <1>11, <3>2
        <4>2. a # <<>>
          BY <4>1
        <4>3. TurnSound(unit, dirs, w.turn)
          BY <1>1
        <4> QED BY <4>1, <4>2, <4>3 DEF TurnSound
      <3> QED BY <3>1, <3>2
    <2> QED BY <2>1
  <1>13. /\ \A j \in DOMAIN unit : TurnSound(unit, dirs2, j)
         /\ StateIn(unit, dirs2, w.turn) = StateIn(unit, dirs, w.turn)
         /\ \A j \in 1 .. w.turn - 1 : Marked(dirs2[unit[j].id])
    BY <1>1, <1>2, <1>12, TurnsGoOn
  <1>14. b # <<>> /\ w.number = Len(b) /\ b[Len(b)].status = w.out.status
         /\ w.out.after = b[Len(b)].after
    <2>1. w.number \in DOMAIN b
      <3> HIDE DEF a, b
      <3> QED BY <1>4, <1>5, <1>11
    <2> HIDE DEF a, b
    <2> QED BY <1>5, <1>8, <2>1
  <1>15. w.out.status # "succeeded" =>
           /\ ~w.out.retryable \/ w.number >= MaxAttempts => Hopeless(b)
           /\ w.out.retryable /\ ~(w.number >= MaxAttempts) => Open(b)
    <2> HIDE DEF a, b
    <2>1. b[w.number].status = w.out.status /\ b[w.number].retryable = w.out.retryable
      BY <1>5, <1>8
    <2> QED BY <1>2, <1>4, <1>5, <1>7, <2>1, FailureRecorded
  <1> DEFINE d == dirs2[id]
  <1>16. /\ \A j \in DOMAIN unit : TurnSound(unit, dirs2, j)
         /\ DirSound(d, external)
         /\ StateIn(unit, dirs2, w.turn) = w.state /\ (IsSession(unit) => w.state \in Seq(Values))
         /\ \A j \in 1 .. w.turn - 1 : Marked(dirs2[unit[j].id])
         /\ ~Marked(d)
    BY <1>2, <1>9, <1>10, <1>13
  <1>17. /\ IsSession(unit) => w.runtime.memory = w.state
         /\ BuiltFor(w) /\ (w.mode = "replay" => w.fresh = {})
    BY <1>4
  <1>18. d = dirs2[unit[w.turn].id] /\ d.attempts = b
    OBVIOUS
  <1> HIDE DEF a, b, id, d
  <1>19. Recorded(unit, dirs2, external, w) <=>
      /\ \A j \in DOMAIN unit : TurnSound(unit, dirs2, j)
      /\ DirSound(d, external)
      /\ StateIn(unit, dirs2, w.turn) = w.state /\ (IsSession(unit) => w.state \in Seq(Values))
      /\ \A j \in 1 .. w.turn - 1 : Marked(dirs2[unit[j].id])
      /\ ~Marked(d)
      /\ IsSession(unit) => w.runtime.memory = w.state
      /\ BuiltFor(w)
      /\ w.mode = "replay" => w.fresh = {}
      /\ b # <<>> /\ w.number = Len(b) /\ b[Len(b)].status = w.out.status
      /\ w.out.after = b[Len(b)].after
      /\ w.out.status # "succeeded" =>
           /\ ~w.out.retryable \/ w.number >= MaxAttempts => Hopeless(b)
           /\ w.out.retryable /\ ~(w.number >= MaxAttempts) => Open(b)
    BY <1>18, Zenon DEF Recorded
  <1> QED BY <1>14, <1>15, <1>16, <1>17, <1>19, Zenon

\* Two turns of a unit have two directories.
LEMMA TurnsApart ==
  ASSUME scenario \in Scenarios, NEW u \in DOMAIN Units, NEW i \in DOMAIN Units[u],
         NEW j \in DOMAIN Units[u], j # i
  PROVE  Units[u][j].id # Units[u][i].id
  BY SamePlace

LEMMA RaisesUnclean ==
  ASSUME SoundInv, BaseInv', NEW e \in Existing, NEW u \in DOMAIN Units, run[e].pc = "on",
         UNCHANGED <<scenario, exps, run, budget>>, Goto(e, u, "raised"), ~Clean(exps[e].dirs)
  PROVE  SoundInv'
  <1> DEFINE w == [work[e][u] EXCEPT !.pc = "raised"]
  <1>1. work[e][u] \in WorkerRow
    BY DEF SoundInv, BaseInv, RunnerTypeOK
  <1>2. SetWork(e, u, w) /\ w.pc # "off"
    BY <1>1 DEF Goto, WorkerRow
  <1> HIDE DEF w
  <1> QED BY <1>2, ThreadGoesOn

LEMMA RecordAttemptSound ==
  ASSUME SoundInv, BaseInv', NEW e \in Experiments, NEW u \in DOMAIN Units, RecordAttempt(e, u)
  PROVE  SoundInv'
  <1> DEFINE w == work[e][u]
             i == w.turn
             unit == Units[u]
             id == unit[i].id
             dirs == exps[e].dirs
             d == dirs[id]
             external == exps[e].manifest.external
             file == Payload(e, u)
             next == WriteAttempt(d, w.number, file)
  <1>1. run[e].pc = "on" /\ w.pc = "record" /\ UNCHANGED <<scenario, code, budget, cache>>
    BY DEF RecordAttempt, At
  <1>2. /\ e \in Existing /\ scenario \in Scenarios /\ BaseInv /\ RunnerTypeOK
        /\ w \in WorkerRow /\ ThreadOK(e, u, w) /\ run \in [Experiments -> RunnerRow]
        /\ run[e] \in RunnerRow
    BY <1>1 DEF SoundInv, BaseInv, RunnerTypeOK, ThreadsOK
  <1>3. /\ i \in DOMAIN unit /\ Len(unit) \in Nat /\ DOMAIN unit = 1 .. Len(unit)
        /\ id \in CaseIds(scenario.dataset) /\ CurrentCase(e, u).id = id
        /\ w.runtime \in Runtime /\ w.out.status \in AttemptStatuses
        /\ dirs \in [CaseIds(scenario.dataset) -> CaseDir] /\ d \in CaseDir
    <2>1. i \in DOMAIN unit /\ w.runtime \in Runtime /\ w.out.status \in AttemptStatuses
      BY <1>1, <1>2 DEF ThreadOK, AtWork
    <2>2. dirs \in [CaseIds(scenario.dataset) -> CaseDir]
      BY <1>2, SoundFiles
    <2> QED BY <1>2, <2>1, <2>2, UnitFacts DEF CurrentCase
  <1>4. file \in AttemptFile /\ file.intact
        /\ file = AttemptPayload(w.number, w.mode, w.out, w.state, w.runtime.memory, w.vals, w.fresh)
    <2>1. file = AttemptPayload(w.number, w.mode, w.out, w.state, w.runtime.memory, w.vals, w.fresh)
      BY DEF Payload
    <2>2. file \in AttemptFile
      BY <1>2, <1>3, <2>1, PayloadTyped
    <2>3. AttemptPayload(w.number, w.mode, w.out, w.state, w.runtime.memory, w.vals, w.fresh).intact
      BY DEF AttemptPayload
    <2> QED BY <2>1, <2>2, <2>3
  <1>5. w.number \in Nat
    BY <1>2 DEF WorkerRow
  <1>6. ASSUME Clean(dirs)
        PROVE  /\ HistoryReads(d) /\ d.attempts \in Seq(AttemptFile) /\ DirSound(d, external)
               /\ ThreadSound(unit, dirs, external, run[e], w)
               /\ UnitSound(unit, dirs, external, run[e], w)
               /\ ~Marked(d) /\ Open(d.attempts) /\ w.number = Len(d.attempts) + 1
    <2>1. HistoryReads(d) /\ d.attempts \in Seq(AttemptFile) /\ DirSound(d, external)
      BY <1>2, <1>3, <1>6, FilesReadBack
    <2>2. UnitSound(unit, dirs, external, run[e], w)
      BY <1>2, <1>6 DEF SoundInv, Sound, ExpSound
    <2>3. ThreadSound(unit, dirs, external, run[e], w)
      BY <2>2 DEF UnitSound
    <2>4. TurnKnown(unit, dirs, w) /\ AttemptSound(unit, external, w, d.attempts)
      BY <1>1, <2>3 DEF ThreadSound, AtWork
    <2>5. i <= Len(unit)
      BY <1>3
    <2> QED BY <1>1, <2>1, <2>2, <2>3, <2>4, <2>5 DEF TurnKnown, AttemptSound
  <1>7. CASE ~MayWriteAttempt(d, w.number, file)
    <2>1. Goto(e, u, "raised") /\ UNCHANGED <<exps, run>>
      BY <1>3, <1>7 DEF RecordAttempt
    <2>2. ~Clean(dirs)
      BY <1>3, <1>6, <1>7, WriteAccepted
    <2> QED BY <1>1, <1>2, <2>1, <2>2, RaisesUnclean
  <1>8. CASE MayWriteAttempt(d, w.number, file)
    <2>1. /\ SetDir(e, id, next)
          /\ IF w.out.status = "succeeded" THEN Goto(e, u, "mark") /\ UNCHANGED run
             ELSE AfterFailure(e, u)
      BY <1>3, <1>8 DEF RecordAttempt
    <2>2. /\ next \in CaseDir /\ next.marker = NoMarker
          /\ DirClean(d) /\ DirClean(next)
          /\ Len(next.attempts) <= MaxAttempts
          /\ w.number = Len(d.attempts) + 1 =>
               /\ Len(next.attempts) = w.number /\ DOMAIN next.attempts = 1 .. w.number
               /\ next.attempts[w.number] = file
               /\ \A k \in DOMAIN d.attempts : next.attempts[k] = d.attempts[k]
      <3> HIDE DEF d, w, file
      <3> QED BY <1>3, <1>4, <1>5, <1>8, Written
    <2> HIDE DEF next
    <2>3. /\ exps'[e].dirs[id] = next
          /\ \A j \in DOMAIN unit : j # i => exps'[e].dirs[unit[j].id] = dirs[unit[j].id]
      <3>1. /\ exps'[e].dirs[id] = next
            /\ \A other \in CaseIds(scenario.dataset) : other # id => exps'[e].dirs[other] = dirs[other]
        <4> HIDE DEF id
        <4> QED BY <1>2, <1>3, <2>1, <2>2, DirSet
      <3>2. \A j \in DOMAIN unit : j # i => unit[j].id # id /\ unit[j].id \in CaseIds(scenario.dataset)
        BY <1>2, <1>3, TurnsApart, UnitFacts
      <3> QED BY <3>1, <3>2
    <2>4. PICK dirs2 : dirs2 = exps'[e].dirs
      OBVIOUS
    <2>5. ASSUME Clean(dirs)
          PROVE  /\ \A j \in DOMAIN unit : TurnSound(unit, dirs2, j)
                 /\ DirSound(next, external)
                 /\ StateIn(unit, dirs2, i) = w.state /\ (IsSession(unit) => w.state \in Seq(Values))
                 /\ \A j \in 1 .. i - 1 : Marked(dirs2[unit[j].id])
                 /\ dirs2[id] = next /\ ~Marked(next)
                 /\ IsSession(unit) => w.runtime.memory = w.state
                 /\ BuiltFor(w)
                 /\ w.mode = "replay" => w.fresh = {}
                 /\ next.attempts # <<>> /\ w.number = Len(next.attempts)
                 /\ next.attempts[Len(next.attempts)].status = w.out.status
                 /\ w.out.after = next.attempts[Len(next.attempts)].after
                 /\ ~Hopeless(d.attempts)
                 /\ w.out.status # "succeeded" =>
                      /\ ~w.out.retryable \/ w.number >= MaxAttempts => Hopeless(next.attempts)
                      /\ w.out.retryable /\ ~(w.number >= MaxAttempts) => Open(next.attempts)
      <3>1. dirs2[id] = next /\ \A j \in DOMAIN unit : j # i => dirs2[unit[j].id] = dirs[unit[j].id]
        BY <2>3, <2>4
      <3>2. next.attempts \in Seq(AttemptFile)
        BY <2>2 DEF CaseDir
      <3>3. /\ UnitSound(unit, dirs, external, run[e], w) /\ DirSound(d, external)
            /\ d.attempts \in Seq(AttemptFile)
        BY <1>6, <2>5
      <3>4. Recorded(unit, dirs2, external, w)
        <4>1. /\ d = dirs[unit[w.turn].id] /\ dirs2[unit[w.turn].id] = next
              /\ \A j \in DOMAIN unit : j # w.turn => dirs2[unit[j].id] = dirs[unit[j].id]
              /\ w.turn \in DOMAIN unit
          BY <1>3, <3>1
        <4>2. w.number = Len(d.attempts) + 1 => Extends(next.attempts, d.attempts, w.number, file)
          BY <2>2 DEF Extends
        <4> HIDE DEF w, unit, dirs, external, file, d, id, i
        <4> QED BY <1>1, <1>3, <1>4, <2>2, <3>2, <3>3, <4>1, <4>2, UnitRecorded
      <3>5. ~Hopeless(d.attempts)
        BY <1>6, <2>5, OpenIsNotHopeless
      <3>6. dirs2[unit[w.turn].id] = next /\ w.turn = i
        BY <3>1
      <3> HIDE DEF w, unit, dirs, external, file, id, i, d
      <3> QED BY <3>1, <3>4, <3>5, <3>6 DEF Recorded
    <2>6. ASSUME NEW r, run'[e] = r, r.pc = "on", r.result = run[e].result,
                 \A f \in Experiments : f # e => run'[f] = run[f],
                 NEW x, SetWork(e, u, x), x.pc # "off",
                 r.mode = run[e].mode, r.stop = run[e].stop,
                 \/ r.terminal = run[e].terminal
                 \/ /\ r.terminal = run[e].terminal \cup {id}
                    /\ w.out.status # "succeeded" /\ (~w.out.retryable \/ w.number >= MaxAttempts),
                 Clean(dirs) => ThreadSound(unit, dirs2, external, r, x)
          PROVE  SoundInv'
      <3>1. ASSUME Clean(dirs)
            PROVE  /\ DirSound(next, external)
                   /\ r.mode = run[e].mode /\ (run[e].stop => r.stop)
                   /\ run[e].terminal \subseteq r.terminal
                   /\ \A t \in r.terminal : t \in run[e].terminal \/ t = id
                   /\ id \in r.terminal => Hopeless(next.attempts)
                   /\ UnitSound(unit, dirs2, external, r, x)
        <4>1. UnitSound(unit, dirs2, external, r, x)
          BY <2>5, <2>6, <3>1 DEF UnitSound
        <4>2. id \in run[e].terminal => Hopeless(d.attempts)
          BY <1>2, <3>1 DEF SoundInv, Sound, ExpSound, RunSound
        <4>3. id \in r.terminal => Hopeless(next.attempts)
          BY <2>5, <2>6, <3>1, <4>2
        <4>4. DirSound(next, external)
          BY <2>5, <3>1
        <4> HIDE DEF w, unit, dirs, external, file, id, i
        <4> QED BY <2>6, <4>1, <4>3, <4>4
      <3>2. /\ Clean(exps[e].dirs) =>
                   /\ DirSound(next, exps[e].manifest.external)
                   /\ r.mode = run[e].mode /\ (run[e].stop => r.stop)
                   /\ run[e].terminal \subseteq r.terminal
                   /\ \A t \in r.terminal : t \in run[e].terminal \/ t = Units[u][i].id
                   /\ Units[u][i].id \in r.terminal => Hopeless(next.attempts)
                   /\ UnitSound(Units[u], exps'[e].dirs, exps[e].manifest.external, r, x)
            /\ i \in DOMAIN Units[u] /\ SetDir(e, Units[u][i].id, next)
            /\ DirClean(next) <=> DirClean(exps[e].dirs[Units[u][i].id])
        BY <1>3, <2>1, <2>2, <2>4, <3>1
      <3>3. /\ e \in Existing /\ run[e].pc = "on" /\ UNCHANGED <<scenario, budget>>
            /\ next \in CaseDir /\ Len(next.attempts) <= MaxAttempts
        BY <1>1, <1>2, <2>2
      <3> HIDE DEF w, unit, dirs, external, file, id, i, d
      <3> QED BY <2>6, <3>2, <3>3, DirGoesOn
    <2>7. CASE w.out.status = "succeeded"
      <3> DEFINE x == [work[e][u] EXCEPT !.pc = "mark"]
      <3>1. SetWork(e, u, x) /\ run' = run
        BY <2>1, <2>7 DEF Goto
      <3>2. /\ x.pc = "mark" /\ x.turn = i /\ x.state = w.state /\ x.runtime = w.runtime
            /\ x.number = w.number /\ x.mode = w.mode /\ x.fresh = w.fresh /\ x.out = w.out
        BY <1>2 DEF WorkerRow
      <3> HIDE DEF x
      <3>3. ASSUME Clean(dirs) PROVE ThreadSound(unit, dirs2, external, run[e], x)
        <4>1. TurnKnown(unit, dirs2, x)
          BY <2>5, <3>2, <3>3 DEF TurnKnown
        <4>2. AttemptSound(unit, external, x, dirs2[unit[x.turn].id].attempts)
          <5>1. /\ x.mode = "replay" => x.fresh = {}
                /\ IsSession(unit) => x.runtime.memory = x.state
                /\ BuiltFor(x)
                /\ x.pc = "mark" /\ next.attempts # <<>> /\ x.number = Len(next.attempts)
                /\ next.attempts[Len(next.attempts)].status = "succeeded"
                /\ x.out.after = next.attempts[Len(next.attempts)].after
                /\ dirs2[unit[x.turn].id].attempts = next.attempts
            BY <2>5, <2>7, <3>2, <3>3 DEF BuiltFor
          <5> HIDE DEF w, unit, dirs, external, file, id, i, d
          <5> QED BY <5>1 DEF AttemptSound, Dispatched
        <4> HIDE DEF w, unit, dirs, external, file, id, i, d
        <4> QED BY <3>2, <4>1, <4>2 DEF ThreadSound
      <3>4. run'[e] = run[e] /\ x.pc # "off"
        BY <3>1, <3>2
      <3> HIDE DEF w, unit, dirs, external, file, id, i, d
      <3> QED BY <1>1, <2>6, <3>1, <3>3, <3>4
    <2>8. CASE w.out.status # "succeeded"
      <3>1. AfterFailure(e, u)
        BY <2>1, <2>8
      <3> DEFINE final == ~w.out.retryable \/ w.number >= MaxAttempts
                 pc == IF final \/ run[e].stop THEN "done" ELSE "retry"
                 x == [work[e][u] EXCEPT !.runtime = NoRuntime, !.pc = pc]
      <3>2. SetWork(e, u, x) /\ IF final THEN Terminate(e, u) ELSE run' = run
        BY <3>1 DEF AfterFailure
      <3>3. /\ x.pc = pc /\ x.turn = i /\ x.state = w.state /\ x.runtime = NoRuntime
        <4> HIDE DEF pc
        <4> QED BY <1>2 DEF WorkerRow
      <3> HIDE DEF x
      <3>4. ASSUME NEW r, r.terminal # {} \/ ~final, r.stop = run[e].stop, Clean(dirs)
            PROVE  ThreadSound(unit, dirs2, external, r, x)
        <4>1. CASE final \/ run[e].stop
          <5>1. x.pc = "done" /\ (r.stop \/ r.terminal # {})
            BY <3>3, <3>4, <4>1
          <5> HIDE DEF w, unit, dirs, external, file, id, i, d, final, pc
          <5> QED BY <5>1 DEF ThreadSound, AtWork, Staged, Dispatched
        <4>2. CASE ~(final \/ run[e].stop)
          <5>1. x.pc = "retry" /\ Open(next.attempts) /\ dirs2[unit[i].id] = next
            BY <2>5, <2>8, <3>3, <3>4, <4>2
          <5>2. TurnKnown(unit, dirs2, x)
            BY <2>5, <3>3, <3>4, <5>1 DEF TurnKnown
          <5> HIDE DEF w, unit, dirs, external, file, id, i, d, final, pc
          <5> QED BY <3>3, <5>1, <5>2 DEF ThreadSound, AtWork, Staged, Dispatched
        <4> QED BY <4>1, <4>2
      <3>5. x.pc # "off"
        BY <3>3
      <3>6. CASE final
        <4> DEFINE r == [run[e] EXCEPT !.terminal = @ \cup {id}]
        <4>1. run' = [run EXCEPT ![e] = r]
          BY <1>3, <3>2, <3>6 DEF Terminate, SetRun
        <4>2. /\ r.terminal = run[e].terminal \cup {id} /\ r.pc = run[e].pc /\ r.result = run[e].result
              /\ r.mode = run[e].mode /\ r.stop = run[e].stop
          <5> HIDE DEF id
          <5> QED BY <1>2 DEF RunnerRow
        <4> HIDE DEF r
        <4>3. run'[e] = r /\ \A f \in Experiments : f # e => run'[f] = run[f]
          BY <1>2, <4>1
        <4>4. r.terminal # {} /\ r.pc = "on"
          BY <1>1, <4>2
        <4>5. Clean(dirs) => ThreadSound(unit, dirs2, external, r, x)
          BY <3>4, <4>2, <4>4
        <4>6. w.out.status # "succeeded" /\ (~w.out.retryable \/ w.number >= MaxAttempts)
          BY <2>8, <3>6
        <4> HIDE DEF w, unit, dirs, external, file, id, i, d, final, pc
        <4> QED BY <2>6, <3>2, <3>5, <4>2, <4>3, <4>4, <4>5, <4>6
      <3>7. CASE ~final
        <4>1. run' = run
          BY <3>2, <3>7
        <4>2. run'[e] = run[e] /\ \A f \in Experiments : f # e => run'[f] = run[f]
          BY <4>1
        <4>3. Clean(dirs) => ThreadSound(unit, dirs2, external, run[e], x)
          BY <3>4, <3>7
        <4> HIDE DEF w, unit, dirs, external, file, id, i, d, final, pc
        <4> QED BY <1>1, <2>6, <3>2, <3>5, <4>2, <4>3
      <3> QED BY <3>6, <3>7
    <2> QED BY <2>7, <2>8
  <1> QED BY <1>7, <1>8

-----------------------------------------------------------------------------
(* Markers.                                                                *)

\* The same attempts, and whatever was marked is.
SameFiles(unit, dirs, dirs2) ==
  \A j \in DOMAIN unit : /\ dirs2[unit[j].id].attempts = dirs[unit[j].id].attempts
                         /\ Marked(dirs[unit[j].id]) => Marked(dirs2[unit[j].id])

\* The turns of a unit when some of them are marked.
LEMMA TurnsMarked ==
  ASSUME NEW unit, Len(unit) \in Nat, DOMAIN unit = 1 .. Len(unit), NEW dirs, NEW dirs2,
         SameFiles(unit, dirs, dirs2),
         \A j \in DOMAIN unit : TurnSound(unit, dirs, j)
  PROVE  /\ \A j \in DOMAIN unit : TurnSound(unit, dirs2, j)
         /\ \A j \in 1 .. Len(unit) + 1 : StateIn(unit, dirs2, j) = StateIn(unit, dirs, j)
  <1>0. \A j \in DOMAIN unit : /\ dirs2[unit[j].id].attempts = dirs[unit[j].id].attempts
                               /\ Marked(dirs[unit[j].id]) => Marked(dirs2[unit[j].id])
    BY DEF SameFiles
  <1>1. ASSUME NEW j \in 1 .. Len(unit) + 1
        PROVE  StateIn(unit, dirs2, j) = StateIn(unit, dirs, j)
    <2>1. CASE j = 1
      <3>1. StateIn(unit, dirs, j) = InitialState(unit) /\ StateIn(unit, dirs2, j) = InitialState(unit)
        BY <2>1 DEF StateIn
      <3> QED BY <3>1
    <2>2. CASE j # 1
      <3>1. j - 1 \in DOMAIN unit
        BY <2>2
      <3>2. dirs2[unit[j - 1].id].attempts = dirs[unit[j - 1].id].attempts
        BY <1>0, <3>1
      <3> QED BY <2>2, <3>2 DEF StateIn
    <2> QED BY <2>1, <2>2
  <1>2. ASSUME NEW j \in DOMAIN unit PROVE TurnSound(unit, dirs2, j)
    <2>1. TurnSound(unit, dirs, j) /\ dirs2[unit[j].id].attempts = dirs[unit[j].id].attempts
      BY <1>0
    <2>2. StateIn(unit, dirs2, j) = StateIn(unit, dirs, j)
      <3>1. j \in 1 .. Len(unit) + 1
        OBVIOUS
      <3> QED BY <1>1, <3>1
    <2>3. \A h \in 1 .. j - 1 : Marked(dirs[unit[h].id]) => Marked(dirs2[unit[h].id])
      <3>1. \A h \in 1 .. j - 1 : h \in DOMAIN unit
        OBVIOUS
      <3> QED BY <1>0, <3>1
    <2> QED BY <2>1, <2>2, <2>3 DEF TurnSound
  <1> QED BY <1>1, <1>2

\* Nothing has been tried behind a turn that is not marked.
LEMMA NothingBehind ==
  ASSUME NEW unit, Len(unit) \in Nat, DOMAIN unit = 1 .. Len(unit), NEW dirs, NEW external,
         NEW i \in DOMAIN unit, NEW j \in DOMAIN unit, i < j, ~Marked(dirs[unit[i].id]),
         TurnSound(unit, dirs, j), DirSound(dirs[unit[j].id], external)
  PROVE  dirs[unit[j].id].attempts = <<>> /\ ~Marked(dirs[unit[j].id])
  <1>1. i \in 1 .. j - 1
    OBVIOUS
  <1>2. dirs[unit[j].id].attempts = <<>>
    BY <1>1 DEF TurnSound
  <1> QED BY <1>2 DEF DirSound

LEMMA NothingIsOpen == Open(<<>>)
  <1>1. Len(<<>>) = 0 /\ DOMAIN <<>> = {}
    OBVIOUS
  <1>2. 0 < MaxAttempts
    BY AttemptsBounded
  <1> QED BY <1>1, <1>2 DEF Open

\* The state a successful turn of a session leaves.
LEMMA SessionState ==
  ASSUME BaseInv, NEW e \in Existing, NEW u \in DOMAIN Units, NEW i \in DOMAIN Units[u],
         IsSession(Units[u]),
         NEW k \in DOMAIN exps[e].dirs[Units[u][i].id].attempts,
         exps[e].dirs[Units[u][i].id].attempts[k].status = "succeeded",
         TurnSound(Units[u], exps[e].dirs, i)
  PROVE  exps[e].dirs[Units[u][i].id].attempts[k].after \in Seq(Values)
  <1> DEFINE a == exps[e].dirs[Units[u][i].id].attempts
             file == a[k]
             before == StateIn(Units[u], exps[e].dirs, i)
  <1>1. a # <<>>
    OBVIOUS
  <1>2. FileSound(Units[u], before, file)
    BY <1>1 DEF TurnSound
  <1>3. file.asked = before /\ file.after = Append(before, file.vals[Generation])
    BY <1>2 DEF FileSound, AfterSuccess
  <1>4. file \in AttemptFile
    <2>1. scenario \in Scenarios /\ exps[e].dirs \in [CaseIds(scenario.dataset) -> CaseDir]
      BY SoundFiles
    <2>2. Units[u][i].id \in CaseIds(scenario.dataset)
      BY <2>1, UnitFacts
    <2>3. exps[e].dirs[Units[u][i].id] \in CaseDir
      BY <2>1, <2>2
    <2>4. a \in Seq(AttemptFile)
      BY <2>3 DEF CaseDir
    <2> HIDE DEF a
    <2>5. k \in DOMAIN a
      BY DEF a
    <2> QED BY <2>4, <2>5
  <1>5. file.asked \in Seq(Values) /\ file.vals \in Seq(Values)
    <2> HIDE DEF file
    <2> QED BY <1>4 DEF AttemptFile
  <1>6. Len(file.vals) = Len(Plan) /\ Len(Plan) >= 4 /\ Len(Plan) \in Nat
    <2>1. Len(file.vals) = Len(Plan)
      BY DEF BaseInv, RecordsOK
    <2>2. Len(Plan) >= 4
      BY SessionsAnswer
    <2>3. Len(Plan) \in Nat
      BY PlanFacts DEF BaseInv, RunnerTypeOK
    <2> QED BY <2>1, <2>2, <2>3
  <1> HIDE DEF file, before
  <1>7. file.vals[Generation] \in Values
    BY <1>5, <1>6 DEF Generation
  <1>8. Append(before, file.vals[Generation]) \in Seq(Values)
    BY <1>3, <1>5, <1>7
  <1> QED BY <1>3, <1>8 DEF file

\* A completion marker for the latest attempt.
LEMMA Completed ==
  ASSUME NEW d \in CaseDir, NEW number, MayMarkComplete(d, number)
  PROVE  LET next == MarkComplete(d, number) IN
         /\ next \in CaseDir /\ next.attempts = d.attempts
         /\ DirClean(next) <=> DirClean(d)
         /\ Marked(next)
         /\ ~Marked(d) => next.marker = MarkerFor(d.attempts, number)
  <1> DEFINE next == MarkComplete(d, number)
  <1>1. next \in CaseDir /\ next.attempts = d.attempts
    BY Marks DEF MayMarkComplete
  <1>2. CASE Marked(d)
    BY <1>1, <1>2 DEF MarkComplete, Marked
  <1>3. CASE ~Marked(d)
    <2> DEFINE marker == MarkerFor(d.attempts, number)
    <2>1. next = [d EXCEPT !.marker = marker]
      BY <1>3 DEF MarkComplete, Marked
    <2>2. next.marker = marker /\ next.junk = d.junk
      <3> HIDE DEF marker, next
      <3> QED BY <2>1 DEF CaseDir
    <2>3. marker.intact
      BY DEF MarkerFor
    <2>4. marker \in MarkerFile
      <3>1. d.attempts \in Seq(AttemptFile) /\ number \in DOMAIN d.attempts
        BY <1>3 DEF MayMarkComplete, CaseDir, Marked
      <3>2. number \in Nat /\ d.attempts[number] \in AttemptFile
        BY <3>1
      <3> QED BY <3>2 DEF MarkerFor, MarkerFile
    <2>5. Marked(next)
      <3> HIDE DEF marker, next
      <3> QED BY <2>2, <2>4, NothingIsNoFile DEF Marked, NoMarker
    <2>6. DirClean(next) <=> DirClean(d)
      <3> HIDE DEF marker, next
      <3> QED BY <1>1, <1>3, <2>2, <2>3 DEF DirClean
    <2> QED BY <1>1, <2>2, <2>5, <2>6
  <1> QED BY <1>2, <1>3

\* A marker binds the success of its case.
LEMMA MarkedSound ==
  ASSUME NEW d, NEW next, NEW external, NEW number, DirSound(d, external), ~Marked(d),
         d.attempts # <<>>, number = Len(d.attempts), d.attempts[number].status = "succeeded",
         next.attempts = d.attempts, next.marker = MarkerFor(d.attempts, number)
  PROVE  DirSound(next, external)
  BY DEF DirSound

\* What a thread takes along to its next turn.
LEMMA KeptServes ==
  ASSUME NEW e, NEW u, BuiltFor(work[e][u]), work[e][u].runtime \in Runtime,
         KeptRuntime(e, u) # NoRuntime
  PROVE  /\ KeptRuntime(e, u).mode = run[e].mode
         /\ work[e][u].out.after # NoState => KeptRuntime(e, u).memory = work[e][u].out.after
  <1> DEFINE w == work[e][u]
             memory == IF w.out.after = NoState THEN w.runtime.memory ELSE w.out.after
  <1>1. w.mode = run[e].mode /\ KeptRuntime(e, u) = [w.runtime EXCEPT !.memory = memory]
    BY DEF KeptRuntime
  <1>2. w.runtime.mode = w.mode
    BY DEF BuiltFor
  <1>3. w.out.after # NoState => memory = w.out.after
    OBVIOUS
  <1> HIDE DEF memory
  <1>4. [w.runtime EXCEPT !.memory = memory].mode = w.runtime.mode
        /\ [w.runtime EXCEPT !.memory = memory].memory = memory
    BY DEF Runtime
  <1> QED BY <1>1, <1>2, <1>3, <1>4

\* The unit of a thread that has marked its turn.
LEMMA UnitMarked ==
  ASSUME NEW unit, Len(unit) \in Nat, DOMAIN unit = 1 .. Len(unit), NEW dirs, NEW dirs2,
         NEW external, NEW r, NEW r2, NEW i \in DOMAIN unit,
         \A j \in DOMAIN unit : j # i => dirs2[unit[j].id] = dirs[unit[j].id],
         \A j \in DOMAIN unit : TurnSound(unit, dirs, j),
         \A j \in DOMAIN unit : DirSound(dirs[unit[j].id], external),
         \A j \in 1 .. i - 1 : Marked(dirs[unit[j].id]),
         ~Marked(dirs[unit[i].id]), Marked(dirs2[unit[i].id]),
         dirs2[unit[i].id].attempts = dirs[unit[i].id].attempts,
         NEW x, x.pc = "turn", x.turn = i + 1,
         x.state = dirs[unit[i].id].attempts[Len(dirs[unit[i].id].attempts)].after,
         IsSession(unit) => x.state \in Seq(Values),
         x.runtime # NoRuntime =>
            x.runtime.mode = r2.mode /\ (x.state # NoState => x.runtime.memory = x.state)
  PROVE  UnitSound(unit, dirs2, external, r2, x)
  <1>1. /\ \A j \in DOMAIN unit : TurnSound(unit, dirs2, j)
        /\ \A j \in 1 .. Len(unit) + 1 : StateIn(unit, dirs2, j) = StateIn(unit, dirs, j)
    <2>1. SameFiles(unit, dirs, dirs2)
      BY DEF SameFiles
    <2> QED BY <2>1, TurnsMarked
  <1>2. \A j \in 1 .. x.turn - 1 : Marked(dirs2[unit[j].id])
    <2>1. ASSUME NEW j \in 1 .. i PROVE Marked(dirs2[unit[j].id])
      <3>1. CASE j = i
        BY <3>1
      <3>2. CASE j # i
        <4>1. j \in 1 .. i - 1 /\ j \in DOMAIN unit
          BY <3>2
        <4> QED BY <3>2, <4>1
      <3> QED BY <3>1, <3>2
    <2>2. x.turn - 1 = i
      OBVIOUS
    <2> QED BY <2>1, <2>2
  <1>3. x.state = StateIn(unit, dirs2, x.turn)
    <2>1. i + 1 \in 1 .. Len(unit) + 1 /\ i + 1 # 1 /\ (i + 1) - 1 = i
      OBVIOUS
    <2>2. StateIn(unit, dirs, i + 1) = x.state
      BY <2>1 DEF StateIn
    <2> QED BY <1>1, <2>1, <2>2
  <1>4. x.turn <= Len(unit) =>
          /\ dirs2[unit[x.turn].id].attempts = <<>> /\ ~Marked(dirs2[unit[x.turn].id])
    <2>1. SUFFICES ASSUME x.turn <= Len(unit)
                   PROVE  dirs2[unit[x.turn].id].attempts = <<>> /\ ~Marked(dirs2[unit[x.turn].id])
      OBVIOUS
    <2>2. x.turn \in DOMAIN unit /\ i < x.turn
      BY <2>1
    <2>3. dirs[unit[x.turn].id].attempts = <<>> /\ ~Marked(dirs[unit[x.turn].id])
      BY <2>2, NothingBehind
    <2> QED BY <2>2, <2>3
  <1>5. IsSession(unit) => x.state # NoState
    BY NothingIsNoFile DEF NoState
  <1>6. TurnKnown(unit, dirs2, x)
    BY <1>2, <1>3, <1>4, NothingIsOpen DEF TurnKnown
  <1>7. ThreadSound(unit, dirs2, external, r2, x)
    BY <1>4, <1>5, <1>6 DEF ThreadSound, AtWork, Staged, Dispatched
  <1> QED BY <1>1, <1>7 DEF UnitSound

LEMMA MarkCaseSound ==
  ASSUME SoundInv, BaseInv', NEW e \in Experiments, NEW u \in DOMAIN Units, MarkCase(e, u)
  PROVE  SoundInv'
  <1> DEFINE w == work[e][u]
             i == w.turn
             unit == Units[u]
             id == unit[i].id
             dirs == exps[e].dirs
             d == dirs[id]
             external == exps[e].manifest.external
             next == MarkComplete(d, w.number)
             kept == KeptRuntime(e, u)
             stop == run[e].stop \/ (run[e].after > 0 /\ run[e].completed + 1 >= run[e].after)
             r == [run[e] EXCEPT !.completed = @ + 1, !.stop = stop]
             x == [work[e][u] EXCEPT !.pc = "turn", !.turn = @ + 1,
                                     !.state = w.out.after, !.runtime = kept]
  <1>1. run[e].pc = "on" /\ w.pc = "mark" /\ UNCHANGED <<scenario, code, budget, cache>>
    BY DEF MarkCase, At
  <1>2. /\ e \in Existing /\ scenario \in Scenarios /\ BaseInv /\ RunnerTypeOK
        /\ w \in WorkerRow /\ ThreadOK(e, u, w) /\ run \in [Experiments -> RunnerRow]
        /\ run[e] \in RunnerRow
    BY <1>1 DEF SoundInv, BaseInv, RunnerTypeOK, ThreadsOK
  <1>3. /\ i \in DOMAIN unit /\ Len(unit) \in Nat /\ DOMAIN unit = 1 .. Len(unit)
        /\ id \in CaseIds(scenario.dataset) /\ CurrentCase(e, u).id = id
        /\ w.runtime \in Runtime
        /\ dirs \in [CaseIds(scenario.dataset) -> CaseDir] /\ d \in CaseDir
    <2>1. i \in DOMAIN unit /\ w.runtime \in Runtime
      BY <1>1, <1>2 DEF ThreadOK, AtWork
    <2>2. dirs \in [CaseIds(scenario.dataset) -> CaseDir]
      BY <1>2, SoundFiles
    <2> QED BY <1>2, <2>1, <2>2, UnitFacts DEF CurrentCase
  <1>4. ASSUME Clean(dirs)
        PROVE  /\ HistoryReads(d) /\ d.attempts \in Seq(AttemptFile)
               /\ UnitSound(unit, dirs, external, run[e], w)
               /\ \A o \in CaseIds(scenario.dataset) : DirSound(dirs[o], external)
               /\ ~Marked(d) /\ d.attempts # <<>> /\ w.number = Len(d.attempts)
               /\ d.attempts[w.number].status = "succeeded"
               /\ w.out.after = d.attempts[w.number].after
               /\ BuiltFor(w) /\ \A j \in 1 .. i - 1 : Marked(dirs[unit[j].id])
    <2>1. HistoryReads(d) /\ d.attempts \in Seq(AttemptFile)
          /\ \A o \in CaseIds(scenario.dataset) : DirSound(dirs[o], external)
      BY <1>2, <1>3, <1>4, FilesReadBack
    <2>2. UnitSound(unit, dirs, external, run[e], w)
      BY <1>2, <1>4 DEF SoundInv, Sound, ExpSound
    <2>3. ThreadSound(unit, dirs, external, run[e], w)
      BY <2>2 DEF UnitSound
    <2>4. TurnKnown(unit, dirs, w) /\ AttemptSound(unit, external, w, d.attempts)
      BY <1>1, <2>3 DEF ThreadSound, AtWork
    <2>5. i <= Len(unit)
      BY <1>3
    <2>6. /\ d.attempts # <<>> /\ w.number = Len(d.attempts)
          /\ d.attempts[w.number].status = "succeeded"
          /\ w.out.after = d.attempts[w.number].after /\ BuiltFor(w)
      BY <1>1, <2>4 DEF AttemptSound
    <2>7. ~Marked(d) /\ \A j \in 1 .. i - 1 : Marked(dirs[unit[j].id])
      BY <2>4, <2>5 DEF TurnKnown
    <2> HIDE DEF w, unit, dirs, external, id, i, d
    <2> QED BY <2>1, <2>2, <2>6, <2>7
  <1>5. CASE ~MayMarkComplete(d, w.number)
    <2>1. Goto(e, u, "raised") /\ UNCHANGED <<exps, run>>
      BY <1>3, <1>5 DEF MarkCase
    <2>2. ASSUME Clean(dirs) PROVE FALSE
      <3>1. /\ HistoryReads(d) /\ d.attempts \in Seq(AttemptFile) /\ ~Marked(d)
            /\ d.attempts # <<>> /\ w.number = Len(d.attempts)
            /\ d.attempts[w.number].status = "succeeded"
        BY <1>4, <2>2
      <3>2. w.number \in DOMAIN d.attempts /\ w.number = Cardinality(DOMAIN d.attempts)
        BY <3>1, CountIsLen
      <3> QED BY <1>5, <3>1, <3>2 DEF MayMarkComplete, Marked
    <2> QED BY <1>1, <1>2, <2>1, <2>2, RaisesUnclean
  <1>6. CASE MayMarkComplete(d, w.number)
    <2>1. SetDir(e, id, next) /\ SetWork(e, u, x) /\ SetRun(e, r)
      BY <1>3, <1>6 DEF MarkCase
    <2>2. /\ next \in CaseDir /\ next.attempts = d.attempts
          /\ DirClean(next) <=> DirClean(d)
          /\ Marked(next)
          /\ ~Marked(d) => next.marker = MarkerFor(d.attempts, w.number)
      BY <1>3, <1>6, Completed
    <2>3. /\ r.pc = "on" /\ r.result = run[e].result /\ r.mode = run[e].mode
          /\ r.terminal = run[e].terminal /\ (run[e].stop => r.stop)
      <3>1. r.stop = stop
        <4> HIDE DEF stop
        <4> QED BY <1>2 DEF RunnerRow
      <3>2. run[e].stop => stop
        OBVIOUS
      <3> HIDE DEF stop
      <3> QED BY <1>1, <1>2, <3>1, <3>2 DEF RunnerRow
    <2>4. run'[e] = r /\ \A f \in Experiments : f # e => run'[f] = run[f]
      <3> HIDE DEF r
      <3> QED BY <1>2, <2>1 DEF SetRun
    <2>5. /\ x.pc = "turn" /\ x.turn = i + 1 /\ x.state = w.out.after /\ x.runtime = kept
      <3> HIDE DEF kept
      <3> QED BY <1>2 DEF WorkerRow
    <2> HIDE DEF next, r, x, kept
    <2>6. /\ exps'[e].dirs[id] = next
          /\ \A j \in DOMAIN unit : j # i => exps'[e].dirs[unit[j].id] = dirs[unit[j].id]
      <3>1. /\ exps'[e].dirs[id] = next
            /\ \A other \in CaseIds(scenario.dataset) : other # id => exps'[e].dirs[other] = dirs[other]
        <4> HIDE DEF id
        <4> QED BY <1>2, <1>3, <2>1, <2>2, DirSet
      <3>2. \A j \in DOMAIN unit : j # i => unit[j].id # id /\ unit[j].id \in CaseIds(scenario.dataset)
        BY <1>2, <1>3, TurnsApart, UnitFacts
      <3> QED BY <3>1, <3>2
    <2>7. PICK dirs2 : dirs2 = exps'[e].dirs
      OBVIOUS
    <2>8. ASSUME Clean(dirs)
          PROVE  DirSound(next, external) /\ UnitSound(unit, dirs2, external, r, x)
                 /\ (id \in run[e].terminal => Hopeless(next.attempts))
      <3>1. DirSound(next, external)
        <4>1. DirSound(d, external)
          BY <1>3, <1>4, <2>8
        <4> HIDE DEF w, unit, dirs, external, id, i, d
        <4> QED BY <1>4, <2>2, <2>8, <4>1, MarkedSound
      <3>2. id \in run[e].terminal => Hopeless(next.attempts)
        BY <1>2, <2>2, <2>8 DEF SoundInv, Sound, ExpSound, RunSound
      <3>3. IsSession(unit) => x.state \in Seq(Values)
        <4>1. SUFFICES ASSUME IsSession(unit) PROVE x.state \in Seq(Values)
          OBVIOUS
        <4>2. w.number \in DOMAIN d.attempts
          BY <1>4, <2>8, CountIsLen
        <4>3. TurnSound(unit, dirs, i)
          BY <1>3, <1>4, <2>8 DEF UnitSound
        <4>4. d.attempts[w.number].after \in Seq(Values)
          BY <1>2, <1>3, <1>4, <2>8, <4>1, <4>2, <4>3, SessionState
        <4> QED BY <1>4, <2>5, <2>8, <4>4
      <3>4. x.runtime # NoRuntime =>
              x.runtime.mode = r.mode /\ (x.state # NoState => x.runtime.memory = x.state)
        <4>1. BuiltFor(w) /\ w.runtime \in Runtime
          BY <1>3, <1>4, <2>8
        <4>2. kept # NoRuntime => kept.mode = run[e].mode /\ (w.out.after # NoState => kept.memory = w.out.after)
          BY <4>1, KeptServes DEF kept
        <4> HIDE DEF w
        <4> QED BY <2>3, <2>5, <4>2
      <3>5. /\ \A j \in DOMAIN unit : j # i => dirs2[unit[j].id] = dirs[unit[j].id]
            /\ dirs2[unit[i].id] = next /\ d = dirs[unit[i].id]
        BY <2>6, <2>7
      <3>6. \A j \in DOMAIN unit : TurnSound(unit, dirs, j) /\ DirSound(dirs[unit[j].id], external)
        <4>1. \A j \in DOMAIN unit : unit[j].id \in CaseIds(scenario.dataset)
          BY <1>2, UnitFacts
        <4> QED BY <1>4, <2>8, <4>1 DEF UnitSound
      <3>7. /\ ~Marked(d) /\ Marked(next) /\ next.attempts = d.attempts
            /\ \A j \in 1 .. i - 1 : Marked(dirs[unit[j].id])
            /\ x.state = d.attempts[Len(d.attempts)].after
        BY <1>4, <2>2, <2>5, <2>8
      <3>8. UnitSound(unit, dirs2, external, r, x)
        <4> HIDE DEF w, unit, dirs, external, id, i, d
        <4> QED BY <1>3, <2>5, <3>3, <3>4, <3>5, <3>6, <3>7, UnitMarked
      <3> QED BY <3>1, <3>2, <3>8
    <2>9. /\ Clean(exps[e].dirs) =>
                   /\ DirSound(next, exps[e].manifest.external)
                   /\ r.mode = run[e].mode /\ (run[e].stop => r.stop)
                   /\ run[e].terminal \subseteq r.terminal
                   /\ \A t \in r.terminal : t \in run[e].terminal \/ t = Units[u][i].id
                   /\ Units[u][i].id \in r.terminal => Hopeless(next.attempts)
                   /\ UnitSound(Units[u], exps'[e].dirs, exps[e].manifest.external, r, x)
          /\ i \in DOMAIN Units[u] /\ SetDir(e, Units[u][i].id, next)
          /\ DirClean(next) <=> DirClean(exps[e].dirs[Units[u][i].id])
      BY <1>3, <2>1, <2>2, <2>3, <2>7, <2>8
    <2>10. Len(next.attempts) <= MaxAttempts
      BY <1>2, <1>3, <2>2 DEF SoundInv, FilesCounted
    <2>11. /\ e \in Existing /\ run[e].pc = "on" /\ UNCHANGED <<scenario, budget>>
           /\ next \in CaseDir /\ x.pc # "off"
      BY <1>1, <1>2, <2>2, <2>5
    <2> HIDE DEF w, unit, dirs, external, id, i, d
    <2> QED BY <2>1, <2>3, <2>4, <2>9, <2>10, <2>11, DirGoesOn
  <1> QED BY <1>5, <1>6

-----------------------------------------------------------------------------
(* Reading directories back, and the runner's own steps.                   *)

LEMMA CategoryOf ==
  ASSUME NEW d \in CaseDir, DirClean(d), NEW external, DirSound(d, external),
         Len(d.attempts) <= MaxAttempts
  PROVE  /\ Category(d) # "corrupt"
         /\ Marked(d) <=> Category(d) = "succeeded"
         /\ Marked(d) => CompletedReads(d)
         /\ Category(d) = "exhausted" => Hopeless(d.attempts)
  <1> DEFINE a == d.attempts
  <1>1. HistoryReads(d) /\ a \in Seq(AttemptFile)
    BY ReadsBack DEF CaseDir
  <1>2. /\ Len(a) \in Nat /\ DOMAIN a = 1 .. Len(a) /\ Cardinality(DOMAIN a) = Len(a)
        /\ \A k \in DOMAIN a : a[k] \in AttemptFile
        /\ a # <<>> => Len(a) \in DOMAIN a
    BY <1>1, CountIsLen
  <1>3. CASE Marked(d)
    <2>1. d.marker = MarkerFor(a, Len(a)) /\ a # <<>> /\ a[Len(a)].status = "succeeded" /\ d.marker.intact
      BY <1>3 DEF DirSound, DirClean
    <2>2. d.marker.number = Len(a) /\ d.marker.bound = a[Len(a)]
      BY <2>1 DEF MarkerFor
    <2>3. CompletedReads(d)
      BY <1>1, <1>2, <1>3, <2>1, <2>2 DEF CompletedReads, MarkerReads, Marked
    <2>4. Category(d) = "succeeded"
      BY <1>3, <2>3 DEF Category, Marked
    <2>5. Category(d) # "corrupt" /\ Category(d) # "exhausted"
      BY <2>4
    <2> QED BY <1>3, <2>3, <2>4, <2>5
  <1>4. CASE ~Marked(d)
    <2>0. d.marker = NoMarker
      BY <1>4 DEF Marked
    <2>1. CASE DOMAIN a = {}
      <3>1. DOMAIN d.attempts = {} /\ Succeeded(d.attempts) = {}
        BY <2>1 DEF Succeeded
      <3>2. Category(d) = "not_run"
        BY <1>1, <2>0, <3>1 DEF Category
      <3> QED BY <1>4, <3>2
    <2>2. CASE DOMAIN a # {} /\ Succeeded(a) # {}
      <3>1. Category(d) = "missing"
        BY <1>1, <2>0, <2>2 DEF Category
      <3> QED BY <1>4, <3>1
    <2>3. CASE DOMAIN a # {} /\ Succeeded(a) = {} /\ Cardinality(DOMAIN a) >= MaxAttempts
      <3>1. Category(d) = "exhausted"
        BY <1>1, <2>0, <2>3 DEF Category
      <3>2. Hopeless(a)
        BY <1>2, <2>3 DEF Hopeless, CannotGoOn
      <3> QED BY <1>4, <3>1, <3>2
    <2>4. CASE DOMAIN a # {} /\ Succeeded(a) = {} /\ ~(Cardinality(DOMAIN a) >= MaxAttempts)
      <3>1. Category(d) = LatestAttempt(a).status
        BY <1>1, <2>0, <2>4 DEF Category
      <3>2. Len(a) \in DOMAIN a
        <4>1. a # <<>>
          BY <2>4
        <4> QED BY <1>2, <4>1
      <3>3. LatestAttempt(a) = a[Len(a)]
        BY <1>2 DEF LatestAttempt
      <3>4. LatestAttempt(a).status \in AttemptStatuses /\ LatestAttempt(a).status # "succeeded"
        BY <1>2, <2>4, <3>2, <3>3 DEF AttemptFile, Succeeded
      <3> QED BY <1>4, <3>1, <3>4 DEF AttemptStatuses
    <2> QED BY <2>1, <2>2, <2>3, <2>4
  <1> QED BY <1>3, <1>4

LEMMA CorruptIfUnclean ==
  ASSUME NEW d, ~DirClean(d)
  PROVE  Category(d) = "corrupt"
  <1>1. CASE Marked(d)
    <2>1. ~CompletedReads(d)
      BY <1>1 DEF DirClean, CompletedReads, MarkerReads, HistoryReads, AttemptReads
    <2> QED BY <1>1, <2>1 DEF Category, Marked
  <1>2. CASE ~Marked(d)
    <2>1. ~HistoryReads(d)
      BY <1>2 DEF DirClean, HistoryReads, AttemptReads
    <2> QED BY <1>2, <2>1 DEF Category, Marked
  <1> QED BY <1>1, <1>2

LEMMA ScanReads ==
  ASSUME SoundInv, NEW e \in Existing
  PROVE  /\ ScanIsCorrupt(exps[e].dirs) <=> ~Clean(exps[e].dirs)
         /\ Clean(exps[e].dirs) =>
              \A id \in DOMAIN exps[e].dirs :
                 LET d == exps[e].dirs[id] IN
                 /\ Marked(d) <=> Category(d) = "succeeded"
                 /\ Marked(d) => CompletedReads(d)
                 /\ Category(d) = "exhausted" => Hopeless(d.attempts)
  <1> DEFINE dirs == exps[e].dirs
  <1>1. DOMAIN dirs = CaseIds(scenario.dataset)
    BY SoundFiles DEF SoundInv
  <1>2. ASSUME Clean(dirs), NEW id \in DOMAIN dirs
        PROVE  /\ Category(dirs[id]) # "corrupt"
               /\ Marked(dirs[id]) <=> Category(dirs[id]) = "succeeded"
               /\ Marked(dirs[id]) => CompletedReads(dirs[id])
               /\ Category(dirs[id]) = "exhausted" => Hopeless(dirs[id].attempts)
    <2>1. /\ dirs[id] \in CaseDir /\ DirClean(dirs[id]) /\ DirSound(dirs[id], exps[e].manifest.external)
          /\ Len(dirs[id].attempts) <= MaxAttempts
      BY <1>1, <1>2, FilesReadBack
    <2> HIDE DEF dirs
    <2> QED BY <2>1, CategoryOf
  <1>3. ~Clean(dirs) => ScanIsCorrupt(dirs)
    BY CorruptIfUnclean DEF Clean, ScanIsCorrupt
  <1>4. Clean(dirs) => ~ScanIsCorrupt(dirs)
    BY <1>2 DEF ScanIsCorrupt
  <1> QED BY <1>2, <1>3, <1>4

-----------------------------------------------------------------------------
(* The runner.                                                             *)

LEMMA RunnerGoesOn ==
  ASSUME SoundInv, BaseInv', NEW e \in Existing, UNCHANGED <<scenario, exps>>,
         budget' = budget \/ \E what : Spend(what),
         \A f \in Experiments : f # e => run'[f] = run[f] /\ work'[f] = work[f],
         run'[e].result # "partial",
         Clean(exps[e].dirs) =>
            /\ \A u \in DOMAIN Units :
                 UnitSound(Units[u], exps[e].dirs, exps[e].manifest.external, run'[e], work'[e][u])
            /\ RunSound(Units, exps[e].dirs, run'[e], work'[e])
  PROVE  SoundInv'
  <1>0. e \in Experiments /\ Existing' = Existing
    BY SoundFiles DEF SoundInv, Existing
  <1>1. Clean(exps[e].dirs) =>
          \A id \in DOMAIN exps[e].dirs : DirSound(exps[e].dirs[id], exps[e].manifest.external)
    BY DEF SoundInv, Sound, ExpSound
  <1>2. ExpSound(Units, exps'[e].dirs, exps'[e].manifest.external, run'[e], work'[e])
    BY <1>1 DEF ExpSound
  <1>3. DamagesCounted'
    BY <1>0, DamagesStay
  <1>4. \A id \in DOMAIN exps'[e].dirs : Len(exps'[e].dirs[id].attempts) <= MaxAttempts
    BY DEF SoundInv, FilesCounted
  <1> QED BY <1>0, <1>2, <1>3, <1>4, SoundMoves

\* What the threads of an experiment say goes for a run that lasts.
LEMMA UnitsCarry ==
  ASSUME SoundInv, NEW e \in Existing, Clean(exps[e].dirs), NEW r, r.mode = run[e].mode,
         run[e].stop => r.stop, run[e].terminal # {} => r.terminal # {}, NEW u \in DOMAIN Units
  PROVE  UnitSound(Units[u], exps[e].dirs, exps[e].manifest.external, r, work[e][u])
  <1>1. UnitSound(Units[u], exps[e].dirs, exps[e].manifest.external, run[e], work[e][u])
    BY DEF SoundInv, Sound, ExpSound
  <1>2. Stands(Units[u], work[e][u])
    BY ThreadsStand DEF SoundInv
  <1>3. Len(Units[u]) \in Nat /\ DOMAIN Units[u] = 1 .. Len(Units[u])
    BY UnitFacts DEF SoundInv, BaseInv, RunnerTypeOK
  <1>4. \A i \in DOMAIN Units[u] : exps[e].dirs[Units[u][i].id] = exps[e].dirs[Units[u][i].id]
    OBVIOUS
  <1> QED BY <1>1, <1>2, <1>3, <1>4, UnitCarries

\* A thread that is not there is as it must be.
LEMMA UnitRests ==
  ASSUME SoundInv, NEW e \in Existing, Clean(exps[e].dirs), NEW r, NEW w, w.pc = "off",
         NEW u \in DOMAIN Units
  PROVE  UnitSound(Units[u], exps[e].dirs, exps[e].manifest.external, r, w)
  <1>1. \A i \in DOMAIN Units[u] : TurnSound(Units[u], exps[e].dirs, i)
    BY DEF SoundInv, Sound, ExpSound, UnitSound
  <1>2. ThreadSound(Units[u], exps[e].dirs, exps[e].manifest.external, r, w)
    BY DEF ThreadSound, AtWork, Staged, Dispatched
  <1> QED BY <1>1, <1>2 DEF UnitSound

LEMMA ScanSound ==
  ASSUME SoundInv, BaseInv', NEW e \in Experiments, ScanDirectory(e)
  PROVE  SoundInv'
  <1>1. /\ run[e].pc = "start" /\ UNCHANGED <<scenario, code, budget, exps, cache, work>>
        /\ SetRun(e, IF ScanIsCorrupt(exps[e].dirs)
                     THEN [run[e] EXCEPT !.pc = "off", !.result = "blocked"]
                     ELSE [run[e] EXCEPT !.pc = "plan", !.unit = 1])
    BY DEF ScanDirectory
  <1>2. /\ e \in Existing /\ run \in [Experiments -> RunnerRow] /\ run[e] \in RunnerRow
        /\ \A u \in DOMAIN Units : work[e][u].pc = "off"
    BY <1>1 DEF SoundInv, BaseInv, RunnerTypeOK
  <1>3. PICK r : r = run'[e]
    OBVIOUS
  <1>4. \A f \in Experiments : f # e => run'[f] = run[f]
    BY <1>1, <1>2 DEF SetRun
  <1>5. CASE ScanIsCorrupt(exps[e].dirs)
    <2>1. run'[e].result = "blocked"
      BY <1>1, <1>2, <1>5 DEF SetRun, RunnerRow
    <2>2. ~Clean(exps[e].dirs)
      BY <1>2, <1>5, ScanReads
    <2> QED BY <1>1, <1>2, <1>4, <2>1, <2>2, RunnerGoesOn
  <1>6. CASE ~ScanIsCorrupt(exps[e].dirs)
    <2>1. /\ run'[e].pc = "plan" /\ run'[e].unit = 1 /\ run'[e].result = run[e].result
          /\ run'[e].mode = run[e].mode /\ run'[e].stop = run[e].stop
          /\ run'[e].terminal = run[e].terminal
      BY <1>1, <1>2, <1>6 DEF SetRun, RunnerRow
    <2>2. ASSUME Clean(exps[e].dirs)
          PROVE  /\ \A u \in DOMAIN Units :
                      UnitSound(Units[u], exps[e].dirs, exps[e].manifest.external, run'[e], work'[e][u])
                 /\ RunSound(Units, exps[e].dirs, run'[e], work'[e])
      <3>1. \A u \in DOMAIN Units :
              UnitSound(Units[u], exps[e].dirs, exps[e].manifest.external, r, work[e][u])
        BY <1>2, <2>2, UnitRests
      <3>2. RunSound(Units, exps[e].dirs, run[e], work[e])
        BY <1>2, <2>2 DEF SoundInv, Sound, ExpSound
      <3>3. DOMAIN Units \subseteq Nat \ {0}
        BY UnitsAreCases DEF SoundInv, BaseInv, RunnerTypeOK
      <3>4. RunSound(Units, exps[e].dirs, run'[e], work[e])
        BY <1>1, <1>2, <2>1, <3>2, <3>3 DEF RunSound, UnitSettled, Planned
      <3> QED BY <1>1, <1>3, <3>1, <3>4
    <2>3. run'[e].result # "partial"
      BY <1>2, <2>1 DEF SoundInv, ResultsKnown
    <2> QED BY <1>1, <1>2, <1>4, <2>2, <2>3, RunnerGoesOn
  <1> QED BY <1>5, <1>6

LEMMA StartThreadsSound ==
  ASSUME SoundInv, BaseInv', NEW e \in Experiments, StartThreads(e)
  PROVE  SoundInv'
  <1>1. /\ run[e].pc = "plan" /\ run[e].unit > Len(Units)
        /\ UNCHANGED <<scenario, code, budget, exps, cache, work>>
        /\ SetRun(e, [run[e] EXCEPT !.pc = "on"])
    BY DEF StartThreads
  <1>2. e \in Existing /\ run \in [Experiments -> RunnerRow] /\ run[e] \in RunnerRow
    BY <1>1 DEF SoundInv, BaseInv, RunnerTypeOK
  <1>3. PICK r : r = run'[e]
    OBVIOUS
  <1>4. \A f \in Experiments : f # e => run'[f] = run[f]
    BY <1>1, <1>2 DEF SetRun
  <1>5. /\ run'[e].pc = "on" /\ run'[e].unit = run[e].unit /\ run'[e].result = run[e].result
        /\ run'[e].mode = run[e].mode /\ run'[e].stop = run[e].stop
        /\ run'[e].terminal = run[e].terminal
    BY <1>1, <1>2 DEF SetRun, RunnerRow
  <1>6. ASSUME Clean(exps[e].dirs)
        PROVE  /\ \A u \in DOMAIN Units :
                    UnitSound(Units[u], exps[e].dirs, exps[e].manifest.external, run'[e], work'[e][u])
               /\ RunSound(Units, exps[e].dirs, run'[e], work'[e])
    <2>1. \A u \in DOMAIN Units :
            UnitSound(Units[u], exps[e].dirs, exps[e].manifest.external, r, work[e][u])
      BY <1>2, <1>3, <1>5, <1>6, UnitsCarry
    <2>2. RunSound(Units, exps[e].dirs, run[e], work[e])
      BY <1>2, <1>6 DEF SoundInv, Sound, ExpSound
    <2>3. \A u \in DOMAIN Units : u < run[e].unit
      <3>1. Len(Units) \in Nat /\ DOMAIN Units = 1 .. Len(Units)
        BY UnitsAreCases DEF SoundInv, BaseInv, RunnerTypeOK
      <3>2. run[e].unit \in Nat
        BY <1>2 DEF RunnerRow
      <3> QED BY <1>1, <3>1, <3>2
    <2>4. RunSound(Units, exps[e].dirs, run'[e], work[e])
      BY <1>1, <1>5, <2>2, <2>3 DEF RunSound, UnitSettled, Planned
    <2> QED BY <1>1, <1>3, <2>1, <2>4
  <1>7. run'[e].result # "partial"
    BY <1>2, <1>5 DEF SoundInv, ResultsKnown
  <1> QED BY <1>1, <1>2, <1>4, <1>6, <1>7, RunnerGoesOn

-----------------------------------------------------------------------------
(* The end of a run, a crash, a stop and the calls.                        *)

LEMMA EveryCaseHasAUnit ==
  ASSUME scenario \in Scenarios, NEW dirs, NEW id \in CaseIds(scenario.dataset),
         \A u \in DOMAIN Units : AllMarked(Units[u], dirs)
  PROVE  Marked(dirs[id])
  <1>1. PICK p \in DOMAIN scenario.dataset : scenario.dataset[p].id = id
    BY DEF CaseIds
  <1>2. PICK u \in DOMAIN Units : \E i \in DOMAIN Units[u] : p = Spot(u, i)
    BY UnitsAreCases
  <1>3. PICK i \in DOMAIN Units[u] : p = Spot(u, i)
    BY <1>2
  <1>4. Units[u][i] = scenario.dataset[p]
    BY <1>3, UnitsAreCases
  <1>5. Marked(dirs[Units[u][i].id])
    BY DEF AllMarked
  <1> QED BY <1>1, <1>4, <1>5

\* A run that is over: its threads are gone.
LEMMA RunIsOver ==
  ASSUME SoundInv, BaseInv', NEW e \in Existing, UNCHANGED <<scenario, exps>>,
         budget' = budget \/ \E what : Spend(what), NEW r, SetRun(e, r), StopWork(e),
         r.pc = "off", r.result # "partial",
         Clean(exps[e].dirs) =>
            /\ \A id \in r.terminal : id \in DOMAIN exps[e].dirs /\ Hopeless(exps[e].dirs[id].attempts)
            /\ ResultSound(exps[e].dirs, r.result)
  PROVE  SoundInv'
  <1>1. /\ e \in Experiments /\ run'[e] = r
        /\ \A f \in Experiments : f # e => run'[f] = run[f] /\ work'[f] = work[f]
        /\ \A u \in DOMAIN Units : work'[e][u] = IdleWorker
    BY SoundFiles DEF SetRun, StopWork, SoundInv, BaseInv, RunnerTypeOK
  <1>2. ASSUME Clean(exps[e].dirs)
        PROVE  /\ \A u \in DOMAIN Units :
                    UnitSound(Units[u], exps[e].dirs, exps[e].manifest.external, run'[e], work'[e][u])
               /\ RunSound(Units, exps[e].dirs, run'[e], work'[e])
    <2>1. \A u \in DOMAIN Units :
            UnitSound(Units[u], exps[e].dirs, exps[e].manifest.external, r, IdleWorker)
      BY <1>2, UnitRests, IdleRows
    <2>2. RunSound(Units, exps[e].dirs, r, work'[e])
      BY <1>2 DEF RunSound, UnitSettled, Planned
    <2> QED BY <1>1, <2>1, <2>2
  <1> QED BY <1>1, <1>2, RunnerGoesOn

\* What a run without damaged directories reports.
LEMMA SummarySound ==
  ASSUME SoundInv, NEW e \in Existing, run[e].pc = "on", Clean(exps[e].dirs),
         \A u \in DOMAIN Units : work[e][u].pc \in {"off", "done"}
  PROVE  ResultSound(exps[e].dirs, Summary(e)) /\ Summary(e) # "partial"
  <1> DEFINE dirs == exps[e].dirs
  <1>1. /\ scenario \in Scenarios /\ DOMAIN dirs = CaseIds(scenario.dataset)
        /\ RunSound(Units, dirs, run[e], work[e])
    BY SoundFiles DEF SoundInv, Sound, ExpSound
  <1>2. /\ ~ScanIsCorrupt(dirs)
        /\ \A id \in DOMAIN dirs : /\ Marked(dirs[id]) <=> Category(dirs[id]) = "succeeded"
                                   /\ Category(dirs[id]) = "exhausted" => Hopeless(dirs[id].attempts)
    BY ScanReads
  <1>4. ASSUME ~run[e].stop, run[e].terminal = {}
        PROVE  \A id \in DOMAIN dirs : Marked(dirs[id])
    <2>1. ASSUME NEW u \in DOMAIN Units PROVE AllMarked(Units[u], dirs)
      <3>1. CASE work[e][u].pc = "done"
        BY <1>4, <3>1, SoundThread DEF ThreadSound
      <3>2. CASE work[e][u].pc = "off"
        BY <1>1, <1>4, <3>2 DEF RunSound, UnitSettled, Planned
      <3> QED BY <3>1, <3>2
    <2> QED BY <1>1, <2>1, EveryCaseHasAUnit
  <1>5. run[e].terminal # {} => \E id \in DOMAIN dirs : Hopeless(dirs[id].attempts)
    BY <1>1 DEF RunSound
  <1> HIDE DEF dirs
  <1>6. CASE \A id \in DOMAIN dirs : Marked(dirs[id])
    <2>1. Summary(e) = "succeeded"
      BY <1>2, <1>6 DEF Summary, dirs
    <2> QED BY <1>6, <2>1 DEF ResultSound, dirs
  <1>7. CASE ~\A id \in DOMAIN dirs : Marked(dirs[id])
    <2>1. CASE run[e].stop
      <3>1. Summary(e) = "interrupted"
        BY <1>2, <1>7, <2>1 DEF Summary, dirs
      <3> QED BY <1>7, <3>1 DEF ResultSound, dirs
    <2>2. CASE ~run[e].stop
      <3>1. run[e].terminal # {}
        BY <1>4, <1>7, <2>2
      <3>2. Summary(e) = "completed_with_failures"
        BY <1>2, <1>7, <2>2, <3>1 DEF Summary, dirs
      <3> QED BY <1>5, <1>7, <3>1, <3>2 DEF ResultSound, dirs
    <2> QED BY <2>1, <2>2
  <1> QED BY <1>6, <1>7

\* A case that a thread left by an exception is not complete.
LEMMA RaisedSound ==
  ASSUME SoundInv, NEW e \in Existing, Clean(exps[e].dirs),
         NEW u \in DOMAIN Units, work[e][u].pc = "raised"
  PROVE  ResultSound(exps[e].dirs, "raised")
  <1> DEFINE i == work[e][u].turn
  <1>1. i \in DOMAIN Units[u] /\ TurnKnown(Units[u], exps[e].dirs, work[e][u])
    BY SoundThread DEF ThreadSound
  <1>2. /\ Len(Units[u]) \in Nat /\ DOMAIN Units[u] = 1 .. Len(Units[u])
        /\ Units[u][i].id \in CaseIds(scenario.dataset)
        /\ DOMAIN exps[e].dirs = CaseIds(scenario.dataset)
    BY <1>1, UnitFacts, SoundFiles DEF SoundInv
  <1>3. ~Marked(exps[e].dirs[Units[u][i].id])
    BY <1>1, <1>2 DEF TurnKnown
  <1> QED BY <1>2, <1>3 DEF ResultSound

LEMMA FinishRunSound ==
  ASSUME SoundInv, BaseInv', NEW e \in Experiments, FinishRun(e)
  PROVE  SoundInv'
  <1> DEFINE result == IF \E u \in DOMAIN Units : work[e][u].pc = "raised" THEN "raised" ELSE Summary(e)
             r == [run[e] EXCEPT !.pc = "off", !.result = result]
  <1>1. /\ run[e].pc = "on" /\ StopWork(e) /\ UNCHANGED <<scenario, code, budget, exps, cache>>
        /\ \A u \in DOMAIN Units : work[e][u].pc \in {"off", "done", "raised"}
        /\ SetRun(e, r)
    BY DEF FinishRun
  <1>2. e \in Existing /\ run[e] \in RunnerRow
    BY <1>1 DEF SoundInv, BaseInv, RunnerTypeOK
  <1>3. ASSUME ~Clean(exps[e].dirs) PROVE result # "partial"
    <2>1. ScanIsCorrupt(exps[e].dirs)
      BY <1>2, <1>3, ScanReads
    <2>2. Summary(e) = "blocked"
      BY <2>1 DEF Summary
    <2> QED BY <2>2
  <1>4. ASSUME Clean(exps[e].dirs)
        PROVE  result # "partial" /\ ResultSound(exps[e].dirs, result)
    <2>1. CASE \E u \in DOMAIN Units : work[e][u].pc = "raised"
      BY <1>2, <1>4, <2>1, RaisedSound
    <2>2. CASE ~\E u \in DOMAIN Units : work[e][u].pc = "raised"
      BY <1>1, <1>2, <1>4, <2>2, SummarySound
    <2> QED BY <2>1, <2>2
  <1> HIDE DEF result
  <1>5. r.pc = "off" /\ r.result = result /\ r.terminal = run[e].terminal
    BY <1>2 DEF RunnerRow
  <1> HIDE DEF r
  <1>6. Clean(exps[e].dirs) =>
          \A id \in run[e].terminal : id \in DOMAIN exps[e].dirs /\ Hopeless(exps[e].dirs[id].attempts)
    BY <1>2 DEF SoundInv, Sound, ExpSound, RunSound
  <1> QED BY <1>1, <1>2, <1>3, <1>4, <1>5, <1>6, RunIsOver

LEMMA CrashSound ==
  ASSUME SoundInv, BaseInv', NEW e \in Experiments, Crash(e)
  PROVE  SoundInv'
  <1> DEFINE r == [IdleRun EXCEPT !.result = "crashed"]
  <1>1. /\ run[e].pc # "off" /\ Spend("crashes") /\ SetRun(e, r) /\ StopWork(e)
        /\ UNCHANGED <<scenario, exps>>
    BY DEF Crash
  <1>2. e \in Existing
    BY <1>1 DEF SoundInv, BaseInv, RunnerTypeOK
  <1>3. r.pc = "off" /\ r.result = "crashed" /\ r.terminal = {}
    BY DEF IdleRun
  <1> HIDE DEF r
  <1>4. ResultSound(exps[e].dirs, r.result)
    BY <1>3 DEF ResultSound
  <1> QED BY <1>1, <1>2, <1>3, <1>4, RunIsOver

LEMMA RequestStopSound ==
  ASSUME SoundInv, BaseInv', NEW e \in Experiments, RequestStop(e)
  PROVE  SoundInv'
  <1>1. /\ run[e].pc # "off" /\ Spend("stops") /\ SetRun(e, [run[e] EXCEPT !.stop = TRUE])
        /\ UNCHANGED <<scenario, exps, work>>
    BY DEF RequestStop
  <1>2. e \in Existing /\ run \in [Experiments -> RunnerRow] /\ run[e] \in RunnerRow
    BY <1>1 DEF SoundInv, BaseInv, RunnerTypeOK
  <1>3. PICK r : r = run'[e]
    OBVIOUS
  <1>4. \A f \in Experiments : f # e => run'[f] = run[f]
    BY <1>1, <1>2 DEF SetRun
  <1>5. /\ run'[e].pc = run[e].pc /\ run'[e].unit = run[e].unit /\ run'[e].result = run[e].result
        /\ run'[e].mode = run[e].mode /\ run'[e].stop
        /\ run'[e].terminal = run[e].terminal
    BY <1>1, <1>2 DEF SetRun, RunnerRow
  <1>6. ASSUME Clean(exps[e].dirs)
        PROVE  /\ \A u \in DOMAIN Units :
                    UnitSound(Units[u], exps[e].dirs, exps[e].manifest.external, run'[e], work'[e][u])
               /\ RunSound(Units, exps[e].dirs, run'[e], work'[e])
    <2>1. \A u \in DOMAIN Units :
            UnitSound(Units[u], exps[e].dirs, exps[e].manifest.external, r, work[e][u])
      BY <1>2, <1>3, <1>5, <1>6, UnitsCarry
    <2>2. RunSound(Units, exps[e].dirs, run[e], work[e])
      BY <1>2, <1>6 DEF SoundInv, Sound, ExpSound
    <2>3. RunSound(Units, exps[e].dirs, run'[e], work[e])
      BY <1>5, <2>2 DEF RunSound, UnitSettled, Planned
    <2> QED BY <1>1, <1>3, <2>1, <2>3
  <1>7. run'[e].result # "partial"
    BY <1>2, <1>5 DEF SoundInv, ResultsKnown
  <1> QED BY <1>1, <1>2, <1>4, <1>6, <1>7, RunnerGoesOn

-----------------------------------------------------------------------------
(* The calls.                                                              *)

LEMMA NewDirIsSound ==
  ASSUME NEW external
  PROVE  /\ DirClean(EmptyDir) /\ DirSound(EmptyDir, external) /\ ~Marked(EmptyDir)
         /\ EmptyDir.attempts = <<>> /\ DOMAIN EmptyDir.attempts = {} /\ Len(EmptyDir.attempts) = 0
  BY DEF EmptyDir, DirClean, DirSound, Marked

\* A runner that starts, or does not, has no threads and has settled nothing.
LEMMA StartedRun ==
  ASSUME NEW units, NEW dirs, NEW ws, NEW r,
         r.pc \in {"start", "off"}, r.terminal = {}, r.result = "none"
  PROVE  RunSound(units, dirs, r, ws)
  BY DEF RunSound, UnitSettled, Planned, ResultSound

LEMMA StartRow ==
  ASSUME NEW e \in Experiments, run \in [Experiments -> RunnerRow], NEW mode, NEW after,
         StartRunner(e, mode, after)
  PROVE  /\ run'[e].pc = "start" /\ run'[e].terminal = {} /\ run'[e].result = "none"
         /\ \A f \in Experiments : f # e => run'[f] = run[f]
  BY DEF StartRunner, SetRun, IdleRun

LEMMA CreatedSound ==
  ASSUME SoundInv, BaseInv', NEW e \in Experiments, NEW manifest, Create(e, manifest),
         NEW mode, NEW after, StartRunner(e, mode, after) \/ run' = run, run[e].pc = "off",
         NEW what, Spend(what), UNCHANGED <<scenario, work>>
  PROVE  SoundInv'
  <1>1. /\ e \notin Existing
        /\ exps' = [f \in Existing \cup {e} |->
                   IF f = e
                   THEN [manifest |-> manifest,
                         dirs |-> [id \in CaseIds(manifest.dataset) |-> EmptyDir]]
                   ELSE exps[f]]
    BY DEF Create, FirstFree
  <1>2. /\ Existing' = Existing \cup {e} /\ \A f \in Existing : exps'[f] = exps[f]
        /\ exps'[e].dirs = [id \in CaseIds(manifest.dataset) |-> EmptyDir]
    BY <1>1 DEF Existing
  <1>3. run \in [Experiments -> RunnerRow] /\ \A u \in DOMAIN Units : work[e][u].pc = "off"
    BY DEF SoundInv, BaseInv, RunnerTypeOK
  <1>4. /\ run'[e].pc \in {"start", "off"} /\ run'[e].terminal = {} /\ run'[e].result = "none"
        /\ \A f \in Experiments : f # e => run'[f] = run[f]
    <2>1. CASE StartRunner(e, mode, after)
      BY <1>3, <2>1, StartRow
    <2>2. CASE run' = run
      BY <1>1, <2>2 DEF SoundInv, ResultsKnown
    <2> QED BY <2>1, <2>2
  <1>5. PICK dirs, external, r : dirs = exps'[e].dirs /\ external = exps'[e].manifest.external /\ r = run'[e]
    OBVIOUS
  <1>6. \A id \in DOMAIN dirs : dirs[id] = EmptyDir
    BY <1>2, <1>5
  <1>7. DOMAIN dirs = CaseIds(scenario.dataset)
    <2>1. e \in Existing' /\ exps'[e] \in ExperimentFiles'
      BY <1>2 DEF BaseInv, RunnerTypeOK
    <2> QED BY <1>5, <2>1 DEF ExperimentFiles
  <1>8. \A u \in DOMAIN Units : UnitSound(Units[u], dirs, external, r, work[e][u])
    <2>1. ASSUME NEW u \in DOMAIN Units PROVE UnitSound(Units[u], dirs, external, r, work[e][u])
      <3>1. \A i \in DOMAIN Units[u] : Units[u][i].id \in CaseIds(scenario.dataset)
        BY UnitFacts DEF SoundInv, BaseInv, RunnerTypeOK
      <3>2. \A i \in DOMAIN Units[u] : TurnSound(Units[u], dirs, i)
        BY <1>6, <1>7, <3>1, NewDirIsSound DEF TurnSound
      <3>3. ThreadSound(Units[u], dirs, external, r, work[e][u])
        BY <1>3 DEF ThreadSound, AtWork, Staged, Dispatched
      <3> QED BY <3>2, <3>3 DEF UnitSound
    <2> QED BY <2>1
  <1>9. ExpSound(Units, dirs, external, r, work[e])
    BY <1>4, <1>5, <1>6, <1>8, NewDirIsSound, StartedRun DEF ExpSound
  <1>10. ExpSound(Units, exps'[e].dirs, exps'[e].manifest.external, run'[e], work'[e])
    BY <1>5, <1>9
  <1>11. DamagesCounted'
    <2>1. Clean(exps'[e].dirs)
      BY <1>5, <1>6, NewDirIsSound DEF Clean
    <2> QED BY <1>2, <2>1, DamagesStay
  <1>12. \A id \in DOMAIN exps'[e].dirs : Len(exps'[e].dirs[id].attempts) <= MaxAttempts
    BY <1>5, <1>6, NewDirIsSound, AttemptsBounded
  <1> QED BY <1>2, <1>4, <1>10, <1>11, <1>12, SoundMoves

LEMMA LifecycleSound ==
  ASSUME SoundInv, BaseInv', Lifecycle
  PROVE  SoundInv'
  <1>1. ASSUME NEW e \in Experiments, NEW mode \in CacheModes, NEW after \in scenario.stopAfter,
               Launch(e, mode, after)
        PROVE  SoundInv'
    <2>1. /\ run[e].pc = "off" /\ Spend("launches") /\ Create(e, PlannedManifest(mode))
          /\ StartRunner(e, mode, after) /\ UNCHANGED <<scenario, work>>
      BY <1>1 DEF Launch
    <2> QED BY <2>1, CreatedSound
  <1>2. ASSUME NEW e \in Experiments, NEW mode \in CacheModes, NEW after \in scenario.stopAfter,
               Relaunch(e, mode, after)
        PROVE  SoundInv'
    <2>1. /\ run[e].pc = "off" /\ e \in Existing /\ Spend("resumes")
          /\ StartRunner(e, mode, after) /\ UNCHANGED <<scenario, exps, work>>
      BY <1>2 DEF Relaunch
    <2>2. run \in [Experiments -> RunnerRow] /\ \A u \in DOMAIN Units : work[e][u].pc = "off"
      BY <2>1 DEF SoundInv, BaseInv, RunnerTypeOK
    <2>3. /\ run'[e].pc = "start" /\ run'[e].terminal = {} /\ run'[e].result = "none"
          /\ \A f \in Experiments : f # e => run'[f] = run[f]
      BY <2>1, <2>2, StartRow
    <2>4. PICK r : r = run'[e]
      OBVIOUS
    <2>5. ASSUME Clean(exps[e].dirs)
          PROVE  /\ \A u \in DOMAIN Units :
                      UnitSound(Units[u], exps[e].dirs, exps[e].manifest.external, run'[e], work'[e][u])
                 /\ RunSound(Units, exps[e].dirs, run'[e], work'[e])
      <3>1. \A u \in DOMAIN Units :
              UnitSound(Units[u], exps[e].dirs, exps[e].manifest.external, r, work[e][u])
        BY <2>1, <2>2, <2>5, UnitRests
      <3>2. RunSound(Units, exps[e].dirs, r, work[e])
        BY <2>3, <2>4, StartedRun
      <3> QED BY <2>1, <2>4, <3>1, <3>2
    <2> QED BY <2>1, <2>3, <2>5, RunnerGoesOn
  <1>3. ASSUME NEW source \in Experiments, NEW e \in Experiments,
               ReplayExperiment(source, e) \/ ReplayWithProviders(source, e)
        PROVE  SoundInv'
    <2>1. /\ run[e].pc = "off" /\ Spend("replays") /\ Create(e, PlannedManifest("replay"))
          /\ StartRunner(e, "replay", 0) \/ run' = run
          /\ UNCHANGED <<scenario, work>>
      BY <1>3 DEF ReplayExperiment, ReplayWithProviders, NewReplay
    <2> QED BY <2>1, CreatedSound
  <1>4. ASSUME NEW e \in Experiments, NEW mode \in CacheModes, NEW after \in scenario.stopAfter,
               \/ RunExperiment(e, mode, after) \/ ResumeExperiment(e, mode, after)
               \/ RunWithProviders(e, mode, after) \/ ResumeWithProviders(e, mode, after)
        PROVE  SoundInv'
    <2>1. Launch(e, mode, after) \/ Relaunch(e, mode, after)
      BY <1>4 DEF RunExperiment, RunWithProviders, ResumeExperiment, ResumeWithProviders
    <2> QED BY <1>1, <1>2, <2>1
  <1> QED BY <1>3, <1>4 DEF Lifecycle

-----------------------------------------------------------------------------
(* Planning.                                                               *)

\* Committing a pending success writes a marker and nothing else.
LEMMA PendingCommits ==
  ASSUME NEW d \in CaseDir
  PROVE  LET next == CommitPending(d) IN
         /\ next \in CaseDir /\ next.attempts = d.attempts
         /\ DirClean(next) <=> DirClean(d)
         /\ Marked(d) => Marked(next)
         /\ Succeeded(d.attempts) # {} => Marked(next)
         /\ \A external : DirSound(d, external) => DirSound(next, external)
  <1> DEFINE next == CommitPending(d)
             a == d.attempts
  <1>1. next \in CaseDir /\ next.attempts = a
    BY Commits
  <1>2. CASE Marked(d) \/ Succeeded(a) = {}
    <2>1. next = d
      BY <1>2 DEF CommitPending, Marked
    <2> QED BY <1>2, <2>1
  <1>3. CASE ~Marked(d) /\ Succeeded(a) # {}
    <2>1. a \in Seq(AttemptFile) /\ DOMAIN a # {}
      BY <1>3 DEF CaseDir, Succeeded
    <2>2. /\ Len(a) \in Nat /\ DOMAIN a = 1 .. Len(a) /\ Cardinality(DOMAIN a) = Len(a)
          /\ Len(a) \in DOMAIN a
      BY <2>1, CountIsLen, LatestOne
    <2> DEFINE marker == MarkerFor(a, Len(a))
    <2>3. next = [d EXCEPT !.marker = marker]
      BY <1>3, <2>2 DEF CommitPending, MarkComplete, Marked
    <2>4. next.marker = marker /\ next.junk = d.junk
      <3> HIDE DEF marker, next
      <3> QED BY <2>3 DEF CaseDir
    <2>5. marker.intact /\ marker \in MarkerFile
      <3>1. a[Len(a)] \in AttemptFile
        BY <2>1, <2>2
      <3> HIDE DEF a
      <3> QED BY <2>2, <3>1 DEF MarkerFor, MarkerFile
    <2>6. Marked(next)
      <3> HIDE DEF marker, next
      <3> QED BY <2>4, <2>5, NothingIsNoFile DEF Marked, NoMarker
    <2>7. DirClean(next) <=> DirClean(d)
      <3> HIDE DEF marker, next
      <3> QED BY <1>1, <1>3, <2>4, <2>5 DEF DirClean
    <2>8. ASSUME NEW external, DirSound(d, external) PROVE DirSound(next, external)
      <3>1. PICK k \in DOMAIN a : a[k].status = "succeeded"
        BY <1>3 DEF Succeeded
      <3>2. ~(k < Len(a))
        BY <2>8, <3>1 DEF DirSound
      <3>3. k = Len(a)
        BY <2>2, <3>1, <3>2
      <3>4. a # <<>> /\ a[Len(a)].status = "succeeded"
        BY <2>1, <3>1, <3>3
      <3> HIDE DEF next
      <3> QED BY <1>1, <1>3, <2>4, <2>8, <3>4, MarkedSound
    <2> QED BY <1>1, <2>6, <2>7, <2>8
  <1> QED BY <1>1, <1>2, <1>3

\* Markers that are missing in one unit are written, and nothing else.
Committed(unit, dirs, dirs2) ==
  \A id \in DOMAIN dirs :
     \/ dirs2[id] = dirs[id]
     \/ dirs2[id] = CommitPending(dirs[id]) /\ \E i \in DOMAIN unit : unit[i].id = id

\* What that leaves as it was.
OnlyMarked(u, dirs, dirs2) ==
  /\ Clean(dirs2) <=> Clean(dirs)
  /\ SameFiles(Units[u], dirs, dirs2)
  /\ \A id \in CaseIds(scenario.dataset) :
       /\ dirs2[id].attempts = dirs[id].attempts
       /\ \A external : DirSound(dirs[id], external) => DirSound(dirs2[id], external)
  /\ \A v \in DOMAIN Units : v # u =>
       \A j \in DOMAIN Units[v] : dirs2[Units[v][j].id] = dirs[Units[v][j].id]

LEMMA CommittedFiles ==
  ASSUME scenario \in Scenarios, NEW dirs \in [CaseIds(scenario.dataset) -> CaseDir],
         NEW dirs2 \in [CaseIds(scenario.dataset) -> CaseDir], NEW u \in DOMAIN Units,
         Committed(Units[u], dirs, dirs2)
  PROVE  OnlyMarked(u, dirs, dirs2)
  <1>1. DOMAIN dirs = CaseIds(scenario.dataset) /\ DOMAIN dirs2 = CaseIds(scenario.dataset)
    OBVIOUS
  <1>2. ASSUME NEW id \in CaseIds(scenario.dataset)
        PROVE  /\ dirs2[id].attempts = dirs[id].attempts
               /\ DirClean(dirs2[id]) <=> DirClean(dirs[id])
               /\ Marked(dirs[id]) => Marked(dirs2[id])
               /\ \A external : DirSound(dirs[id], external) => DirSound(dirs2[id], external)
    <2>1. CASE dirs2[id] = dirs[id]
      BY <2>1
    <2>2. CASE dirs2[id] = CommitPending(dirs[id])
      <3>1. PICK d \in CaseDir : d = dirs[id]
        OBVIOUS
      <3>2. PICK next : next = CommitPending(d)
        OBVIOUS
      <3>3. /\ next.attempts = d.attempts /\ (DirClean(next) <=> DirClean(d))
            /\ Marked(d) => Marked(next)
            /\ \A external : DirSound(d, external) => DirSound(next, external)
        BY <3>2, PendingCommits
      <3> QED BY <2>2, <3>1, <3>2, <3>3
    <2> QED BY <1>1, <2>1, <2>2 DEF Committed
  <1>3. \A i \in DOMAIN Units[u] : Units[u][i].id \in CaseIds(scenario.dataset)
    BY UnitFacts
  <1>4. ASSUME NEW v \in DOMAIN Units, v # u, NEW j \in DOMAIN Units[v]
        PROVE  dirs2[Units[v][j].id] = dirs[Units[v][j].id]
    <2>1. Units[v][j].id \in DOMAIN dirs
      BY <1>1, UnitFacts
    <2>2. \A i \in DOMAIN Units[u] : Units[u][i].id # Units[v][j].id
      BY <1>4, SamePlace
    <2> QED BY <2>1, <2>2 DEF Committed
  <1>5. Clean(dirs2) <=> Clean(dirs)
    BY <1>1, <1>2 DEF Clean
  <1>6. SameFiles(Units[u], dirs, dirs2)
    BY <1>2, <1>3 DEF SameFiles
  <1> QED BY <1>2, <1>4, <1>5, <1>6 DEF OnlyMarked

\* The plan goes on to the next unit.
LEMMA PlanGoesOn ==
  ASSUME SoundInv, BaseInv', NEW e \in Existing, NEW u \in DOMAIN Units, run[e].pc = "plan",
         run[e].unit = u, u \in Nat, UNCHANGED <<scenario, budget>>,
         NEW dirs2 \in [CaseIds(scenario.dataset) -> CaseDir], SetDirs(e, dirs2),
         Committed(Units[u], exps[e].dirs, dirs2),
         \A f \in Experiments : f # e => run'[f] = run[f] /\ work'[f] = work[f],
         NEW r, run'[e] = r, r.pc = "plan", r.unit = u + 1, r.result = run[e].result,
         r.mode = run[e].mode, r.stop = run[e].stop,
         NEW w, work'[e][u] = w, \A v \in DOMAIN Units : v # u => work'[e][v] = work[e][v],
         run[e].terminal \subseteq r.terminal,
         Clean(exps[e].dirs) =>
            /\ \A t \in r.terminal : \/ t \in run[e].terminal
                                     \/ t \in DOMAIN exps[e].dirs /\ Hopeless(exps[e].dirs[t].attempts)
            /\ w.pc = "off" => r.terminal # {} \/ AllMarked(Units[u], dirs2)
            /\ UnitSound(Units[u], dirs2, exps[e].manifest.external, r, w)
  PROVE  SoundInv'
  <1>0. /\ e \in Experiments /\ scenario \in Scenarios /\ BaseInv /\ RunnerTypeOK
        /\ exps[e].dirs \in [CaseIds(scenario.dataset) -> CaseDir]
    BY SoundFiles DEF SoundInv, BaseInv
  <1> DEFINE dirs == exps[e].dirs
             external == exps[e].manifest.external
  <1>1. /\ Existing' = Existing /\ \A f \in Existing : f # e => exps'[f] = exps[f]
        /\ exps'[e].dirs = dirs2 /\ exps'[e].manifest.external = external
    BY <1>0, DirsSet DEF ManifestsStay
  <1>2. /\ Clean(dirs2) <=> Clean(dirs)
        /\ \A id \in CaseIds(scenario.dataset) :
              /\ dirs2[id].attempts = dirs[id].attempts
              /\ DirSound(dirs[id], external) => DirSound(dirs2[id], external)
        /\ \A v \in DOMAIN Units : v # u =>
              \A j \in DOMAIN Units[v] : dirs2[Units[v][j].id] = dirs[Units[v][j].id]
    <2>1. Committed(Units[u], dirs, dirs2) /\ dirs \in [CaseIds(scenario.dataset) -> CaseDir]
      BY <1>0
    <2> HIDE DEF dirs, external
    <2>2. scenario \in Scenarios
      BY <1>0
    <2>3. OnlyMarked(u, dirs, dirs2)
      BY <2>1, <2>2, CommittedFiles
    <2> QED BY <2>3 DEF OnlyMarked
  <1>3. DOMAIN dirs = CaseIds(scenario.dataset) /\ DOMAIN dirs2 = CaseIds(scenario.dataset)
    BY <1>0
  <1>4. ASSUME Clean(dirs2)
        PROVE  /\ \A o \in DOMAIN dirs2 : DirSound(dirs2[o], external)
               /\ \A v \in DOMAIN Units : UnitSound(Units[v], dirs2, external, r, work'[e][v])
               /\ RunSound(Units, dirs2, r, work'[e])
    <2>1. Clean(dirs)
      BY <1>2, <1>4
    <2>2. /\ \A o \in DOMAIN dirs : DirSound(dirs[o], external)
          /\ \A v \in DOMAIN Units : UnitSound(Units[v], dirs, external, run[e], work[e][v])
          /\ RunSound(Units, dirs, run[e], work[e])
      BY <2>1 DEF SoundInv, Sound, ExpSound
    <2>3. /\ \A t \in r.terminal : t \in run[e].terminal \/ (t \in DOMAIN dirs /\ Hopeless(dirs[t].attempts))
          /\ w.pc = "off" => r.terminal # {} \/ AllMarked(Units[u], dirs2)
          /\ UnitSound(Units[u], dirs2, external, r, w)
      BY <2>1
    <2>4. \A o \in DOMAIN dirs2 : DirSound(dirs2[o], external)
      BY <1>2, <1>3, <2>2
    <2>5. ASSUME NEW v \in DOMAIN Units PROVE UnitSound(Units[v], dirs2, external, r, work'[e][v])
      <3>1. CASE v = u
        BY <2>3, <3>1
      <3>2. CASE v # u
        <4>1. Stands(Units[v], work[e][v]) /\ Len(Units[v]) \in Nat /\ DOMAIN Units[v] = 1 .. Len(Units[v])
          BY <1>0, ThreadsStand, UnitFacts
        <4>2. run[e].terminal # {} => r.terminal # {}
          OBVIOUS
        <4>3. UnitSound(Units[v], dirs, external, run[e], work[e][v])
          BY <2>2
        <4>4. \A j \in DOMAIN Units[v] : dirs2[Units[v][j].id] = dirs[Units[v][j].id]
          BY <1>2, <3>2
        <4>5. UnitSound(Units[v], dirs2, external, r, work[e][v])
          <5> HIDE DEF dirs, external
          <5> QED BY <4>1, <4>2, <4>3, <4>4, UnitCarries
        <4> QED BY <3>2, <4>5
      <3> QED BY <3>1, <3>2
    <2>6. ASSUME NEW v \in DOMAIN Units PROVE UnitSettled(Units, dirs2, r, work'[e], v)
      <3>0. v \in Nat
        BY <1>0, UnitsAreCases
      <3>1. CASE v = u
        BY <2>3, <3>1 DEF UnitSettled
      <3>2. CASE v # u
        <4>1. UnitSettled(Units, dirs, run[e], work[e], v)
          BY <2>2 DEF RunSound
        <4>2. v >= u + 1 => work'[e][v].pc = "off"
          BY <3>0, <3>2, <4>1 DEF UnitSettled
        <4>3. v < u + 1 /\ work'[e][v].pc = "off" => run[e].terminal # {} \/ AllMarked(Units[v], dirs)
          BY <3>0, <3>2, <4>1 DEF UnitSettled, Planned
        <4>4. AllMarked(Units[v], dirs) => AllMarked(Units[v], dirs2)
          BY <1>2, <3>2 DEF AllMarked
        <4> QED BY <4>2, <4>3, <4>4 DEF UnitSettled, Planned
      <3> QED BY <3>1, <3>2
    <2>7. ASSUME NEW t \in r.terminal PROVE t \in DOMAIN dirs2 /\ Hopeless(dirs2[t].attempts)
      <3>1. t \in DOMAIN dirs /\ Hopeless(dirs[t].attempts)
        BY <2>2, <2>3 DEF RunSound
      <3> QED BY <1>2, <1>3, <3>1
    <2>8. r.result = "none"
      BY <2>2 DEF RunSound
    <2>9. RunSound(Units, dirs2, r, work'[e])
      <3> HIDE DEF dirs, external
      <3> QED BY <2>6, <2>7, <2>8 DEF RunSound
    <2> QED BY <2>4, <2>5, <2>9
  <1>5. ExpSound(Units, exps'[e].dirs, exps'[e].manifest.external, run'[e], work'[e])
    <2>1. ExpSound(Units, dirs2, external, r, work'[e])
      <3> HIDE DEF dirs, external
      <3> QED BY <1>4 DEF ExpSound
    <2> QED BY <1>1, <2>1
  <1>6. DamagesCounted'
    <2>1. \A f \in Existing' : f \in Existing /\ (Clean(exps[f].dirs) => Clean(exps'[f].dirs))
      BY <1>1, <1>2
    <2> QED BY <2>1, DamagesStay
  <1>7. /\ \A o \in DOMAIN exps'[e].dirs : Len(exps'[e].dirs[o].attempts) <= MaxAttempts
        /\ run'[e].result # "partial"
    <2>1. \A o \in DOMAIN dirs : Len(dirs[o].attempts) <= MaxAttempts
      BY DEF SoundInv, FilesCounted
    <2> QED BY <1>0, <1>1, <1>2, <1>3, <2>1 DEF SoundInv, ResultsKnown
  <1> QED BY <1>0, <1>1, <1>5, <1>6, <1>7, SoundMoves

\* What planning reads in a unit whose files are as the runner left them.
LEMMA UnitReads ==
  ASSUME SoundInv, NEW e \in Existing, NEW u \in DOMAIN Units, Clean(exps[e].dirs),
         NEW i \in DOMAIN Units[u]
  PROVE  LET unit == Units[u]
             d    == exps[e].dirs[unit[i].id]
             a    == d.attempts
         IN  /\ Histories(exps[e].dirs)[unit[i].id] = a /\ a \in Seq(AttemptFile)
             /\ TurnSound(unit, exps[e].dirs, i)
             /\ Done(a) => a # <<>> /\ Len(a) \in DOMAIN a /\ a[Len(a)].status = "succeeded"
             /\ Marked(d) => Done(a)
             /\ ~Done(a) /\ ~CannotGoOn(a) => Open(a)
  <1> DEFINE unit == Units[u]
             dirs == exps[e].dirs
             d == dirs[unit[i].id]
             a == d.attempts
  <1>1. /\ scenario \in Scenarios /\ unit[i].id \in CaseIds(scenario.dataset)
        /\ DOMAIN dirs = CaseIds(scenario.dataset)
    BY SoundFiles, UnitFacts DEF SoundInv
  <1>2. a \in Seq(AttemptFile) /\ DirSound(d, exps[e].manifest.external)
    BY <1>1, FilesReadBack
  <1>3. /\ Len(a) \in Nat /\ DOMAIN a = 1 .. Len(a) /\ Cardinality(DOMAIN a) = Len(a)
        /\ a # <<>> => Len(a) \in DOMAIN a
    BY <1>2, CountIsLen
  <1>4. Histories(dirs)[unit[i].id] = a
    BY <1>1 DEF Histories
  <1>5. TurnSound(unit, dirs, i)
    BY DEF SoundInv, Sound, ExpSound, UnitSound
  <1>6. \A k \in DOMAIN a : k < Len(a) => a[k].status # "succeeded" /\ a[k].retryable
    BY <1>2 DEF DirSound
  <1>7. Marked(d) => a # <<>> /\ a[Len(a)].status = "succeeded"
    BY <1>2 DEF DirSound
  <1> HIDE DEF a
  <1>8. Done(a) => a # <<>> /\ Len(a) \in DOMAIN a /\ a[Len(a)].status = "succeeded"
    <2>1. SUFFICES ASSUME Done(a)
                   PROVE  a # <<>> /\ Len(a) \in DOMAIN a /\ a[Len(a)].status = "succeeded"
      OBVIOUS
    <2>2. PICK k \in DOMAIN a : a[k].status = "succeeded"
      BY <2>1 DEF Done, Succeeded
    <2>3. ~(k < Len(a))
      BY <1>6, <2>2
    <2>4. k = Len(a)
      BY <1>3, <2>3
    <2> QED BY <1>3, <2>2, <2>4
  <1>9. Marked(d) => Done(a)
    BY <1>3, <1>7 DEF Done, Succeeded
  <1>10. ~Done(a) /\ ~CannotGoOn(a) => Open(a)
    <2>1. SUFFICES ASSUME ~Done(a), ~CannotGoOn(a) PROVE Open(a)
      OBVIOUS
    <2>2. CASE a = <<>>
      BY <2>2, NothingIsOpen
    <2>3. CASE a # <<>>
      <3>1. Len(a) < MaxAttempts /\ LatestAttempt(a).retryable
        BY <1>3, <2>1, <2>3, AttemptsBounded DEF CannotGoOn
      <3>2. a[Len(a)].retryable
        BY <1>3, <3>1 DEF LatestAttempt
      <3>3. ASSUME NEW k \in DOMAIN a PROVE a[k].status # "succeeded" /\ a[k].retryable
        <4>1. a[k].status # "succeeded"
          BY <2>1 DEF Done, Succeeded
        <4>2. CASE k < Len(a)
          BY <1>6, <4>2
        <4>3. CASE ~(k < Len(a))
          <5>1. k = Len(a)
            BY <1>3, <4>3
          <5> QED BY <3>2, <4>1, <5>1
        <4> QED BY <4>2, <4>3
      <3> QED BY <3>1, <3>3 DEF Open
    <2> QED BY <2>2, <2>3
  <1> QED BY <1>2, <1>4, <1>5, <1>8, <1>9, <1>10 DEF a

\* The state in front of a turn is what the histories say.
LEMMA StateIsBefore ==
  ASSUME SoundInv, NEW e \in Existing, NEW u \in DOMAIN Units, Clean(exps[e].dirs),
         NEW i \in 1 .. Len(Units[u]) + 1
  PROVE  StateBefore(Units[u], Histories(exps[e].dirs), i) = StateIn(Units[u], exps[e].dirs, i)
  <1> DEFINE unit == Units[u]
  <1>1. Len(unit) \in Nat /\ DOMAIN unit = 1 .. Len(unit)
    BY UnitFacts DEF SoundInv, BaseInv, RunnerTypeOK
  <1>2. CASE i = 1
    BY <1>2 DEF StateBefore, StateIn
  <1>3. CASE i # 1
    <2>1. i - 1 \in DOMAIN unit
      BY <1>1, <1>3
    <2>2. /\ Histories(exps[e].dirs)[unit[i - 1].id] = exps[e].dirs[unit[i - 1].id].attempts
          /\ exps[e].dirs[unit[i - 1].id].attempts \in Seq(AttemptFile)
      BY <2>1, UnitReads
    <2>3. PICK a \in Seq(AttemptFile) : a = exps[e].dirs[unit[i - 1].id].attempts
      BY <2>2
    <2>4. LatestAttempt(a) = a[Len(a)]
      BY CountIsLen DEF LatestAttempt
    <2> QED BY <1>3, <2>2, <2>3, <2>4 DEF StateBefore, StateIn
  <1> QED BY <1>2, <1>3

\* The runner finds every history it wrote valid.
LEMMA TurnIsValid ==
  ASSUME SoundInv, NEW e \in Existing, NEW u \in DOMAIN Units, Clean(exps[e].dirs),
         NEW i \in DOMAIN Units[u]
  PROVE  CaseHistoryValid(Histories(exps[e].dirs)[Units[u][i].id], Units[u],
                          StateBefore(Units[u], Histories(exps[e].dirs), i))
  <1> DEFINE unit == Units[u]
             dirs == exps[e].dirs
             d == dirs[unit[i].id]
             a == d.attempts
             before == StateIn(unit, dirs, i)
  <1>1. Len(unit) \in Nat /\ DOMAIN unit = 1 .. Len(unit) /\ BaseInv
        /\ unit[i].id \in CaseIds(scenario.dataset)
    BY UnitFacts DEF SoundInv, BaseInv, RunnerTypeOK
  <1>2. Histories(dirs)[unit[i].id] = a /\ a \in Seq(AttemptFile) /\ TurnSound(unit, dirs, i)
    BY UnitReads
  <1>3. StateBefore(unit, Histories(dirs), i) = before
    <2>1. i \in 1 .. Len(unit) + 1
      BY <1>1
    <2> QED BY <2>1, StateIsBefore
  <1>4. DirSound(d, exps[e].manifest.external)
    BY <1>1, FilesReadBack
  <1>5. Cardinality(DOMAIN a) = Len(a)
    BY <1>2, CountIsLen
  <1>6. ASSUME NEW k \in DOMAIN a
        PROVE  /\ AttemptValid(a[k], unit, before)
               /\ k < Cardinality(DOMAIN a) => a[k].status # "succeeded" /\ a[k].retryable
    <2>1. a # <<>>
      OBVIOUS
    <2>2. FileSound(unit, before, a[k])
      BY <1>2, <2>1 DEF TurnSound
    <2>3. /\ a[k].mode = "replay" => a[k].fresh = {}
          /\ a[k].status # "succeeded" => a[k].after = NoState
          /\ k < Len(a) => a[k].status # "succeeded" /\ a[k].retryable
      BY <1>4 DEF DirSound
    <2>4. IsSession(unit) /\ a[k].status = "succeeded" => a[k].after # NoState
      <3>1. IsSession(unit) /\ a[k].status = "succeeded" => a[k].after \in Seq(Values)
        BY <1>1, <1>2, SessionState
      <3> QED BY <3>1, NothingIsNoFile DEF NoState
    <2>5. ~IsSession(unit) => a[k].after = NoState
      BY <2>2, <2>3 DEF FileSound, AfterSuccess
    <2>6. a[k].before = before
      BY <2>2 DEF FileSound
    <2> HIDE DEF a, unit, before
    <2>7. AttemptValid(a[k], unit, before)
      BY <2>3, <2>4, <2>5, <2>6 DEF AttemptValid, ObservationsValid
    <2> QED BY <1>5, <2>3, <2>7
  <1> HIDE DEF a, unit, before, dirs
  <1>7. CaseHistoryValid(a, unit, before)
    BY <1>6 DEF CaseHistoryValid
  <1> QED BY <1>2, <1>3, <1>7 DEF unit, dirs

LEMMA UnitIsValid ==
  ASSUME SoundInv, NEW e \in Existing, NEW u \in DOMAIN Units, Clean(exps[e].dirs)
  PROVE  /\ UnitHistoryValid(Units[u], Histories(exps[e].dirs))
         /\ SoundPrefix(Units[u], Histories(exps[e].dirs))
              = CompletedPrefix(Units[u], Histories(exps[e].dirs))
  <1> DEFINE unit == Units[u]
             histories == Histories(exps[e].dirs)
             done == CompletedPrefix(unit, histories)
             sound == SoundPrefix(unit, histories)
  <1>1. Len(unit) \in Nat /\ DOMAIN unit = 1 .. Len(unit)
    BY UnitFacts DEF SoundInv, BaseInv, RunnerTypeOK
  <1>2. \A i \in DOMAIN unit : CaseHistoryValid(histories[unit[i].id], unit, StateBefore(unit, histories, i))
    BY TurnIsValid
  <1>3. ASSUME NEW i \in DOMAIN unit, DOMAIN histories[unit[i].id] # {}, NEW j \in 1 .. i - 1
        PROVE  Done(histories[unit[j].id])
    <2>1. j \in DOMAIN unit
      BY <1>1
    <2>2. /\ histories[unit[i].id] = exps[e].dirs[unit[i].id].attempts
          /\ TurnSound(unit, exps[e].dirs, i)
      BY UnitReads
    <2>3. exps[e].dirs[unit[i].id].attempts # <<>>
      BY <1>3, <2>2
    <2>4. Marked(exps[e].dirs[unit[j].id])
      BY <2>2, <2>3 DEF TurnSound
    <2> QED BY <2>1, <2>4, UnitReads
  <1>4. UnitHistoryValid(unit, histories)
    BY <1>2, <1>3 DEF UnitHistoryValid
  <1>5. /\ done \in 0 .. Len(unit) /\ sound \in 0 .. done
        /\ sound < done => ~CaseHistoryValid(histories[unit[sound + 1].id], unit,
                                StateBefore(unit, histories, sound + 1))
    BY <1>1, CompletedPrefixes, SoundPrefixes
  <1> HIDE DEF done, sound
  <1>6. ~(sound < done)
    <2>1. SUFFICES ASSUME sound < done PROVE FALSE
      OBVIOUS
    <2>2. sound + 1 \in DOMAIN unit
      BY <1>1, <1>5, <2>1
    <2> QED BY <1>2, <1>5, <2>1, <2>2
  <1>7. sound = done
    BY <1>5, <1>6
  <1> QED BY <1>4, <1>7 DEF done, sound

\* The files planning leaves behind: the completed turns that read back are
\* marked.
Marking(e) ==
  LET dirs == exps[e].dirs
      unit == Units[run[e].unit]
  IN  [id \in DOMAIN dirs |->
         IF \E i \in 1 .. SoundPrefix(unit, Histories(dirs)) : unit[i].id = id
         THEN CommitPending(dirs[id]) ELSE dirs[id]]

LEMMA MarkingFiles ==
  ASSUME SoundInv, NEW e \in Existing, NEW u \in DOMAIN Units, run[e].unit = u
  PROVE  /\ Marking(e) \in [CaseIds(scenario.dataset) -> CaseDir]
         /\ Committed(Units[u], exps[e].dirs, Marking(e))
         /\ Clean(exps[e].dirs) =>
              \A i \in 1 .. CompletedPrefix(Units[u], Histories(exps[e].dirs)) :
                 Marked(Marking(e)[Units[u][i].id])
  <1> DEFINE unit == Units[u]
             dirs == exps[e].dirs
             sound == SoundPrefix(unit, Histories(dirs))
             done == CompletedPrefix(unit, Histories(dirs))
  <1>1. /\ scenario \in Scenarios /\ dirs \in [CaseIds(scenario.dataset) -> CaseDir]
        /\ Len(unit) \in Nat /\ DOMAIN unit = 1 .. Len(unit)
        /\ \A i \in DOMAIN unit : unit[i].id \in CaseIds(scenario.dataset)
    BY SoundFiles, UnitFacts DEF SoundInv
  <1>2. done \in 0 .. Len(unit) /\ sound \in 0 .. done
        /\ \A i \in 1 .. done : Done(Histories(dirs)[unit[i].id])
    BY <1>1, CompletedPrefixes, SoundPrefixes
  <1>3. Marking(e) = [id \in CaseIds(scenario.dataset) |->
                        IF \E i \in 1 .. sound : unit[i].id = id THEN CommitPending(dirs[id]) ELSE dirs[id]]
    BY <1>1 DEF Marking
  <1>4. \A d \in CaseDir : CommitPending(d) \in CaseDir
    BY PendingCommits
  <1>5. Clean(dirs) => sound = done
    BY UnitIsValid
  <1> HIDE DEF sound, done
  <1>6. Marking(e) \in [CaseIds(scenario.dataset) -> CaseDir]
    BY <1>1, <1>3, <1>4
  <1>7. 1 .. sound \subseteq DOMAIN unit /\ 1 .. done \subseteq DOMAIN unit
    BY <1>1, <1>2
  <1>8. Committed(unit, dirs, Marking(e))
    <2>1. DOMAIN dirs = CaseIds(scenario.dataset)
      BY <1>1
    <2> HIDE DEF unit, dirs
    <2> QED BY <1>3, <1>7, <2>1 DEF Committed
  <1>9. ASSUME Clean(dirs), NEW i \in 1 .. done PROVE Marked(Marking(e)[unit[i].id])
    <2>1. i \in DOMAIN unit /\ i \in 1 .. sound
      BY <1>5, <1>7, <1>9
    <2>2. Marking(e)[unit[i].id] = CommitPending(dirs[unit[i].id])
      BY <1>1, <1>3, <2>1
    <2>3. Done(dirs[unit[i].id].attempts)
      BY <1>2, <1>9, <2>1, UnitReads
    <2>4. PICK d \in CaseDir : d = dirs[unit[i].id]
      BY <1>1, <2>1
    <2>5. Marked(CommitPending(d))
      BY <2>3, <2>4, PendingCommits DEF Done
    <2> QED BY <2>2, <2>4, <2>5
  <1> QED BY <1>6, <1>8, <1>9 DEF done

LEMMA RefusedSound ==
  ASSUME SoundInv, BaseInv', NEW e \in Existing, NEW u \in DOMAIN Units, run[e].unit = u,
         ~UnitHistoryValid(Units[u], Histories(exps[e].dirs)), SetDirs(e, Marking(e)),
         UNCHANGED <<scenario, budget>>,
         SetRun(e, [run[e] EXCEPT !.pc = "off", !.result = "refused"]), StopWork(e)
  PROVE  SoundInv'
  <1>1. /\ e \in Experiments /\ scenario \in Scenarios /\ RunnerTypeOK /\ run[e] \in RunnerRow
        /\ exps[e].dirs \in [CaseIds(scenario.dataset) -> CaseDir]
    BY SoundFiles DEF SoundInv, BaseInv
  <1>2. ~Clean(exps[e].dirs)
    BY UnitIsValid
  <1>3. /\ Marking(e) \in [CaseIds(scenario.dataset) -> CaseDir]
        /\ Committed(Units[u], exps[e].dirs, Marking(e))
    BY MarkingFiles
  <1>4. PICK dirs2 \in [CaseIds(scenario.dataset) -> CaseDir] : dirs2 = Marking(e)
    BY <1>3
  <1>5. OnlyMarked(u, exps[e].dirs, dirs2)
    BY <1>1, <1>3, <1>4, CommittedFiles
  <1>6. /\ Existing' = Existing /\ \A f \in Existing : f # e => exps'[f] = exps[f]
        /\ exps'[e].dirs = dirs2
    BY <1>1, <1>4, DirsSet
  <1>7. ExpSound(Units, exps'[e].dirs, exps'[e].manifest.external, run'[e], work'[e])
    BY <1>2, <1>5, <1>6 DEF ExpSound, OnlyMarked
  <1>8. \A id \in DOMAIN exps'[e].dirs : Len(exps'[e].dirs[id].attempts) <= MaxAttempts
    <2>1. \A id \in DOMAIN exps[e].dirs : Len(exps[e].dirs[id].attempts) <= MaxAttempts
      BY DEF SoundInv, FilesCounted
    <2>2. \A id \in CaseIds(scenario.dataset) : dirs2[id].attempts = exps[e].dirs[id].attempts
      BY <1>5 DEF OnlyMarked
    <2> QED BY <1>1, <1>6, <2>1, <2>2
  <1>9. DamagesCounted'
    <2>1. \A f \in Existing' : f \in Existing /\ (Clean(exps[f].dirs) => Clean(exps'[f].dirs))
      BY <1>2, <1>6
    <2> QED BY <2>1, DamagesStay
  <1>10. /\ run'[e].result = "refused"
         /\ \A f \in Experiments : f # e => run'[f] = run[f] /\ work'[f] = work[f]
    BY <1>1 DEF SetRun, StopWork, RunnerTypeOK, RunnerRow
  <1> QED BY <1>1, <1>6, <1>7, <1>8, <1>9, <1>10, SoundMoves

\* The turns of the unit, and the first that is not done.
TurnsPlanned(e, u, dirs2, done) ==
  LET unit == Units[u] IN
  /\ \A i \in DOMAIN unit : TurnSound(unit, dirs2, i)
  /\ \A i \in 1 .. Len(unit) + 1 : StateIn(unit, dirs2, i) = StateIn(unit, exps[e].dirs, i)
  /\ \A i \in 1 .. done : Marked(dirs2[unit[i].id])
  /\ done \in 0 .. Len(unit) /\ Len(unit) \in Nat /\ DOMAIN unit = 1 .. Len(unit)
  /\ work[e][u].pc = "off"

NextPlanned(e, u, dirs2, done) ==
  LET unit == Units[u]
      d    == exps[e].dirs[unit[done + 1].id]
  IN  /\ done + 1 \in DOMAIN unit /\ unit[done + 1].id \in DOMAIN exps[e].dirs
      /\ dirs2[unit[done + 1].id] = d /\ ~Marked(d)
      /\ Histories(exps[e].dirs)[unit[done + 1].id] = d.attempts
      /\ CannotGoOn(d.attempts) => Hopeless(d.attempts)
      /\ ~CannotGoOn(d.attempts) => Open(d.attempts)

LEMMA UnitPlanned ==
  ASSUME SoundInv, NEW e \in Existing, NEW u \in DOMAIN Units, run[e].unit = u, run[e].pc = "plan",
         Clean(exps[e].dirs)
  PROVE  LET done == CompletedPrefix(Units[u], Histories(exps[e].dirs)) IN
         /\ TurnsPlanned(e, u, Marking(e), done)
         /\ done # Len(Units[u]) => NextPlanned(e, u, Marking(e), done)
  <1> DEFINE unit == Units[u]
             dirs == exps[e].dirs
             dirs2 == Marking(e)
             done == CompletedPrefix(unit, Histories(dirs))
  <1>1. /\ scenario \in Scenarios /\ dirs \in [CaseIds(scenario.dataset) -> CaseDir]
        /\ Len(unit) \in Nat /\ DOMAIN unit = 1 .. Len(unit) /\ BaseInv
        /\ \A i \in DOMAIN unit : unit[i].id \in CaseIds(scenario.dataset)
    BY SoundFiles, UnitFacts DEF SoundInv
  <1>2. /\ dirs2 \in [CaseIds(scenario.dataset) -> CaseDir] /\ Committed(unit, dirs, dirs2)
        /\ \A i \in 1 .. done : Marked(dirs2[unit[i].id])
    BY MarkingFiles
  <1>3. OnlyMarked(u, dirs, dirs2)
    <2> HIDE DEF dirs, dirs2
    <2> QED BY <1>1, <1>2, CommittedFiles
  <1>4. /\ \A i \in DOMAIN unit : TurnSound(unit, dirs2, i)
        /\ \A i \in 1 .. Len(unit) + 1 : StateIn(unit, dirs2, i) = StateIn(unit, dirs, i)
    <2>1. \A i \in DOMAIN unit : TurnSound(unit, dirs, i)
      BY UnitReads
    <2>2. SameFiles(unit, dirs, dirs2)
      BY <1>3 DEF OnlyMarked
    <2> HIDE DEF unit, dirs, dirs2
    <2> QED BY <1>1, <2>1, <2>2, TurnsMarked
  <1>5. /\ done \in 0 .. Len(unit)
        /\ done < Len(unit) => ~Done(Histories(dirs)[unit[done + 1].id])
    BY <1>1, CompletedPrefixes
  <1>6. work[e][u].pc = "off"
    <2>1. UnitSettled(Units, dirs, run[e], work[e], u)
      BY DEF SoundInv, Sound, ExpSound, RunSound
    <2>2. u \in Nat
      BY <1>1, UnitsAreCases
    <2> QED BY <2>1, <2>2 DEF UnitSettled
  <1> HIDE DEF done
  <1>7. ASSUME done # Len(unit)
        PROVE  LET d == dirs[unit[done + 1].id] IN
               /\ done + 1 \in DOMAIN unit /\ unit[done + 1].id \in DOMAIN dirs
               /\ dirs2[unit[done + 1].id] = d /\ ~Marked(d) /\ ~Done(d.attempts)
               /\ Histories(dirs)[unit[done + 1].id] = d.attempts
               /\ CannotGoOn(d.attempts) => Hopeless(d.attempts)
               /\ ~CannotGoOn(d.attempts) => Open(d.attempts)
    <2> DEFINE d == dirs[unit[done + 1].id]
    <2>1. done + 1 \in DOMAIN unit /\ done < Len(unit)
      BY <1>1, <1>5, <1>7
    <2>2. unit[done + 1].id \in DOMAIN dirs
      BY <1>1, <2>1
    <2>3. /\ Histories(dirs)[unit[done + 1].id] = d.attempts
          /\ Marked(d) => Done(d.attempts)
          /\ ~Done(d.attempts) /\ ~CannotGoOn(d.attempts) => Open(d.attempts)
      BY <2>1, UnitReads
    <2>4. ~Done(d.attempts)
      BY <1>5, <2>1, <2>3
    <2>5. CommitPending(d) = d
      BY <2>4 DEF CommitPending, Done
    <2>6. dirs2[unit[done + 1].id] = d
      BY <1>2, <2>2, <2>5 DEF Committed
    <2> QED BY <2>1, <2>2, <2>3, <2>4, <2>6 DEF Hopeless, Done
  <1>8. TurnsPlanned(e, u, dirs2, done)
    BY <1>1, <1>2, <1>4, <1>5, <1>6 DEF TurnsPlanned
  <1>9. done # Len(unit) => NextPlanned(e, u, dirs2, done)
    BY <1>7 DEF NextPlanned
  <1> QED BY <1>8, <1>9 DEF done

\* The thread that is queued for a unit.
LEMMA QueuedSound ==
  ASSUME SoundInv, NEW e \in Existing, NEW u \in DOMAIN Units, run[e].unit = u, run[e].pc = "plan",
         Clean(exps[e].dirs), NEW dirs2, dirs2 = Marking(e),
         NEW done, done = CompletedPrefix(Units[u], Histories(exps[e].dirs)), done # Len(Units[u]),
         ~CannotGoOn(exps[e].dirs[Units[u][done + 1].id].attempts),
         NEW external, NEW r, NEW w, w.pc = "queued", w.turn = done + 1, w.runtime = NoRuntime,
         w.state = StateBefore(Units[u], Histories(exps[e].dirs), done + 1)
  PROVE  UnitSound(Units[u], dirs2, external, r, w)
  <1> DEFINE unit == Units[u]
             dirs == exps[e].dirs
  <1>1. /\ \A i \in DOMAIN unit : TurnSound(unit, dirs2, i)
        /\ \A i \in 1 .. Len(unit) + 1 : StateIn(unit, dirs2, i) = StateIn(unit, dirs, i)
        /\ \A i \in 1 .. done : Marked(dirs2[unit[i].id])
        /\ done \in 0 .. Len(unit) /\ Len(unit) \in Nat /\ DOMAIN unit = 1 .. Len(unit)
        /\ done + 1 \in DOMAIN unit
        /\ dirs2[unit[done + 1].id] = dirs[unit[done + 1].id]
        /\ ~Marked(dirs[unit[done + 1].id]) /\ Open(dirs[unit[done + 1].id].attempts)
    <2>1. TurnsPlanned(e, u, dirs2, done) /\ NextPlanned(e, u, dirs2, done)
      BY UnitPlanned
    <2> QED BY <2>1 DEF TurnsPlanned, NextPlanned
  <1>2. done + 1 \in 1 .. Len(unit) + 1 /\ (done + 1) - 1 = done
    BY <1>1
  <1>3. w.state = StateIn(unit, dirs, done + 1) /\ w.state = StateIn(unit, dirs2, done + 1)
    BY <1>1, <1>2, StateIsBefore
  <1>4. IsSession(unit) => w.state \in Seq(Values)
    <2>1. SUFFICES ASSUME IsSession(unit) PROVE w.state \in Seq(Values)
      OBVIOUS
    <2>2. CASE done = 0
      <3>1. w.state = <<>>
        BY <1>3, <2>1, <2>2 DEF StateIn, InitialState
      <3>2. <<>> \in Seq(Values)
        OBVIOUS
      <3> QED BY <3>1, <3>2
    <2>3. CASE done # 0
      <3>1. done \in DOMAIN unit /\ done + 1 # 1 /\ done \in 1 .. done
        BY <1>1, <2>3
      <3>2. Done(dirs[unit[done].id].attempts)
        <4>1. done \in 1 .. CompletedPrefix(unit, Histories(dirs))
          BY <3>1
        <4>2. Done(Histories(dirs)[unit[done].id])
          BY <1>1, <4>1, CompletedPrefixes
        <4> QED BY <3>1, <4>2, UnitReads
      <3>3. PICK k : k = Len(dirs[unit[done].id].attempts)
        OBVIOUS
      <3>4. /\ k \in DOMAIN dirs[unit[done].id].attempts
            /\ dirs[unit[done].id].attempts[k].status = "succeeded" /\ TurnSound(unit, dirs, done)
        BY <3>1, <3>2, <3>3, UnitReads
      <3>5. dirs[unit[done].id].attempts[k].after \in Seq(Values)
        BY <2>1, <3>1, <3>4, SessionState DEF SoundInv
      <3>6. StateIn(unit, dirs, done + 1) = dirs[unit[done].id].attempts[k].after
        BY <1>2, <3>1, <3>3 DEF StateIn
      <3> QED BY <1>3, <3>5, <3>6
    <2> QED BY <2>2, <2>3
  <1> HIDE DEF unit, dirs
  <1>5. TurnKnown(unit, dirs2, w)
    BY <1>1, <1>2, <1>3, <1>4 DEF TurnKnown
  <1>6. ThreadSound(unit, dirs2, external, r, w)
    BY <1>5 DEF ThreadSound, AtWork, Staged, Dispatched
  <1> QED BY <1>1, <1>6 DEF UnitSound, unit

LEMMA PrepareUnitSound ==
  ASSUME SoundInv, BaseInv', NEW e \in Experiments, PrepareUnit(e)
  PROVE  SoundInv'
  <1> DEFINE histories == Histories(exps[e].dirs)
  <1>1. /\ run[e].pc = "plan" /\ run[e].unit <= Len(Units) /\ UNCHANGED <<scenario, budget>>
        /\ SetDirs(e, Marking(e))
    BY DEF PrepareUnit, Marking
  <1>2. /\ e \in Existing /\ scenario \in Scenarios /\ RunnerTypeOK /\ run[e] \in RunnerRow
        /\ run \in [Experiments -> RunnerRow] /\ run[e].unit \in Nat /\ run[e].unit # 0
        /\ work \in [Experiments -> [DOMAIN Units -> WorkerRow]]
    BY <1>1 DEF SoundInv, BaseInv, RunnerTypeOK, RunnerRow
  <1>3. PICK u : u = run[e].unit
    OBVIOUS
  <1>4. u \in DOMAIN Units /\ u \in Nat
    BY <1>1, <1>2, <1>3, UnitsAreCases
  <1>5. PICK done : done = CompletedPrefix(Units[u], histories)
    OBVIOUS
  <1>6. PICK next : next = Units[u][done + 1].id
    OBVIOUS
  <1>7. PICK dirs2 : dirs2 = Marking(e)
    OBVIOUS
  <1>8. /\ dirs2 \in [CaseIds(scenario.dataset) -> CaseDir] /\ SetDirs(e, dirs2)
        /\ Committed(Units[u], exps[e].dirs, dirs2)
    BY <1>1, <1>2, <1>3, <1>4, <1>7, MarkingFiles
  <1>9. ASSUME Clean(exps[e].dirs)
        PROVE  /\ TurnsPlanned(e, u, dirs2, done)
               /\ done # Len(Units[u]) => NextPlanned(e, u, dirs2, done)
    BY <1>1, <1>2, <1>3, <1>4, <1>5, <1>7, <1>9, UnitPlanned
  <1>10. ASSUME Clean(exps[e].dirs), NEW r, NEW w, w.pc = "off"
         PROVE  UnitSound(Units[u], dirs2, exps[e].manifest.external, r, w)
    <2>1. \A i \in DOMAIN Units[u] : TurnSound(Units[u], dirs2, i)
      BY <1>9, <1>10 DEF TurnsPlanned
    <2>2. ThreadSound(Units[u], dirs2, exps[e].manifest.external, r, w)
      BY <1>10 DEF ThreadSound, AtWork, Staged, Dispatched
    <2> QED BY <2>1, <2>2 DEF UnitSound
  <1> DEFINE before == StateBefore(Units[u], histories, done + 1)
             w == [IdleWorker EXCEPT !.pc = "queued", !.turn = done + 1, !.state = before]
  <1>11. \/ /\ ~UnitHistoryValid(Units[u], histories)
            /\ SetRun(e, [run[e] EXCEPT !.pc = "off", !.result = "refused"]) /\ StopWork(e)
         \/ /\ done = Len(Units[u]) /\ UNCHANGED work
            /\ SetRun(e, [run[e] EXCEPT !.unit = u + 1])
         \/ /\ done # Len(Units[u]) /\ CannotGoOn(histories[next]) /\ UNCHANGED work
            /\ SetRun(e, [run[e] EXCEPT !.unit = u + 1, !.terminal = @ \cup {next}])
         \/ /\ done # Len(Units[u]) /\ ~CannotGoOn(histories[next])
            /\ SetRun(e, [run[e] EXCEPT !.unit = u + 1]) /\ SetWork(e, u, w)
    BY <1>3, <1>5, <1>6 DEF PrepareUnit
  <1>12. CASE /\ ~UnitHistoryValid(Units[u], histories)
              /\ SetRun(e, [run[e] EXCEPT !.pc = "off", !.result = "refused"]) /\ StopWork(e)
    BY <1>1, <1>2, <1>3, <1>4, <1>12, RefusedSound
  <1>13. CASE /\ done = Len(Units[u]) /\ UNCHANGED work
              /\ SetRun(e, [run[e] EXCEPT !.unit = u + 1])
    <2> DEFINE r == [run[e] EXCEPT !.unit = u + 1]
    <2>1. /\ r.pc = "plan" /\ r.unit = u + 1 /\ r.result = run[e].result /\ r.mode = run[e].mode
          /\ r.stop = run[e].stop /\ r.terminal = run[e].terminal
      BY <1>1, <1>2 DEF RunnerRow
    <2>2. run'[e] = r /\ \A f \in Experiments : f # e => run'[f] = run[f] /\ work'[f] = work[f]
      <3>1. SetRun(e, r)
        BY <1>13
      <3> HIDE DEF r
      <3> QED BY <1>2, <1>13, <3>1 DEF SetRun
    <2> HIDE DEF r
    <2>3. ASSUME Clean(exps[e].dirs)
          PROVE  /\ AllMarked(Units[u], dirs2)
                 /\ UnitSound(Units[u], dirs2, exps[e].manifest.external, r, work[e][u])
      <3>1. TurnsPlanned(e, u, dirs2, done)
        BY <1>9, <2>3
      <3>2. AllMarked(Units[u], dirs2)
        BY <1>13, <3>1 DEF TurnsPlanned, AllMarked
      <3>3. work[e][u].pc = "off"
        BY <3>1 DEF TurnsPlanned
      <3> QED BY <1>10, <2>3, <3>2, <3>3
    <2>4. \A v \in DOMAIN Units : v # u => work'[e][v] = work[e][v]
      BY <1>13
    <2>5. PICK x : x = work[e][u]
      OBVIOUS
    <2>6. work'[e][u] = x /\ (Clean(exps[e].dirs) =>
            /\ \A t \in r.terminal : \/ t \in run[e].terminal
                                     \/ t \in DOMAIN exps[e].dirs /\ Hopeless(exps[e].dirs[t].attempts)
            /\ x.pc = "off" => r.terminal # {} \/ AllMarked(Units[u], dirs2)
            /\ UnitSound(Units[u], dirs2, exps[e].manifest.external, r, x))
      BY <1>13, <2>1, <2>3, <2>5
    <2>7. run[e].terminal \subseteq r.terminal
      BY <2>1
    <2> QED BY <1>1, <1>2, <1>3, <1>4, <1>8, <2>1, <2>2, <2>4, <2>6, <2>7, PlanGoesOn
  <1>14. CASE /\ done # Len(Units[u]) /\ CannotGoOn(histories[next]) /\ UNCHANGED work
              /\ SetRun(e, [run[e] EXCEPT !.unit = u + 1, !.terminal = @ \cup {next}])
    <2> DEFINE r == [run[e] EXCEPT !.unit = u + 1, !.terminal = @ \cup {next}]
    <2>1. /\ r.pc = "plan" /\ r.unit = u + 1 /\ r.result = run[e].result /\ r.mode = run[e].mode
          /\ r.stop = run[e].stop /\ r.terminal = run[e].terminal \cup {next}
      BY <1>1, <1>2 DEF RunnerRow
    <2>2. run'[e] = r /\ \A f \in Experiments : f # e => run'[f] = run[f] /\ work'[f] = work[f]
      <3>1. SetRun(e, r)
        BY <1>14
      <3> HIDE DEF r
      <3> QED BY <1>2, <1>14, <3>1 DEF SetRun
    <2> HIDE DEF r
    <2>3. ASSUME Clean(exps[e].dirs)
          PROVE  /\ next \in DOMAIN exps[e].dirs /\ Hopeless(exps[e].dirs[next].attempts)
                 /\ UnitSound(Units[u], dirs2, exps[e].manifest.external, r, work[e][u])
      <3>1. TurnsPlanned(e, u, dirs2, done) /\ NextPlanned(e, u, dirs2, done)
        BY <1>9, <1>14, <2>3
      <3>2. next \in DOMAIN exps[e].dirs /\ Hopeless(exps[e].dirs[next].attempts)
        BY <1>6, <1>14, <3>1 DEF NextPlanned
      <3>3. work[e][u].pc = "off"
        BY <3>1 DEF TurnsPlanned
      <3> QED BY <1>10, <2>3, <3>2, <3>3
    <2>4. \A v \in DOMAIN Units : v # u => work'[e][v] = work[e][v]
      BY <1>14
    <2>5. PICK x : x = work[e][u]
      OBVIOUS
    <2>6. work'[e][u] = x /\ (Clean(exps[e].dirs) =>
            /\ \A t \in r.terminal : \/ t \in run[e].terminal
                                     \/ t \in DOMAIN exps[e].dirs /\ Hopeless(exps[e].dirs[t].attempts)
            /\ x.pc = "off" => r.terminal # {} \/ AllMarked(Units[u], dirs2)
            /\ UnitSound(Units[u], dirs2, exps[e].manifest.external, r, x))
      BY <1>14, <2>1, <2>3, <2>5
    <2>7. run[e].terminal \subseteq r.terminal
      BY <2>1
    <2> QED BY <1>1, <1>2, <1>3, <1>4, <1>8, <2>1, <2>2, <2>4, <2>6, <2>7, PlanGoesOn
  <1>15. CASE /\ done # Len(Units[u]) /\ ~CannotGoOn(histories[next])
              /\ SetRun(e, [run[e] EXCEPT !.unit = u + 1]) /\ SetWork(e, u, w)
    <2> DEFINE r == [run[e] EXCEPT !.unit = u + 1]
    <2>1. /\ r.pc = "plan" /\ r.unit = u + 1 /\ r.result = run[e].result /\ r.mode = run[e].mode
          /\ r.stop = run[e].stop /\ r.terminal = run[e].terminal
      BY <1>1, <1>2 DEF RunnerRow
    <2>2. w.pc = "queued" /\ w.turn = done + 1 /\ w.runtime = NoRuntime /\ w.state = before
      BY DEF IdleWorker
    <2> HIDE DEF w
    <2>3. run'[e] = r /\ \A f \in Experiments : f # e => run'[f] = run[f]
      <3>1. SetRun(e, r)
        BY <1>15
      <3> HIDE DEF r
      <3> QED BY <1>2, <3>1 DEF SetRun
    <2>4. /\ \A f \in Experiments : f # e => work'[f] = work[f]
          /\ work'[e][u] = w /\ \A v \in DOMAIN Units : v # u => work'[e][v] = work[e][v]
      BY <1>2, <1>4, <1>15 DEF SetWork
    <2> HIDE DEF r
    <2>5. ASSUME Clean(exps[e].dirs)
          PROVE  UnitSound(Units[u], dirs2, exps[e].manifest.external, r, w)
      <3>1. NextPlanned(e, u, dirs2, done)
        BY <1>9, <1>15, <2>5
      <3>2. ~CannotGoOn(exps[e].dirs[Units[u][done + 1].id].attempts)
        BY <1>6, <1>15, <3>1 DEF NextPlanned
      <3> QED BY <1>1, <1>2, <1>3, <1>4, <1>5, <1>7, <1>15, <2>2, <2>5, <3>2, QueuedSound
    <2>6. PICK x : x = w
      OBVIOUS
    <2>7. work'[e][u] = x /\ (Clean(exps[e].dirs) =>
            /\ \A t \in r.terminal : \/ t \in run[e].terminal
                                     \/ t \in DOMAIN exps[e].dirs /\ Hopeless(exps[e].dirs[t].attempts)
            /\ x.pc = "off" => r.terminal # {} \/ AllMarked(Units[u], dirs2)
            /\ UnitSound(Units[u], dirs2, exps[e].manifest.external, r, x))
      BY <2>1, <2>2, <2>4, <2>5, <2>6
    <2>8. run[e].terminal \subseteq r.terminal
      BY <2>1
    <2>9. run'[e] = r /\ \A f \in Experiments : f # e => run'[f] = run[f] /\ work'[f] = work[f]
      BY <2>3, <2>4
    <2>10. \A v \in DOMAIN Units : v # u => work'[e][v] = work[e][v]
      BY <2>4
    <2> QED BY <1>1, <1>2, <1>3, <1>4, <1>8, <2>1, <2>7, <2>8, <2>9, <2>10, PlanGoesOn
  <1> QED BY <1>11, <1>12, <1>13, <1>14, <1>15

-----------------------------------------------------------------------------
(* The environment.                                                        *)

\* A damaged directory is not clean, and the damage is counted.
LEMMA DamagedSound ==
  ASSUME SoundInv, BaseInv', NEW e \in Existing, NEW id \in DOMAIN exps[e].dirs,
         Spend("damages"), UNCHANGED <<scenario, run, work>>,
         NEW d \in CaseDir, SetDir(e, id, d), ~DirClean(d),
         Len(d.attempts) = Len(exps[e].dirs[id].attempts)
  PROVE  SoundInv'
  <1>1. /\ e \in Experiments /\ scenario \in Scenarios /\ RunnerTypeOK
        /\ exps[e].dirs \in [CaseIds(scenario.dataset) -> CaseDir]
    BY SoundFiles DEF SoundInv, BaseInv
  <1>2. id \in CaseIds(scenario.dataset)
    BY <1>1
  <1>3. /\ Existing' = Existing /\ exps' \in [Existing -> ExperimentFiles]
        /\ \A f \in Existing : f # e => exps'[f] = exps[f]
        /\ exps'[e].dirs[id] = d
        /\ \A other \in CaseIds(scenario.dataset) : other # id => exps'[e].dirs[other] = exps[e].dirs[other]
    BY <1>1, <1>2, DirSet
  <1>4. DOMAIN exps'[e].dirs = CaseIds(scenario.dataset)
    BY <1>3 DEF ExperimentFiles
  <1>5. ExpSound(Units, exps'[e].dirs, exps'[e].manifest.external, run'[e], work'[e])
    BY <1>2, <1>3, <1>4 DEF ExpSound, Clean
  <1>6. \A o \in DOMAIN exps'[e].dirs : Len(exps'[e].dirs[o].attempts) <= MaxAttempts
    <2>1. \A o \in CaseIds(scenario.dataset) : Len(exps[e].dirs[o].attempts) <= MaxAttempts
      BY <1>1 DEF SoundInv, FilesCounted
    <2> QED BY <1>2, <1>3, <1>4, <2>1
  <1>7. DamagesCounted'
    <2>1. "damages" \in DOMAIN scenario.budget /\ scenario.budget \in [DOMAIN scenario.budget -> Nat]
      BY <1>1, ScenariosAreValid
    <2>2. budget \in [DOMAIN scenario.budget -> Nat] /\ budget.damages <= scenario.budget.damages
      BY <1>1 DEF SoundInv, DamagesCounted, RunnerTypeOK
    <2>3. budget.damages \in Nat /\ scenario.budget.damages \in Nat
      BY <2>1, <2>2
    <2>4. budget.damages > 0 /\ budget'.damages = budget.damages - 1
      BY <2>1, <2>2 DEF Spend
    <2>5. budget'.damages < scenario.budget.damages
      BY <2>2, <2>3, <2>4
    <2> QED BY <2>3, <2>4, <2>5 DEF DamagesCounted, Undamaged
  <1>8. run'[e].result # "partial"
    BY <1>1 DEF SoundInv, ResultsKnown
  <1> QED BY <1>1, <1>3, <1>5, <1>6, <1>7, <1>8, SoundMoves

LEMMA DamageSound ==
  ASSUME SoundInv, BaseInv', NEW e \in Existing, NEW id \in DOMAIN exps[e].dirs,
         \/ DamageMarker(e, id) \/ StrayFile(e, id)
         \/ \E number \in DOMAIN exps[e].dirs[id].attempts : DamageAttempt(e, id, number)
  PROVE  SoundInv'
  <1> DEFINE old == exps[e].dirs[id]
  <1>1. /\ Spend("damages") /\ UNCHANGED <<scenario, run, work>>
    BY DEF DamageMarker, StrayFile, DamageAttempt
  <1>2. old \in CaseDir
    BY SoundFiles DEF SoundInv
  <1>3. old.attempts \in Seq(AttemptFile) /\ old.marker \in MarkerFile \cup {NoMarker}
    BY <1>2 DEF CaseDir
  <1>4. PICK d \in CaseDir : SetDir(e, id, d) /\ ~DirClean(d) /\ Len(d.attempts) = Len(old.attempts)
    <2>1. CASE DamageMarker(e, id)
      <3> DEFINE marker == [old.marker EXCEPT !.intact = FALSE]
                 d == [old EXCEPT !.marker.intact = FALSE]
      <3>1. SetDir(e, id, d)
        BY <2>1 DEF DamageMarker
      <3>2. old.marker \in MarkerFile
        BY <1>3, <2>1 DEF DamageMarker
      <3>3. d = [old EXCEPT !.marker = marker]
        OBVIOUS
      <3>4. marker \in MarkerFile /\ ~marker.intact
        BY <3>2 DEF MarkerFile
      <3> HIDE DEF d, marker
      <3>5. d \in CaseDir /\ d.attempts = old.attempts /\ d.marker = marker
        BY <1>2, <3>3, <3>4 DEF CaseDir
      <3>6. d.marker # NoMarker
        BY <3>4, <3>5, NothingIsNoFile DEF NoMarker
      <3> QED BY <3>1, <3>4, <3>5, <3>6 DEF DirClean, Marked
    <2>2. CASE StrayFile(e, id)
      <3> DEFINE d == [old EXCEPT !.junk = TRUE]
      <3>1. SetDir(e, id, d)
        BY <2>2 DEF StrayFile
      <3>2. d \in CaseDir /\ d.attempts = old.attempts /\ d.junk
        BY <1>2 DEF CaseDir
      <3> HIDE DEF d
      <3> QED BY <3>1, <3>2 DEF DirClean
    <2>3. ASSUME NEW number \in DOMAIN old.attempts, DamageAttempt(e, id, number)
          PROVE  \E d \in CaseDir : SetDir(e, id, d) /\ ~DirClean(d) /\ Len(d.attempts) = Len(old.attempts)
      <3> DEFINE d == [old EXCEPT !.attempts[number].intact = FALSE]
                 file == [old.attempts[number] EXCEPT !.intact = FALSE]
                 files == [old.attempts EXCEPT ![number] = file]
      <3>1. SetDir(e, id, d)
        BY <2>3 DEF DamageAttempt
      <3>2. old.attempts[number] \in AttemptFile
        BY <1>3
      <3>3. file \in AttemptFile /\ ~file.intact
        BY <3>2 DEF AttemptFile
      <3>4. d = [old EXCEPT !.attempts = files]
        OBVIOUS
      <3> HIDE DEF file
      <3>5. files \in Seq(AttemptFile) /\ Len(files) = Len(old.attempts) /\ number \in DOMAIN files
            /\ files[number] = file
        BY <1>3, <3>3
      <3> HIDE DEF files, d
      <3>6. d \in CaseDir /\ d.attempts = files
        BY <1>2, <3>4, <3>5 DEF CaseDir
      <3>7. ~DirClean(d)
        BY <3>3, <3>5, <3>6 DEF DirClean
      <3> QED BY <3>1, <3>5, <3>6, <3>7
    <2> QED BY <2>1, <2>2, <2>3
  <1> QED BY <1>1, <1>4, DamagedSound

LEMMA EnvironmentSound ==
  ASSUME SoundInv, BaseInv', Environment
  PROVE  SoundInv'
  <1>1. ASSUME NEW e \in Experiments, RequestStop(e) \/ Crash(e) PROVE SoundInv'
    BY <1>1, RequestStopSound, CrashSound
  <1>2. ASSUME NEW key \in DOMAIN cache, DamageCache(key) PROVE SoundInv'
    <2>1. Spend("damages") /\ UNCHANGED <<scenario, exps, run, work>>
      BY <1>2 DEF DamageCache
    <2> QED BY <2>1, NobodyMovesSoundly
  <1>3. ASSUME NEW e \in Existing, NEW id \in DOMAIN exps[e].dirs,
               \/ DamageMarker(e, id) \/ StrayFile(e, id)
               \/ \E number \in DOMAIN exps[e].dirs[id].attempts : DamageAttempt(e, id, number)
        PROVE  SoundInv'
    BY <1>3, DamageSound
  <1>4. ASSUME NEW c \in Codes, Upgrade(c) PROVE SoundInv'
    <2>1. Spend("upgrades") /\ UNCHANGED <<scenario, exps, run, work>>
      BY <1>4 DEF Upgrade
    <2> QED BY <2>1, NobodyMovesSoundly
  <1> QED BY <1>1, <1>2, <1>3, <1>4 DEF Environment

-----------------------------------------------------------------------------
(* Every step.                                                             *)

LEMMA RunnerStepSound ==
  ASSUME SoundInv, BaseInv', NEW e \in Experiments, RunnerStep(e)
  PROVE  SoundInv'
  <1>1. CASE Preparation(e)
    BY <1>1, ScanSound, PrepareUnitSound, StartThreadsSound DEF Preparation
  <1>2. ASSUME NEW u \in DOMAIN Units, UnitStep(e, u) PROVE SoundInv'
    <2>1. CASE TakeUnit(e, u) \/ StartTurn(e, u) \/ RetryAttempt(e, u) \/ EnterCase(e, u)
      BY <2>1, TakeUnitSound, StartTurnSound, EnterCaseSound
    <2>2. CASE \/ StageHit(e, u) \/ ReplayMiss(e, u) \/ LocalStage(e, u) \/ RequestCall(e, u)
               \/ CallStopped(e, u) \/ Dispatch(e, u) \/ PublishStage(e, u)
      BY <2>2, StageHitSound, CallSound, StoreSound
    <2>3. CASE \/ \E answer \in Answers : Answer(e, u, answer)
               \/ \E retryable \in BOOLEAN : ProviderFails(e, u, retryable)
      BY <2>3, AnswerSound, ProviderFailsSound
    <2>4. CASE SucceedCase(e, u) \/ RecordAttempt(e, u) \/ MarkCase(e, u)
      BY <2>4, SucceedCaseSound, RecordAttemptSound, MarkCaseSound
    <2> QED BY <1>2, <2>1, <2>2, <2>3, <2>4 DEF UnitStep
  <1>3. CASE FinishRun(e)
    BY <1>3, FinishRunSound
  <1> QED BY <1>1, <1>2, <1>3 DEF RunnerStep

LEMMA NextSound ==
  ASSUME SoundInv, Next
  PROVE  SoundInv'
  <1>1. BaseInv'
    BY NextKeeps DEF SoundInv
  <1> QED BY <1>1, LifecycleSound, RunnerStepSound, EnvironmentSound DEF Next

LEMMA NothingSound ==
  ASSUME SoundInv, UNCHANGED runnerVars
  PROVE  SoundInv'
  <1>1. BaseInv'
    BY NothingKeeps DEF SoundInv
  <1>2. UNCHANGED <<scenario, exps, run, work>> /\ budget' = budget
    BY DEF runnerVars
  <1> QED BY <1>1, <1>2, NobodyMovesSoundly

LEMMA AggregatorSound ==
  ASSUME SoundInv, AggregatorStep
  PROVE  SoundInv'
  <1>1. BaseInv'
    BY AggregatorKeeps DEF SoundInv
  <1>2. CASE (\E e \in Experiments : StartAggregation(e)) \/ AggCrash
    <2>1. UNCHANGED <<scenario, exps, run, work>> /\ \E what : Spend(what)
      BY <1>2 DEF StartAggregation, AggCrash
    <2> QED BY <1>1, <2>1, NobodyMovesSoundly
  <1>3. CASE \/ ScanCase \/ EvidenceCase \/ LoadCase \/ ProveCase \/ NextPass
             \/ MakeBundle \/ PublishFile \/ Published
    BY <1>3, NothingSound
       DEF ScanCase, EvidenceCase, LoadCase, ProveCase, ReadInto, NextPass, MakeBundle,
           PublishFile, Published
  <1> QED BY <1>2, <1>3 DEF AggregatorStep

LEMMA InitSound == ASSUME Init PROVE SoundInv
  <1>1. BaseInv
    BY InitKeeps
  <1>2. Existing = {} /\ scenario \in Scenarios /\ budget = scenario.budget
    BY DEF Init, Existing
  <1>3. FilesCounted /\ \A e \in Existing : Sound(e)
    BY <1>2 DEF FilesCounted
  <1>4. ResultsKnown
    BY DEF Init, IdleRun, ResultsKnown
  <1>5. DamagesCounted
    <2>1. budget.damages \in Nat
      BY <1>2, ScenariosAreValid
    <2> QED BY <1>2, <2>1 DEF DamagesCounted
  <1> QED BY <1>1, <1>3, <1>4, <1>5 DEF SoundInv

\* The files, threads and results of the runners agree in every state.
LEMMA SoundInvAlways == AggSpec => []SoundInv
  <1>1. AggInit => SoundInv
    BY InitSound DEF AggInit
  <1>2. SoundInv /\ [AggNext]_allVars => SoundInv'
    BY NextSound, AggregatorSound, NothingSound DEF AggNext, allVars
  <1> QED BY <1>1, <1>2, PTL DEF AggSpec

-----------------------------------------------------------------------------
(* Races for the cache.                                                    *)
(*                                                                         *)
(* RaceInv adds to SoundInv what the threads and the cache say of each     *)
(* other: a thread that an exception ended lost a race, and where one      *)
(* thread of one runner works at a time nothing is filed behind its back.  *)

OneThread == scenario.serial /\ scenario.concurrency = 1

CacheIntact == Undamaged => \A key \in DOMAIN cache : cache[key].intact

CallsKnown ==
  \A e \in Existing : \A u \in DOMAIN Units :
    work[e][u].pc \in Dispatched => StageAt(e, u) \in Providers

RacesLost ==
  Undamaged =>
    \A e \in Existing : \A u \in DOMAIN Units : work[e][u].pc = "raised" => LostRace(e, u)

OneRunner == \A e, f \in Experiments : run[e].pc # "off" /\ run[f].pc # "off" => e = f
OneWorker == \A e \in Experiments : \A u, v \in Working(e) : u = v

NothingFiledMeanwhile ==
  \A e \in Existing : \A u \in DOMAIN Units :
    work[e][u].pc \in Dispatched /\ work[e][u].mode = "cache" => ~Cached(StageKey(e, u))

NothingRaised ==
  Undamaged =>
    /\ \A e \in Experiments : run[e].result # "raised"
    /\ \A e \in Existing : \A u \in DOMAIN Units : work[e][u].pc # "raised"

RaceInv ==
  /\ CacheIntact /\ CallsKnown /\ RacesLost
  /\ OneThread => OneRunner /\ OneWorker /\ NothingFiledMeanwhile /\ NothingRaised

\* The stage of a thread that keeps its place.
LEMMA StageStays ==
  ASSUME scenario' = scenario, NEW e, NEW u, exps'[e].manifest = exps[e].manifest,
         SameStage(work[e][u], work'[e][u])
  PROVE  StageAt(e, u)' = StageAt(e, u) /\ StageKey(e, u)' = StageKey(e, u)
  <1>1. Units' = Units
    BY SameUnits
  <1>2. CurrentCase(e, u)' = CurrentCase(e, u)
    BY <1>1 DEF CurrentCase, SameStage
  <1>3. StageAt(e, u)' = StageAt(e, u)
    BY DEF StageAt, SameStage
  <1> QED BY <1>2, <1>3 DEF StageKey, SameStage

\* Nothing is broken in directories that are clean.
LEMMA NothingBroken ==
  ASSUME SoundInv, NEW e \in Existing, NEW u \in DOMAIN Units, Clean(exps[e].dirs)
  PROVE  ~Broken(e, u)
  <1> DEFINE w == work[e][u]
             i == w.turn
             unit == Units[u]
             id == unit[i].id
             d == exps[e].dirs[id]
             external == exps[e].manifest.external
             file == Payload(e, u)
  <1>0. /\ scenario \in Scenarios /\ BaseInv /\ w \in WorkerRow
        /\ Len(unit) \in Nat /\ DOMAIN unit = 1 .. Len(unit)
        /\ exps[e].dirs \in [CaseIds(scenario.dataset) -> CaseDir]
    BY UnitFacts, SoundFiles DEF SoundInv
  <1>1. CurrentCase(e, u).id = id
    BY DEF CurrentCase
  <1>2. ThreadSound(unit, exps[e].dirs, external, run[e], w)
    BY SoundThread
  <1>3. ASSUME i \in DOMAIN unit
        PROVE  id \in CaseIds(scenario.dataset) /\ d \in CaseDir /\ HistoryReads(d)
               /\ d.attempts \in Seq(AttemptFile)
    BY <1>0, <1>3, UnitFacts, FilesReadBack
  <1>4. w.pc \in AtWork \cup {"retry"} => i \in DOMAIN unit
    BY <1>0, ThreadsStand DEF Stands
  <1>5. CASE w.pc \in {"turn", "retry"}
    BY <1>1, <1>3, <1>5 DEF Broken
  <1>6. ASSUME w.pc \in {"record", "mark"}
        PROVE  /\ i \in DOMAIN unit /\ d \in CaseDir /\ HistoryReads(d)
               /\ d.attempts \in Seq(AttemptFile) /\ ~Marked(d)
               /\ w.pc = "record" => Open(d.attempts) /\ w.number = Len(d.attempts) + 1
               /\ w.pc = "mark" => /\ d.attempts # <<>> /\ w.number = Len(d.attempts)
                                   /\ d.attempts[Len(d.attempts)].status = "succeeded"
    <2>1. i \in DOMAIN unit
      BY <1>4, <1>6 DEF AtWork
    <2>2. TurnKnown(unit, exps[e].dirs, w) /\ AttemptSound(unit, external, w, d.attempts)
      BY <1>2, <1>6 DEF ThreadSound, AtWork
    <2>3. i <= Len(unit)
      BY <1>0, <2>1
    <2>4. d \in CaseDir /\ HistoryReads(d) /\ d.attempts \in Seq(AttemptFile)
      BY <1>3, <2>1
    <2>5. ~Marked(d) /\ (w.pc = "record" => Open(d.attempts))
      BY <2>2, <2>3 DEF TurnKnown
    <2>6. /\ w.pc = "record" => w.number = Len(d.attempts) + 1
          /\ w.pc = "mark" => /\ d.attempts # <<>> /\ w.number = Len(d.attempts)
                              /\ d.attempts[Len(d.attempts)].status = "succeeded"
      BY <2>2 DEF AttemptSound
    <2> QED BY <2>1, <2>4, <2>5, <2>6
  <1>7. CASE w.pc = "record"
    <2>1. MayWriteAttempt(d, w.number, file)
      <3> HIDE DEF d, w, file
      <3> QED BY <1>6, <1>7, WriteAccepted
    <2> QED BY <1>1, <1>7, <2>1 DEF Broken
  <1>8. CASE w.pc = "mark"
    <2>1. MayMarkComplete(d, w.number)
      <3> HIDE DEF d, w
      <3>1. w.number \in DOMAIN d.attempts /\ w.number = Cardinality(DOMAIN d.attempts)
        BY <1>6, <1>8, CountIsLen
      <3> QED BY <1>6, <1>8, <3>1 DEF MayMarkComplete, Marked
    <2> QED BY <1>1, <1>8, <2>1 DEF Broken
  <1> QED BY <1>5, <1>7, <1>8 DEF Broken

\* At most one thread works, and it is the one that takes this step.
LEMMA OneWorks ==
  ASSUME BaseInv, RaceInv, OneThread, NEW e \in Existing, NEW u \in DOMAIN Units,
         ThreadStep(e, u),
         NEW f \in Existing, NEW v \in DOMAIN Units, f # e \/ v # u
  PROVE  work[f][v].pc \in Resting \cup Over
  <1>1. /\ RunnerTypeOK
        /\ work[f][v].pc \notin Resting => run[f].pc = "on"
        /\ work[e][u].pc \notin {"off"} => run[e].pc # "off"
        /\ e \in Experiments /\ f \in Experiments
    BY DEF BaseInv, RunnerTypeOK, Resting
  <1>2. SUFFICES ASSUME v \in Working(f) PROVE FALSE
    BY DEF Working, Resting, Over
  <1>3. work[f][v].pc \notin Resting
    BY <1>2 DEF Working, Resting
  <1>4. work[e][u].pc # "off"
    BY DEF ThreadStep, RowStep, Resting
  <1>5. f = e
    BY <1>1, <1>3, <1>4 DEF RaceInv, OneRunner
  <1>6. CASE work[e][u].pc \notin Resting \cup Over
    <2>1. u \in Working(e)
      BY <1>6 DEF Working, Resting, Over
    <2> QED BY <1>1, <1>2, <1>5, <2>1 DEF RaceInv, OneWorker
  <1>7. CASE work[e][u].pc \in Resting \cup Over
    <2>1. Cardinality(Working(e)) < exps[e].manifest.concurrency
      BY <1>7 DEF ThreadStep, RowStep
    <2>2. exps[e].manifest.concurrency = 1
      <3>1. exps[e].manifest.concurrency \in {scenario.concurrency}
        BY <1>1, ManifestFacts DEF ExperimentFiles
      <3> QED BY <3>1 DEF OneThread
    <2>3. Working(e) = {v}
      BY <1>1, <1>2, <1>5 DEF RaceInv, OneWorker
    <2>4. Cardinality(Working(e)) = 1
      BY <2>3, FS_Singleton
    <2> QED BY <2>1, <2>2, <2>4
  <1> QED BY <1>6, <1>7

LEMMA UndamagedWas ==
  ASSUME SoundInv, scenario' = scenario, budget' = budget \/ \E what : Spend(what), Undamaged'
  PROVE  Undamaged
  <1>1. budget'.damages <= budget.damages /\ budget.damages \in Nat /\ budget'.damages \in Nat
    BY Spending DEF SoundInv, BaseInv, RunnerTypeOK
  <1>2. budget.damages <= scenario.budget.damages
    BY DEF SoundInv, DamagesCounted
  <1> QED BY <1>1, <1>2 DEF Undamaged

LEMMA ThreadKeepsRaces ==
  ASSUME SoundInv, RaceInv, NEW e \in Existing, NEW u \in DOMAIN Units, ThreadStep(e, u),
         Undamaged' => Undamaged
  PROVE  RaceInv'
  <1>1. /\ scenario' = scenario /\ SameRuns /\ OthersStay(e, u) /\ CacheFilled /\ RowStep(e, u)
        /\ Existing' = Existing /\ \A f \in Existing : exps'[f].manifest = exps[f].manifest
        /\ Units' = Units /\ e \in Experiments /\ BaseInv
    BY SameUnits, SoundFiles DEF ThreadStep, SoundInv
  <1>2. \A f \in Existing : f \in Experiments
    BY <1>1 DEF BaseInv, RunnerTypeOK
  <1>3. ASSUME NEW f \in Existing, NEW v \in DOMAIN Units, f # e \/ v # u
        PROVE  /\ work'[f][v] = work[f][v]
               /\ StageAt(f, v)' = StageAt(f, v) /\ StageKey(f, v)' = StageKey(f, v)
    <2>1. work'[f][v] = work[f][v]
      BY <1>1, <1>2, <1>3 DEF OthersStay
    <2>2. SameStage(work[f][v], work'[f][v])
      BY <2>1 DEF SameStage
    <2> QED BY <1>1, <2>1, <2>2, StageStays
  <1>4. SameStage(work[e][u], work'[e][u]) =>
          StageAt(e, u)' = StageAt(e, u) /\ StageKey(e, u)' = StageKey(e, u)
    BY <1>1, StageStays
  <1>5. CacheIntact'
    BY <1>1 DEF RaceInv, CacheIntact, CacheFilled
  <1>6. CallsKnown'
    <2> SUFFICES ASSUME NEW f \in Existing, NEW v \in DOMAIN Units, work'[f][v].pc \in Dispatched
                 PROVE  StageAt(f, v)' \in Providers
      BY <1>1 DEF CallsKnown
    <2>1. CASE f # e \/ v # u
      BY <1>3, <2>1 DEF RaceInv, CallsKnown
    <2>2. CASE f = e /\ v = u
      <3>1. StageAt(e, u)' = StageAt(e, u)
        BY <1>1, <1>4, <2>2 DEF RowStep
      <3>2. StageAt(e, u) \in Providers
        BY <1>1, <2>2 DEF RowStep, RaceInv, CallsKnown
      <3> QED BY <2>2, <3>1, <3>2
    <2> QED BY <2>1, <2>2
  <1>7. ASSUME NEW f \in Existing, NEW v \in DOMAIN Units, Undamaged', work'[f][v].pc = "raised"
        PROVE  /\ LostRace(f, v)'
               /\ work[f][v].pc = "raised" \/ (f = e /\ v = u /\ Loses(e, u))
    <2>1. CASE f # e \/ v # u
      <3>1. /\ work'[f][v] = work[f][v]
            /\ StageAt(f, v)' = StageAt(f, v) /\ StageKey(f, v)' = StageKey(f, v)
        BY <1>3, <2>1
      <3>2. LostRace(f, v)
        BY <1>7, <3>1 DEF RaceInv, RacesLost
      <3>3. StageKey(f, v) \in DOMAIN cache' /\ cache'[StageKey(f, v)] = cache[StageKey(f, v)]
        BY <1>1, <3>2 DEF LostRace, Cached, CacheFilled
      <3>4. LostRace(f, v)'
        BY <3>1, <3>2, <3>3 DEF LostRace, Cached
      <3> QED BY <1>7, <3>1, <3>4
    <2>2. CASE f = e /\ v = u
      <3>1. /\ SameStage(work[e][u], work'[e][u]) /\ cache' = cache
            /\ work'[e][u].answer = work[e][u].answer /\ (Loses(e, u) \/ Broken(e, u))
        BY <1>1, <1>7, <2>2 DEF RowStep
      <3>2. Loses(e, u)
        <4>1. Clean(exps[e].dirs)
          BY <1>7 DEF SoundInv, DamagesCounted
        <4> QED BY <3>1, <4>1, NothingBroken
      <3>3. StageAt(e, u) \in Providers
        BY <3>2 DEF Loses, RaceInv, CallsKnown, Dispatched
      <3>4. Cached(StageKey(e, u)) /\ cache[StageKey(e, u)].intact
        BY <1>7, <3>2 DEF Loses, RaceInv, CacheIntact, Cached
      <3>5. cache[StageKey(e, u)].value # work[e][u].answer /\ work[e][u].mode = "cache"
        BY <3>2, <3>4 DEF Loses
      <3>6. StageAt(e, u)' = StageAt(e, u) /\ StageKey(e, u)' = StageKey(e, u)
        BY <1>4, <3>1
      <3>7. LostRace(e, u)'
        BY <3>1, <3>3, <3>4, <3>5, <3>6 DEF LostRace, Cached, SameStage
      <3> QED BY <2>2, <3>2, <3>7
    <2> QED BY <2>1, <2>2
  <1>8. RacesLost'
    BY <1>1, <1>7 DEF RacesLost
  <1>9. ASSUME OneThread PROVE (OneRunner /\ OneWorker /\ NothingFiledMeanwhile /\ NothingRaised)'
    <2>0. OneRunner /\ OneWorker /\ NothingFiledMeanwhile /\ NothingRaised
      BY <1>9 DEF RaceInv
    <2>1. OneRunner'
      BY <1>1, <2>0 DEF OneRunner, SameRuns
    <2>2. ASSUME NEW f \in Existing, NEW v \in DOMAIN Units, f # e \/ v # u
          PROVE  work[f][v].pc \in Resting \cup Over
      BY <1>1, <1>9, <2>2, OneWorks
    <2>3. OneWorker'
      <3> SUFFICES ASSUME NEW f \in Experiments, NEW v \in DOMAIN Units, NEW z \in DOMAIN Units,
                          work'[f][v].pc \notin Resting \cup Over,
                          work'[f][z].pc \notin Resting \cup Over
                   PROVE  v = z
        BY <1>1 DEF OneWorker, Working, Resting, Over
      <3>1. f \in Existing
        <4>1. CASE f = e
          BY <4>1
        <4>2. CASE f # e
          BY <1>1, <4>2 DEF OthersStay, BaseInv, RunnerTypeOK, Resting
        <4> QED BY <4>1, <4>2
      <3> QED BY <1>3, <2>2, <3>1
    <2>4. NothingFiledMeanwhile'
      <3> SUFFICES ASSUME NEW f \in Existing, NEW v \in DOMAIN Units,
                          work'[f][v].pc \in Dispatched, work'[f][v].mode = "cache"
                   PROVE  ~Cached(StageKey(f, v))'
        BY <1>1 DEF NothingFiledMeanwhile
      <3>1. f = e /\ v = u
        BY <1>3, <2>2 DEF Resting, Over, Dispatched
      <3>2. SameStage(work[e][u], work'[e][u]) /\ cache' = cache
        BY <1>1, <3>1 DEF RowStep
      <3>3. ~Cached(StageKey(e, u))
        BY <1>1, <2>0, <3>1, <3>2 DEF RowStep, NothingFiledMeanwhile, SameStage
      <3> QED BY <1>4, <3>1, <3>2, <3>3 DEF Cached
    <2>5. NothingRaised'
      <3>1. ASSUME Undamaged' PROVE \A f \in Experiments : run'[f].result # "raised"
        BY <1>1, <2>0, <3>1 DEF NothingRaised, SameRuns
      <3>2. ASSUME Undamaged', NEW f \in Existing, NEW v \in DOMAIN Units, work'[f][v].pc = "raised"
            PROVE  FALSE
        <4>1. work[f][v].pc = "raised" \/ Loses(e, u)
          BY <1>7, <3>2
        <4>2. ~Loses(e, u)
          BY <2>0 DEF NothingFiledMeanwhile, Loses, Dispatched
        <4> QED BY <2>0, <3>2, <4>1, <4>2 DEF NothingRaised
      <3> QED BY <1>1, <3>1, <3>2 DEF NothingRaised
    <2> QED BY <2>1, <2>3, <2>4, <2>5
  <1>10. OneThread' => OneThread
    BY <1>1 DEF OneThread
  <1> QED BY <1>5, <1>6, <1>8, <1>9, <1>10 DEF RaceInv

-----------------------------------------------------------------------------
(* Steps that are no thread's.                                             *)

CacheRead ==
  /\ DOMAIN cache' = DOMAIN cache
  /\ \A k \in DOMAIN cache : cache'[k].value = cache[k].value
  /\ Undamaged' => \A k \in DOMAIN cache : cache'[k].intact = cache[k].intact

ThreadsRest ==
  \A f \in Experiments : \A v \in DOMAIN Units :
    work'[f][v] = work[f][v] \/ work'[f][v].pc \in Resting

\* No runner starts, or one does while all rest.
RunnersRest ==
  \/ \A f \in Experiments : run'[f].pc # "off" => run[f].pc # "off"
  \/ /\ scenario.serial => \A f \in Experiments : run[f].pc = "off"
     /\ \E e \in Experiments : \A f \in Experiments : f # e => run'[f] = run[f]

ResultsRest ==
  \A f \in Experiments :
    run'[f].result = "raised" =>
      run[f].result = "raised" \/ (f \in Existing /\ \E v \in DOMAIN Units : work[f][v].pc = "raised")

CalmStep ==
  /\ scenario' = scenario /\ Existing \subseteq Existing' /\ Existing' \subseteq Experiments
  /\ \A f \in Existing : exps'[f].manifest = exps[f].manifest
  /\ CacheRead /\ ThreadsRest /\ RunnersRest /\ ResultsRest

LEMMA CalmKeepsRaces ==
  ASSUME SoundInv, RaceInv, CalmStep, Undamaged' => Undamaged
  PROVE  RaceInv'
  <1>1. /\ scenario' = scenario /\ Existing \subseteq Existing' /\ Existing' \subseteq Experiments
        /\ \A f \in Existing : exps'[f].manifest = exps[f].manifest
        /\ CacheRead /\ ThreadsRest /\ RunnersRest /\ ResultsRest
        /\ Units' = Units /\ BaseInv
    BY SameUnits DEF CalmStep, SoundInv
  <1>2. ASSUME NEW f \in Existing', NEW v \in DOMAIN Units, work'[f][v].pc \notin Resting
        PROVE  /\ f \in Existing /\ work'[f][v] = work[f][v]
               /\ StageAt(f, v)' = StageAt(f, v) /\ StageKey(f, v)' = StageKey(f, v)
    <2>1. f \in Experiments
      BY <1>1
    <2>2. work'[f][v] = work[f][v]
      BY <1>1, <1>2, <2>1 DEF ThreadsRest
    <2>3. f \in Existing
      BY <1>1, <1>2, <2>1, <2>2 DEF BaseInv, RunnerTypeOK, Resting
    <2>4. SameStage(work[f][v], work'[f][v]) /\ exps'[f].manifest = exps[f].manifest
      BY <1>1, <2>2, <2>3 DEF SameStage
    <2> QED BY <1>1, <2>2, <2>3, <2>4, StageStays
  <1>3. CacheIntact'
    BY <1>1 DEF RaceInv, CacheIntact, CacheRead
  <1>4. CallsKnown'
    BY <1>1, <1>2 DEF RaceInv, CallsKnown, Dispatched, Resting
  <1>5. RacesLost'
    <2> SUFFICES ASSUME Undamaged', NEW f \in Existing', NEW v \in DOMAIN Units, work'[f][v].pc = "raised"
                 PROVE  LostRace(f, v)'
      BY <1>1 DEF RacesLost
    <2>1. /\ f \in Existing /\ work'[f][v] = work[f][v]
          /\ StageAt(f, v)' = StageAt(f, v) /\ StageKey(f, v)' = StageKey(f, v)
      BY <1>2 DEF Resting
    <2>2. LostRace(f, v)
      BY <2>1 DEF RaceInv, RacesLost
    <2>3. /\ StageKey(f, v) \in DOMAIN cache'
          /\ cache'[StageKey(f, v)].value = cache[StageKey(f, v)].value
      BY <1>1, <2>2 DEF LostRace, Cached, CacheRead
    <2> QED BY <2>1, <2>2, <2>3 DEF LostRace, Cached
  <1>6. ASSUME OneThread PROVE (OneRunner /\ OneWorker /\ NothingFiledMeanwhile /\ NothingRaised)'
    <2>0. OneRunner /\ OneWorker /\ NothingFiledMeanwhile /\ NothingRaised
      BY <1>6 DEF RaceInv
    <2>1. OneRunner'
      BY <1>1, <1>6, <2>0 DEF OneRunner, RunnersRest, OneThread
    <2>2. OneWorker'
      BY <1>1, <2>0 DEF OneWorker, Working, ThreadsRest, Resting
    <2>3. NothingFiledMeanwhile'
      <3> SUFFICES ASSUME NEW f \in Existing', NEW v \in DOMAIN Units,
                          work'[f][v].pc \in Dispatched, work'[f][v].mode = "cache"
                   PROVE  ~Cached(StageKey(f, v))'
        BY <1>1 DEF NothingFiledMeanwhile
      <3>1. f \in Existing /\ work'[f][v] = work[f][v] /\ StageKey(f, v)' = StageKey(f, v)
        BY <1>2 DEF Dispatched, Resting
      <3> QED BY <1>1, <2>0, <3>1 DEF NothingFiledMeanwhile, Cached, CacheRead
    <2>4. NothingRaised'
      <3> SUFFICES ASSUME Undamaged' PROVE
              /\ \A f \in Experiments : run'[f].result # "raised"
              /\ \A f \in Existing' : \A v \in DOMAIN Units : work'[f][v].pc # "raised"
        BY <1>1 DEF NothingRaised
      <3>1. \A f \in Experiments : run'[f].result # "raised"
        BY <1>1, <2>0 DEF NothingRaised, ResultsRest
      <3>2. \A f \in Existing' : \A v \in DOMAIN Units : work'[f][v].pc # "raised"
        BY <1>2, <2>0 DEF NothingRaised, Resting
      <3> QED BY <3>1, <3>2
    <2> QED BY <2>1, <2>2, <2>3, <2>4
  <1>7. OneThread' => OneThread
    BY <1>1 DEF OneThread
  <1> QED BY <1>3, <1>4, <1>5, <1>6, <1>7 DEF RaceInv

LEMMA WorkRests == ASSUME work' = work PROVE ThreadsRest
  BY DEF ThreadsRest

LEMMA CacheStands == ASSUME cache' = cache PROVE CacheRead
  BY DEF CacheRead

LEMMA RunnersSame == ASSUME run' = run PROVE RunnersRest /\ ResultsRest
  BY DEF RunnersRest, ResultsRest

\* One row of the runners changes.
LEMMA RunnerSet ==
  ASSUME RunnerTypeOK, NEW e \in Experiments, NEW r, SetRun(e, r)
  PROVE  /\ run'[e] = r /\ \A f \in Experiments : f # e => run'[f] = run[f]
         /\ (r.pc # "off" => run[e].pc # "off") => RunnersRest
         /\ (\/ r.result # "raised" \/ run[e].result = "raised"
             \/ e \in Existing /\ \E v \in DOMAIN Units : work[e][v].pc = "raised")
            => ResultsRest
  <1>1. run \in [Experiments -> RunnerRow]
    BY DEF RunnerTypeOK
  <1>2. run'[e] = r /\ \A f \in Experiments : f # e => run'[f] = run[f]
    BY <1>1 DEF SetRun
  <1>3. (r.pc # "off" => run[e].pc # "off") => RunnersRest
    BY <1>2 DEF RunnersRest
  <1> QED BY <1>2, <1>3 DEF ResultsRest

LEMMA StopsThreads ==
  ASSUME RunnerTypeOK, NEW e \in Experiments, StopWork(e)
  PROVE  ThreadsRest
  BY DEF RunnerTypeOK, StopWork, ThreadsRest, IdleWorker, Resting

LEMMA StartIsCalm ==
  ASSUME RunnerTypeOK, NEW e \in Experiments, NEW mode, NEW after, Alone,
         StartRunner(e, mode, after)
  PROVE  RunnersRest /\ ResultsRest
  <1>1. PICK r : SetRun(e, r) /\ r.result = "none"
    <2> DEFINE r == [IdleRun EXCEPT !.pc = "start", !.mode = mode, !.after = after]
    <2>1. SetRun(e, r) /\ r.result = "none"
      BY DEF StartRunner, IdleRun
    <2> HIDE DEF r
    <2> QED BY <2>1
  <1>2. \A f \in Experiments : f # e => run'[f] = run[f]
    BY <1>1, RunnerSet
  <1>3. ResultsRest
    BY <1>1, RunnerSet
  <1> QED BY <1>2, <1>3 DEF RunnersRest, Alone

LEMMA CreateIsCalm ==
  ASSUME NEW e \in Experiments, NEW manifest, Create(e, manifest), Existing \subseteq Experiments
  PROVE  /\ Existing \subseteq Existing' /\ Existing' \subseteq Experiments
         /\ \A f \in Existing : exps'[f].manifest = exps[f].manifest
  <1>1. /\ e \notin Existing
        /\ exps' = [f \in Existing \cup {e} |->
                   IF f = e
                   THEN [manifest |-> manifest,
                         dirs |-> [id \in CaseIds(manifest.dataset) |-> EmptyDir]]
                   ELSE exps[f]]
    BY DEF Create, FirstFree
  <1> QED BY <1>1 DEF Existing

LEMMA LifecycleIsCalm ==
  ASSUME BaseInv, Lifecycle
  PROVE  CalmStep /\ \E what : Spend(what)
  <1>0. RunnerTypeOK /\ Existing \subseteq Experiments
    BY DEF BaseInv, RunnerTypeOK
  <1>1. ASSUME NEW e \in Experiments, NEW mode \in CacheModes, NEW after \in scenario.stopAfter,
               Launch(e, mode, after) \/ Relaunch(e, mode, after)
        PROVE  CalmStep /\ \E what : Spend(what)
    <2>1. /\ Alone /\ StartRunner(e, mode, after) /\ UNCHANGED <<scenario, cache, work>>
          /\ \E what : Spend(what)
          /\ exps' = exps \/ \E manifest : Create(e, manifest)
      BY <1>1 DEF Launch, Relaunch
    <2>2. RunnersRest /\ ResultsRest
      BY <1>0, <2>1, StartIsCalm
    <2>3. /\ Existing \subseteq Existing' /\ Existing' \subseteq Experiments
          /\ \A f \in Existing : exps'[f].manifest = exps[f].manifest
      BY <1>0, <2>1, CreateIsCalm DEF Existing
    <2> QED BY <2>1, <2>2, <2>3, WorkRests, CacheStands DEF CalmStep
  <1>2. ASSUME NEW source \in Experiments, NEW e \in Experiments,
               ReplayExperiment(source, e) \/ ReplayWithProviders(source, e)
        PROVE  CalmStep /\ \E what : Spend(what)
    <2>1. /\ Alone /\ (StartRunner(e, "replay", 0) \/ run' = run)
          /\ UNCHANGED <<scenario, cache, work>>
          /\ Spend("replays") /\ Create(e, PlannedManifest("replay"))
      BY <1>2 DEF ReplayExperiment, ReplayWithProviders, NewReplay
    <2>2. RunnersRest /\ ResultsRest
      BY <1>0, <2>1, StartIsCalm, RunnersSame
    <2>3. /\ Existing \subseteq Existing' /\ Existing' \subseteq Experiments
          /\ \A f \in Existing : exps'[f].manifest = exps[f].manifest
      BY <1>0, <2>1, CreateIsCalm
    <2> QED BY <2>1, <2>2, <2>3, WorkRests, CacheStands DEF CalmStep
  <1>3. ASSUME NEW e \in Experiments, NEW mode \in CacheModes, NEW after \in scenario.stopAfter,
               \/ RunExperiment(e, mode, after) \/ ResumeExperiment(e, mode, after)
               \/ RunWithProviders(e, mode, after) \/ ResumeWithProviders(e, mode, after)
        PROVE  CalmStep /\ \E what : Spend(what)
    <2>1. Launch(e, mode, after) \/ Relaunch(e, mode, after)
      BY <1>3 DEF RunExperiment, RunWithProviders, ResumeExperiment, ResumeWithProviders
    <2> QED BY <1>1, <2>1
  <1> QED BY <1>2, <1>3 DEF Lifecycle

LEMMA FilesStand ==
  ASSUME RunnerTypeOK,
         \/ exps' = exps
         \/ \E e \in Existing : \E dirs : SetDirs(e, dirs)
         \/ \E e \in Existing : \E id, dir : SetDir(e, id, dir)
  PROVE  /\ Existing \subseteq Existing' /\ Existing' \subseteq Experiments
         /\ \A f \in Existing : exps'[f].manifest = exps[f].manifest
  <1>1. Existing \subseteq Experiments
    BY DEF RunnerTypeOK
  <1>2. CASE exps' = exps
    BY <1>1, <1>2 DEF Existing
  <1>3. ASSUME NEW e \in Existing, NEW dirs, SetDirs(e, dirs)
        PROVE  Existing' = Existing /\ \A f \in Existing : exps'[f].manifest = exps[f].manifest
    BY <1>3 DEF SetDirs, Existing
  <1>4. ASSUME NEW e \in Existing, NEW id, NEW dir, SetDir(e, id, dir)
        PROVE  Existing' = Existing /\ \A f \in Existing : exps'[f].manifest = exps[f].manifest
    BY <1>4, DirMoves
  <1> QED BY <1>1, <1>2, <1>3, <1>4

LEMMA QueuedIsCalm ==
  ASSUME RunnerTypeOK, NEW e \in Experiments, NEW u \in DOMAIN Units, NEW w, SetWork(e, u, w), w.pc = "queued"
  PROVE  ThreadsRest
  <1>1. work'[e][u] = w /\ OthersStay(e, u)
    BY WorkMoves
  <1> QED BY <1>1 DEF OthersStay, ThreadsRest, Resting

LEMMA RunIsCalm ==
  ASSUME BaseInv, NEW e \in Experiments, Preparation(e) \/ FinishRun(e)
  PROVE  CalmStep /\ budget' = budget
  <1>0. RunnerTypeOK /\ run[e] \in RunnerRow
    BY DEF BaseInv, RunnerTypeOK
  <1>1. ASSUME NEW r, SetRun(e, r), r.result # "raised", run[e].pc # "off"
        PROVE  RunnersRest /\ ResultsRest
    BY <1>0, <1>1, RunnerSet
  <1>2. CASE ScanDirectory(e)
    <2>1. /\ run[e].pc = "start" /\ UNCHANGED <<scenario, budget, exps, cache, work>>
      BY <1>2 DEF ScanDirectory
    <2>2. PICK r : SetRun(e, r) /\ (r.result = "blocked" \/ r.result = run[e].result)
      <3>1. \/ SetRun(e, [run[e] EXCEPT !.pc = "off", !.result = "blocked"])
            \/ SetRun(e, [run[e] EXCEPT !.pc = "plan", !.unit = 1])
        BY <1>2 DEF ScanDirectory
      <3>2. /\ [run[e] EXCEPT !.pc = "off", !.result = "blocked"].result = "blocked"
            /\ [run[e] EXCEPT !.pc = "plan", !.unit = 1].result = run[e].result
        BY <1>0 DEF RunnerRow
      <3> QED BY <3>1, <3>2
    <2>3. RunnersRest
      BY <1>0, <2>1, <2>2, RunnerSet
    <2>4. ResultsRest
      BY <1>0, <2>1, <2>2, RunnerSet
    <2> QED BY <1>0, <2>1, <2>3, <2>4, WorkRests, CacheStands, FilesStand DEF CalmStep
  <1>3. CASE StartThreads(e)
    <2>1. /\ run[e].pc = "plan" /\ UNCHANGED <<scenario, budget, exps, cache, work>>
          /\ SetRun(e, [run[e] EXCEPT !.pc = "on"])
      BY <1>3 DEF StartThreads
    <2>2. PICK r : SetRun(e, r) /\ r.result = run[e].result
      <3>1. [run[e] EXCEPT !.pc = "on"].result = run[e].result
        BY <1>0 DEF RunnerRow
      <3> QED BY <2>1, <3>1
    <2>3. RunnersRest
      BY <1>0, <2>1, <2>2, RunnerSet
    <2>4. ResultsRest
      BY <1>0, <2>1, <2>2, RunnerSet
    <2> QED BY <1>0, <2>1, <2>3, <2>4, WorkRests, CacheStands, FilesStand DEF CalmStep
  <1>4. CASE PrepareUnit(e)
    <2> DEFINE u == run[e].unit
    <2>1. /\ run[e].pc = "plan" /\ u <= Len(Units) /\ UNCHANGED <<scenario, budget, cache>>
          /\ \E dirs : SetDirs(e, dirs)
      BY <1>4 DEF PrepareUnit
    <2>2. u \in DOMAIN Units
      <3>1. u \in Nat /\ u # 0
        BY <1>0, <2>1 DEF RunnerRow, BaseInv
      <3>2. Len(Units) \in Nat /\ DOMAIN Units = 1 .. Len(Units)
        BY <1>0, UnitsAreCases DEF RunnerTypeOK
      <3> QED BY <2>1, <3>1, <3>2
    <2>3. e \in Existing
      BY <1>0, <2>1 DEF RunnerTypeOK
    <2>4. ThreadsRest /\ \E r : SetRun(e, r) /\ (r.result = "refused" \/ r.result = run[e].result)
      <3>1. \A t, v : /\ [run[e] EXCEPT !.pc = "off", !.result = "refused"].result = "refused"
                      /\ [run[e] EXCEPT !.unit = v].result = run[e].result
                      /\ [run[e] EXCEPT !.unit = v, !.terminal = t].result = run[e].result
        BY <1>0 DEF RunnerRow
      <3>2. \A i, s : [IdleWorker EXCEPT !.pc = "queued", !.turn = i, !.state = s].pc = "queued"
        BY DEF IdleWorker
      <3>3. \/ SetRun(e, [run[e] EXCEPT !.pc = "off", !.result = "refused"]) /\ StopWork(e)
            \/ SetRun(e, [run[e] EXCEPT !.unit = u + 1]) /\ UNCHANGED work
            \/ UNCHANGED work /\ \E t : SetRun(e, [run[e] EXCEPT !.unit = u + 1, !.terminal = t])
            \/ /\ SetRun(e, [run[e] EXCEPT !.unit = u + 1])
               /\ \E i, s : SetWork(e, u, [IdleWorker EXCEPT !.pc = "queued", !.turn = i, !.state = s])
        BY <1>4 DEF PrepareUnit
      <3> HIDE DEF u
      <3> QED BY <1>0, <2>2, <3>1, <3>2, <3>3, StopsThreads, WorkRests, QueuedIsCalm
    <2>5. RunnersRest
      BY <1>0, <2>1, <2>4, RunnerSet
    <2>6. ResultsRest
      BY <1>0, <2>4, RunnerSet
    <2> QED BY <1>0, <2>1, <2>3, <2>4, <2>5, <2>6, CacheStands, FilesStand DEF CalmStep
  <1>5. CASE FinishRun(e)
    <2> DEFINE raised == \E v \in DOMAIN Units : work[e][v].pc = "raised"
               result == IF raised THEN "raised" ELSE Summary(e)
               r == [run[e] EXCEPT !.pc = "off", !.result = result]
    <2>1. /\ run[e].pc = "on" /\ UNCHANGED <<scenario, budget, exps, cache>>
          /\ SetRun(e, r) /\ StopWork(e) /\ e \in Existing
      BY <1>0, <1>5 DEF FinishRun, RunnerTypeOK
    <2>2. result = "raised" => raised
      BY DEF Summary
    <2> HIDE DEF raised, result
    <2>3. r.result = result
      BY <1>0 DEF RunnerRow
    <2> HIDE DEF r
    <2>4. RunnersRest
      BY <1>0, <2>1, RunnerSet
    <2>5. ResultsRest
      BY <1>0, <2>1, <2>2, <2>3, RunnerSet DEF raised
    <2> QED BY <1>0, <2>1, <2>4, <2>5, StopsThreads, CacheStands, FilesStand DEF CalmStep
  <1> QED BY <1>2, <1>3, <1>4, <1>5 DEF Preparation

LEMMA EnvironmentIsCalm ==
  ASSUME SoundInv, Environment
  PROVE  CalmStep /\ \E what : Spend(what)
  <1>0. RunnerTypeOK /\ BaseInv
    BY DEF SoundInv, BaseInv
  <1>1. ASSUME NEW e \in Experiments, RequestStop(e) PROVE CalmStep /\ \E what : Spend(what)
    <2>1. /\ run[e].pc # "off" /\ Spend("stops") /\ SetRun(e, [run[e] EXCEPT !.stop = TRUE])
          /\ UNCHANGED <<scenario, exps, cache, work>>
      BY <1>1 DEF RequestStop
    <2>2. [run[e] EXCEPT !.stop = TRUE].result = run[e].result
      BY <1>0 DEF RunnerTypeOK, RunnerRow
    <2>3. RunnersRest
      BY <1>0, <2>1, RunnerSet
    <2>4. ResultsRest
      BY <1>0, <2>1, <2>2, RunnerSet
    <2> QED BY <1>0, <2>1, <2>3, <2>4, WorkRests, CacheStands, FilesStand DEF CalmStep
  <1>2. ASSUME NEW e \in Experiments, Crash(e) PROVE CalmStep /\ \E what : Spend(what)
    <2>1. /\ run[e].pc # "off" /\ Spend("crashes") /\ StopWork(e)
          /\ SetRun(e, [IdleRun EXCEPT !.result = "crashed"])
          /\ UNCHANGED <<scenario, exps, cache>>
      BY <1>2 DEF Crash
    <2>2. [IdleRun EXCEPT !.result = "crashed"].result = "crashed"
      BY DEF IdleRun
    <2>3. RunnersRest
      BY <1>0, <2>1, RunnerSet
    <2>4. ResultsRest
      BY <1>0, <2>1, <2>2, RunnerSet
    <2> QED BY <1>0, <2>1, <2>3, <2>4, StopsThreads, CacheStands, FilesStand DEF CalmStep
  <1>3. ASSUME NEW key \in DOMAIN cache, DamageCache(key) PROVE CalmStep /\ \E what : Spend(what)
    <2>1. /\ Spend("damages") /\ cache' = [cache EXCEPT ![key].intact = FALSE]
          /\ UNCHANGED <<scenario, exps, run, work>>
      BY <1>3 DEF DamageCache
    <2>2. ~Undamaged'
      <3>1. "damages" \in DOMAIN scenario.budget /\ scenario.budget.damages \in Nat
        BY <1>0, ScenariosAreValid DEF RunnerTypeOK
      <3>2. budget.damages <= scenario.budget.damages /\ budget \in [DOMAIN scenario.budget -> Nat]
        BY <1>0 DEF SoundInv, DamagesCounted, RunnerTypeOK
      <3>3. budget'.damages = budget.damages - 1 /\ budget.damages \in Nat
        BY <2>1, <3>1, <3>2 DEF Spend
      <3> QED BY <2>1, <3>1, <3>2, <3>3 DEF Undamaged
    <2>3. cache \in [DOMAIN cache -> [value : Values, intact : BOOLEAN]]
      BY <1>0 DEF RunnerTypeOK
    <2>4. CacheRead
      BY <2>1, <2>2, <2>3 DEF CacheRead
    <2> QED BY <1>0, <2>1, <2>4, WorkRests, RunnersSame, FilesStand DEF CalmStep
  <1>4. ASSUME NEW e \in Existing, NEW id \in DOMAIN exps[e].dirs,
               \/ DamageMarker(e, id) \/ StrayFile(e, id)
               \/ \E number \in DOMAIN exps[e].dirs[id].attempts : DamageAttempt(e, id, number)
        PROVE  CalmStep /\ \E what : Spend(what)
    <2>1. /\ Spend("damages") /\ UNCHANGED <<scenario, cache, run, work>>
          /\ \E dir : SetDir(e, id, dir)
      BY <1>4 DEF DamageMarker, StrayFile, DamageAttempt
    <2> QED BY <1>0, <2>1, CacheStands, WorkRests, RunnersSame, FilesStand DEF CalmStep
  <1>5. ASSUME NEW c \in Codes, Upgrade(c) PROVE CalmStep /\ \E what : Spend(what)
    <2>1. Spend("upgrades") /\ UNCHANGED <<scenario, exps, cache, run, work>>
      BY <1>5 DEF Upgrade
    <2> QED BY <1>0, <2>1, CacheStands, WorkRests, RunnersSame, FilesStand DEF CalmStep
  <1> QED BY <1>1, <1>2, <1>3, <1>4, <1>5 DEF Environment

LEMMA UnitSpends ==
  ASSUME NEW e \in Experiments, NEW u \in DOMAIN Units, UnitStep(e, u)
  PROVE  budget' = budget \/ \E what : Spend(what)
  BY DEF UnitStep, TakeUnit, StartTurn, RetryAttempt, EnterCase, StageHit, ReplayMiss, LocalStage,
         RequestCall, CallStopped, Dispatch, Answer, ProviderFails, PublishStage, SucceedCase,
         RecordAttempt, MarkCase

LEMMA NextKeepsRaces ==
  ASSUME SoundInv, RaceInv, Next
  PROVE  RaceInv'
  <1>0. BaseInv
    BY DEF SoundInv
  <1>1. ASSUME CalmStep, budget' = budget \/ \E what : Spend(what) PROVE RaceInv'
    BY <1>1, UndamagedWas, CalmKeepsRaces DEF CalmStep
  <1>2. CASE Lifecycle \/ Environment
    BY <1>0, <1>1, <1>2, LifecycleIsCalm, EnvironmentIsCalm
  <1>3. ASSUME NEW e \in Experiments, Preparation(e) \/ FinishRun(e) PROVE RaceInv'
    BY <1>0, <1>1, <1>3, RunIsCalm
  <1>4. ASSUME NEW e \in Experiments, NEW u \in DOMAIN Units, UnitStep(e, u) PROVE RaceInv'
    <2>1. ThreadStep(e, u) /\ e \in Existing /\ scenario' = scenario
      BY <1>0, <1>4, ThreadSteps DEF ThreadStep
    <2>2. Undamaged' => Undamaged
      BY <1>4, <2>1, UnitSpends, UndamagedWas
    <2> QED BY <2>1, <2>2, ThreadKeepsRaces
  <1> QED BY <1>2, <1>3, <1>4 DEF Next, RunnerStep

LEMMA NothingKeepsRaces ==
  ASSUME SoundInv, RaceInv, UNCHANGED <<scenario, exps, cache, run, work>>,
         budget' = budget \/ \E what : Spend(what)
  PROVE  RaceInv'
  <1>1. CalmStep
    BY CacheStands, WorkRests, RunnersSame, FilesStand DEF CalmStep, SoundInv, BaseInv
  <1> QED BY <1>1, UndamagedWas, CalmKeepsRaces

LEMMA AggregatorKeepsRaces ==
  ASSUME SoundInv, RaceInv, AggregatorStep
  PROVE  RaceInv'
  <1>1. CASE (\E e \in Experiments : StartAggregation(e)) \/ AggCrash
    <2>1. UNCHANGED <<scenario, exps, cache, run, work>> /\ \E what : Spend(what)
      BY <1>1 DEF StartAggregation, AggCrash
    <2> QED BY <2>1, NothingKeepsRaces
  <1>2. CASE \/ ScanCase \/ EvidenceCase \/ LoadCase \/ ProveCase \/ NextPass
             \/ MakeBundle \/ PublishFile \/ Published
    BY <1>2, NothingKeepsRaces
       DEF ScanCase, EvidenceCase, LoadCase, ProveCase, ReadInto, NextPass, MakeBundle,
           PublishFile, Published, runnerVars
  <1> QED BY <1>1, <1>2 DEF AggregatorStep

LEMMA InitRaces == ASSUME Init PROVE RaceInv
  <1>1. /\ Existing = {} /\ DOMAIN cache = {}
        /\ run = [e \in Experiments |-> IdleRun]
        /\ work = [e \in Experiments |-> [u \in DOMAIN Units |-> IdleWorker]]
    BY DEF Init, Existing
  <1>2. \A e \in Experiments : /\ run[e].pc = "off" /\ run[e].result = "none"
                               /\ \A u \in DOMAIN Units : work[e][u].pc = "off"
    BY <1>1 DEF IdleRun, IdleWorker
  <1> QED BY <1>1, <1>2 DEF RaceInv, CacheIntact, CallsKnown, RacesLost, OneRunner, OneWorker,
                            NothingFiledMeanwhile, NothingRaised, Working

\* Races are lost, and nothing else ends a thread, in every state.
LEMMA RaceInvAlways == AggSpec => [](SoundInv /\ RaceInv)
  <1>1. AggInit => SoundInv /\ RaceInv
    BY InitSound, InitRaces DEF AggInit
  <1>2. SoundInv /\ RaceInv /\ [AggNext]_allVars => (SoundInv /\ RaceInv)'
    <2>1. ASSUME SoundInv, RaceInv, [AggNext]_allVars PROVE SoundInv' /\ RaceInv'
      <3>1. CASE Next
        BY <2>1, <3>1, NextSound, NextKeepsRaces
      <3>2. CASE AggregatorStep
        BY <2>1, <3>2, AggregatorSound, AggregatorKeepsRaces
      <3>3. CASE UNCHANGED runnerVars
        BY <2>1, <3>3, NothingSound, NothingKeepsRaces DEF runnerVars
      <3> QED BY <2>1, <3>1, <3>2, <3>3 DEF AggNext, allVars
    <2> QED BY <2>1
  <1> QED BY <1>1, <1>2, PTL DEF AggSpec

-----------------------------------------------------------------------------
(* What follows.                                                           *)

LEMMA SoundIsChain == ASSUME SoundInv PROVE SessionChain
  <1> SUFFICES ASSUME Undamaged, NEW e \in Existing, NEW u \in DOMAIN Units, NEW i \in DOMAIN Units[u],
                      exps[e].dirs[Units[u][i].id].attempts # <<>>, IsSession(Units[u])
               PROVE  LET unit     == Units[u]
                          dirs     == exps[e].dirs
                          before   == StateBefore(unit, Histories(dirs), i)
                          attempts == dirs[unit[i].id].attempts
                      IN  /\ i > 1 => dirs[unit[i - 1].id].marker # NoMarker
                          /\ \A k \in DOMAIN attempts :
                               /\ attempts[k].asked = before
                               /\ attempts[k].status = "succeeded" =>
                                    attempts[k].after = Append(before, attempts[k].vals[Generation])
    BY DEF SessionChain
  <1>1. Clean(exps[e].dirs)
    BY DEF SoundInv, DamagesCounted
  <1>2. Len(Units[u]) \in Nat /\ DOMAIN Units[u] = 1 .. Len(Units[u])
    BY UnitFacts DEF SoundInv, BaseInv, RunnerTypeOK
  <1>3. StateBefore(Units[u], Histories(exps[e].dirs), i) = StateIn(Units[u], exps[e].dirs, i)
    <2>1. i \in 1 .. Len(Units[u]) + 1
      BY <1>2
    <2> QED BY <1>1, <2>1, StateIsBefore
  <1>4. TurnSound(Units[u], exps[e].dirs, i)
    BY <1>1, UnitReads
  <1>5. i > 1 => Marked(exps[e].dirs[Units[u][i - 1].id])
    <2>1. i > 1 => i - 1 \in 1 .. i - 1
      BY <1>2
    <2> QED BY <1>4, <2>1 DEF TurnSound
  <1>6. \A k \in DOMAIN exps[e].dirs[Units[u][i].id].attempts :
          FileSound(Units[u], StateIn(Units[u], exps[e].dirs, i), exps[e].dirs[Units[u][i].id].attempts[k])
    BY <1>4 DEF TurnSound
  <1> QED BY <1>3, <1>5, <1>6 DEF FileSound, AfterSuccess, Marked

LEMMA SoundAccepts == ASSUME SoundInv, RaceInv PROVE AcceptsItsOwnHistory
  <1>1. RunnerTypeOK /\ Existing \subseteq Experiments
    BY DEF SoundInv, BaseInv, RunnerTypeOK
  <1>2. \A e \in Experiments : /\ run[e].result # "partial"
                               /\ e \notin Existing => run[e].result = "none"
    BY DEF SoundInv, ResultsKnown
  <1>3. \A e \in Existing : \A id \in DOMAIN exps[e].dirs :
          Len(exps[e].dirs[id].attempts) <= MaxAttempts
    BY DEF SoundInv, FilesCounted
  <1>4. ASSUME Undamaged, NEW e \in Existing
        PROVE  /\ run[e].result \notin {"blocked", "refused"}
               /\ \A id \in DOMAIN exps[e].dirs : DirSound(exps[e].dirs[id], exps[e].manifest.external)
    <2>1. Clean(exps[e].dirs)
      BY <1>4 DEF SoundInv, DamagesCounted
    <2>2. /\ \A id \in DOMAIN exps[e].dirs : DirSound(exps[e].dirs[id], exps[e].manifest.external)
          /\ RunSound(Units, exps[e].dirs, run[e], work[e])
      BY <2>1 DEF SoundInv, Sound, ExpSound
    <2> QED BY <2>2 DEF RunSound, ResultSound
  <1>5. ASSUME Undamaged, NEW e \in Experiments
        PROVE  run[e].result \notin {"blocked", "refused"}
    BY <1>2, <1>4, <1>5
  <1>6. ASSUME Undamaged, NEW e \in Existing, exps[e].manifest.external, NEW id \in DOMAIN exps[e].dirs,
               NEW k \in DOMAIN exps[e].dirs[id].attempts
        PROVE  exps[e].dirs[id].attempts[k].error # "executor_contract_error"
    <2>1. DirSound(exps[e].dirs[id], exps[e].manifest.external)
      BY <1>4, <1>6
    <2> QED BY <1>6, <2>1 DEF DirSound
  <1>7. ASSUME Undamaged, NEW e \in Experiments, NEW u \in DOMAIN Units, work[e][u].pc = "raised"
        PROVE  LostRace(e, u)
    <2>1. e \in Existing
      BY <1>1, <1>7 DEF RunnerTypeOK
    <2> QED BY <1>7, <2>1 DEF RaceInv, RacesLost
  <1>8. ASSUME Undamaged, NEW e \in Experiments, scenario.serial, scenario.concurrency = 1
        PROVE  run[e].result # "raised"
    BY <1>8 DEF RaceInv, OneThread, NothingRaised
  <1> QED BY <1>1, <1>2, <1>3, <1>5, <1>6, <1>7, <1>8 DEF AcceptsItsOwnHistory

LEMMA SoundIsTrue == ASSUME SoundInv PROVE SummaryIsTrue
  <1> SUFFICES ASSUME NEW e \in Existing, run[e].pc = "off", Undamaged
               PROVE  LET dirs == exps[e].dirs IN
                      /\ run[e].result = "succeeded" <=>
                           /\ run[e].result \notin {"none", "crashed"}
                           /\ \A id \in DOMAIN dirs : CompletedReads(dirs[id])
                      /\ run[e].result = "completed_with_failures" =>
                           \E id \in DOMAIN dirs : Succeeded(dirs[id].attempts) = {}
                                                   /\ CannotGoOn(dirs[id].attempts)
                      /\ run[e].result # "partial"
    BY DEF SummaryIsTrue
  <1>1. Clean(exps[e].dirs)
    BY DEF SoundInv, DamagesCounted
  <1>2. ResultSound(exps[e].dirs, run[e].result)
    BY <1>1 DEF SoundInv, Sound, ExpSound, RunSound
  <1>3. \A id \in DOMAIN exps[e].dirs : CompletedReads(exps[e].dirs[id]) <=> Marked(exps[e].dirs[id])
    <2>1. \A id \in DOMAIN exps[e].dirs : Marked(exps[e].dirs[id]) => CompletedReads(exps[e].dirs[id])
      BY <1>1, ScanReads
    <2>2. \A id \in DOMAIN exps[e].dirs : CompletedReads(exps[e].dirs[id]) => Marked(exps[e].dirs[id])
      BY DEF CompletedReads, Marked
    <2> QED BY <2>1, <2>2
  <1>4. run[e].result # "partial"
    BY SoundFiles DEF SoundInv, ResultsKnown
  <1>5. run[e].result = "completed_with_failures" =>
          \E id \in DOMAIN exps[e].dirs : /\ Succeeded(exps[e].dirs[id].attempts) = {}
                                          /\ CannotGoOn(exps[e].dirs[id].attempts)
    BY <1>2 DEF ResultSound, Hopeless
  <1>6. run[e].result = "succeeded" <=>
          /\ run[e].result \notin {"none", "crashed"}
          /\ \A id \in DOMAIN exps[e].dirs : CompletedReads(exps[e].dirs[id])
    BY <1>2, <1>3 DEF ResultSound
  <1> QED BY <1>4, <1>5, <1>6

\* A session is one conversation: every attempt of a turn was made from the state
\* its predecessor left, which was marked complete by then, and only the answer
\* of a success is appended, through crashes, stops, retries and resumes in other
\* modes (ExperimentRunner._prepare_unit_plans, _run_unit, SessionRuntime).
THEOREM SessionsAreChains == AggSpec => []SessionChain
  BY SoundInvAlways, SoundIsChain, PTL

\* The runner accepts what it can have written: while nothing is damaged no run is
\* blocked or refused, no case has more attempts than its retries allow, and none
\* fails because a runtime was built for another mode.  The one exception a thread
\* ends with is that of a race lost for the cache, which the failed attempt cannot
\* be written after, and one thread alone loses none (ExperimentRunner._run_unit,
\* _run_case and _failure_result, StageObservation.to_dict, ExactStageCache.publish,
\* ExperimentStore.write_attempt and mark_complete).
THEOREM RunnersAcceptTheirHistory == AggSpec => []AcceptsItsOwnHistory
  BY RaceInvAlways, SoundAccepts, PTL

\* What a run reports is what its directories hold: success means that every case
\* reads back complete, failure that some case can no longer be completed, and no
\* run ends with cases it neither finished nor gave a reason for
\* (ExperimentRunner._run_claimed).
THEOREM SummariesAreTrue == AggSpec => []SummaryIsTrue
  BY SoundInvAlways, SoundIsTrue, PTL
=============================================================================
