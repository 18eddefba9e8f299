---------------------------- MODULE MCRunService ----------------------------
(* An instance of EventStream and RunTables for TLC.  The bound lets either   *)
(* one run, with two external attempts, checkpoints and two workers, under a  *)
(* live key, or two runs, in sessions and under keys but without attempts and *)
(* one of them claimed once, run their course.  Runs and sessions are alike:  *)
(* the first run comes first, in the first one.  Attempts come after the      *)
(* retrieval round, on which they do not depend.                              *)
EXTENDS EventStream, RunTables, TLC

CONSTANTS generate, search, r1, s1

MCKindOf == [op \in Operation |-> IF op = generate THEN "model" ELSE "tool"]
MCMaxUsed == [model |-> 2, tool |-> 1, embedding |-> 0]

FirstRunFirst ==
  \A r \in Run \ {r1} :
    /\ runs[r].status # "absent" => runs[r1].status # "absent"
    /\ runs[r1].session \in {s1, None}

OneRun ==
  /\ \A r \in Run \ {r1} : runs[r].status = "absent"
  /\ \A s \in Session, k \in Key : keys[s][k] = NoKey \/ keys[s][k].live
  /\ \A r \in Run : attempts[r] # <<>> => ledger[r].rounds = MaxRounds
  /\ \A r \in Run : Len(attempts[r]) <= 2
  /\ \A r \in Run : artifacts[r] = {} /\ "stage" \notin {events[r][n] : n \in DOMAIN events[r]}

NoAttempts ==
  /\ \A r \in Run :
       /\ attempts[r] = <<>> /\ ledger[r].rounds = 0
       /\ \A c \in CheckpointKey : checkpoints[r][c] = None
       /\ \A q \in Run : \A e \in DOMAIN leases[r], f \in DOMAIN leases[q] :
            leases[r][e] = leases[q][f]
  /\ \A r, q \in Run : r # q => runs[r].epoch + runs[q].epoch <= MaxEpoch + 1

Bound == (FirstRunFirst /\ (OneRun \/ NoAttempts))'

Symmetry == Permutations(Worker)
=============================================================================
