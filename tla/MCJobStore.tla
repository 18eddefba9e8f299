----------------------------- MODULE MCJobStore -----------------------------
(* A small instance of JobStore for TLC.  The bound lets either one job, with *)
(* items and every limit at two, or two jobs under idempotency keys, each     *)
(* claimed once and without items, run their course.                          *)
EXTENDS JobStore, TLC

OneJob ==
  \A j \in Job : Exists(j) =>
    /\ j = CHOOSE first \in Job : TRUE
    /\ jobs[j].key = None
    /\ jobs[j].request = CHOOSE first \in Request : TRUE

KeyedJobs ==
  \A j \in Job :
    /\ items[j] = NoLedger
    /\ jobs[j].total = 0
    /\ jobs[j].claims <= 1 /\ Len(outbox[j]) <= 1
    /\ jobs[j].stage = 0
    /\ \A n \in DOMAIN outbox[j] : outbox[j][n].epoch = 0

Bound == (OneJob \/ KeyedJobs)'

Symmetry == Permutations(Worker) \cup Permutations(Item) \cup Permutations(Ref)
=============================================================================
