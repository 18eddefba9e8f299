---------------------------- MODULE MCRunHarness ----------------------------
(* An instance of RunHarness for TLC: one run, one worker, and an evidence   *)
(* that one chunk covers and another, strong one does not, so that a search  *)
(* may find too little, too weak, enough or something to follow up.          *)
EXTENDS RunHarness

CONSTANTS lawful, c1, c2

MCKindOf == [op \in GraphOperation |-> IF op[1] = "search_laws" THEN "tool" ELSE "model"]

MCMaxUsed == [model |-> 2, tool |-> 3, embedding |-> 0]

Says(form, mode, claims, shown) ==
  [form |-> form, mode |-> mode, claims |-> claims, shown |-> shown, aligned |-> TRUE,
   malformed |-> FALSE, refuses |-> FALSE]

(* A sound answer, one that cites a source that is not there, and words      *)
(* outside of the envelope.                                                  *)
MCRaw == {Says("envelope", "evidence_answer", {{1}}, {1}),
          Says("envelope", "evidence_answer", {{3}}, {3}),
          Says("text", "insufficient_evidence", {}, {})}

Flags(planner, generate, retry, strict) ==
  [planner |-> planner, generate |-> generate, retry |-> retry, strict |-> strict]

(* The executor of api/command.py; one with a planner and a generator; and   *)
(* one that retries unknown outcomes.                                        *)
MCSettings == {Flags(FALSE, FALSE, FALSE, FALSE), Flags(TRUE, TRUE, FALSE, TRUE),
               Flags(FALSE, TRUE, TRUE, FALSE)}

(* Two results are never completed in the tick of one checkpoint.            *)
FineClock(r) ==
  runs'[r].trusted # None =>
    LET new == checkpoints'[r][runs'[r].trusted] IN
    new = checkpoints[r][runs'[r].trusted] \/ new.after = Attempts(r, {"succeeded"})

(* Only where it can be told from a step before or after: a lease is lost,   *)
(* and a run cancelled or timed out, before a call of the run service that   *)
(* writes; a deadline passes before it is compared.                          *)
BeforeAWrite(f) ==
  \/ f.pc \in {"none", "bind", "reserve", "dispatch", "call", "save", "limited"}
  \/ f.pc = "node" /\ f.state.next = "persist_result"

BeforeAComparison(f) ==
  \/ f.pc \in {"none", "reserve", "dispatch"}
  \/ f.pc = "node" /\ f.state.next = "retrieve"

Timely(r) ==
  LET f == frame[r][runs[r].epoch]
      Running == runs[r].status = "running"
  IN
  /\ runs'[r].lease < runs[r].lease /\ published' = published => BeforeAWrite(f) \/ f.pc = "raise"
  /\ runs'[r].deadline = "passed" /\ runs[r].deadline = "ahead" => Running /\ BeforeAComparison(f)
  /\ runs'[r].status = "cancelled" => runs[r].status # "interrupted"

(* A call that is refused may as well be refused at once.                    *)
Promptly(r) ==
  \A e \in 1..MaxEpoch :
    frame'[r][e].pc = "done" /\ frame[r][e].pc # "done" /\ runVars' = runVars =>
      runs[r].status = "interrupted" /\ ~runs[r].resume

(* A thread outlives its lease in a call, or before it binds or publishes.   *)
Outlives(r) ==
  runs'[r].epoch > runs[r].epoch /\ runs[r].epoch > 0 =>
    LET f == frame[r][runs[r].epoch] IN
    \/ f.pc \in {"none", "done", "bind", "call", "save"}
    \/ f.pc = "node" /\ f.state.next = "persist_result"

(* Every process runs the same executor.                                     *)
OneExecutor(r) ==
  \A e \in 1..MaxEpoch : frame'[r][e].with = None \/ frame'[r][1].with \in {None, frame'[r][e].with}

Bound == \A r \in Run :
  FineClock(r) /\ Timely(r) /\ Promptly(r) /\ Outlives(r) /\ OneExecutor(r)
=============================================================================
