-------------------------- MODULE RunHarness_proofs --------------------------
(***************************************************************************)
(* Theorems about the two modules that execute runs, for every value of    *)
(* their constants: RunHarness, and at the end Supervisor.                 *)
(***************************************************************************)
EXTENDS RunHarness, Supervisor, RunService_proofs

-----------------------------------------------------------------------------
(* Turns and answers *)

(* What an answer must be, given the turn it is from. *)
Worthy(result, turn) ==
  /\ result.sources = Cardinality(turn.results)
  /\ result.cited \subseteq 1..result.sources
  /\ result.mode = "evidence_answer" <=> result.text = "own"
  /\ result.text = "own" => result.cited # {} /\ turn.check # Nothing /\ turn.check.sufficient
  /\ turn.terminal # Nothing => result.mode = turn.terminal.mode
  /\ result.kind # "execution_limit"

GeneratedTurn ==
  [retrieved: RetrievedTurn,
   kind: {"pre_retrieval_refusal", "evidence_limited", "retrieval_only", "generation_error",
          "model"},
   answer: StructuredAnswer \cup {Nothing}, expected: AnswerMode \cup {Nothing},
   raw: RawAnswer \cup {Nothing}]

VerifiedTurn ==
  [generated: GeneratedTurn, final: StructuredAnswer \cup {Nothing}, fallback: BOOLEAN]

(* An answer of the program's own passes with its mode, if its text is one  *)
(* of those allowed for it, and fails otherwise.                            *)
LEMMA ProgrammaticAnswers ==
  ASSUME NEW mode \in {"insufficient_evidence", "needs_clarification", "out_of_scope"},
         NEW text \in AnswerText
  PROVE  /\ Programmatic(text, mode) \in StructuredAnswer
         /\ Programmatic(text, mode).text = text /\ Programmatic(text, mode).mode = mode
         /\ Cited(Programmatic(text, mode)) = {}
         /\ \A results \in SUBSET Chunk :
              Passes(Programmatic(text, mode), results, mode) <=> text \in Allowed[mode]
  <1> DEFINE answer == Programmatic(text, mode)
  <1>1. /\ answer.text = text /\ answer.mode = mode /\ answer.claims = {} /\ answer.shown = {}
        /\ answer.aligned = TRUE /\ answer.malformed = FALSE /\ answer.schema = TRUE
        /\ answer.asks = (mode = "needs_clarification")
        /\ answer.refuses = (mode = "out_of_scope")
    BY DEF Programmatic
  <1>2. answer \in StructuredAnswer
    <2>1. mode \in AnswerMode
      BY DEF AnswerMode
    <2>2. {} \in SUBSET (SUBSET Nat) /\ {} \in SUBSET Nat
      OBVIOUS
    <2> QED BY <2>1, <2>2 DEF Programmatic, StructuredAnswer
  <1>3. Cited(answer) = {}
    BY <1>1 DEF Cited
  <1>4. ASSUME NEW results \in SUBSET Chunk
        PROVE  Passes(answer, results, mode) <=> text \in Allowed[mode]
    <2>1. CitationsValid(answer, results) /\ ScopeValid(answer, results)
      BY <1>1, <1>3 DEF CitationsValid, ScopeValid
    <2>2. ModeValid(answer, mode) <=> text \in Allowed[mode]
      <3>1. mode \in AnswerMode /\ mode # "evidence_answer"
        BY DEF AnswerMode
      <3> QED BY <1>1, <1>3, <3>1 DEF ModeValid
    <2> QED BY <1>1, <2>1, <2>2 DEF Passes
  <1> QED BY <1>1, <1>2, <1>3, <1>4

LEMMA SafeAnswers ==
  ASSUME NEW mode \in {"insufficient_evidence", "needs_clarification", "out_of_scope"}
  PROVE  /\ SafeTerminal(mode) \in StructuredAnswer
         /\ SafeTerminal(mode).mode = mode /\ Cited(SafeTerminal(mode)) = {}
         /\ SafeTerminal(mode).text \in {"safe_insufficient", "safe_clarification", "safe_refusal"}
         /\ \A results \in SUBSET Chunk : Passes(SafeTerminal(mode), results, mode)
  <1> DEFINE text == IF mode = "out_of_scope" THEN "safe_refusal"
                     ELSE IF mode = "needs_clarification" THEN "safe_clarification"
                     ELSE "safe_insufficient"
  <1>1. text \in AnswerText /\ text \in Allowed[mode]
    BY DEF AnswerText, Allowed
  <1>2. SafeTerminal(mode) = Programmatic(text, mode)
    BY DEF SafeTerminal
  <1>3. text \in {"safe_insufficient", "safe_clarification", "safe_refusal"}
    OBVIOUS
  <1> HIDE DEF text
  <1> QED BY <1>1, <1>2, <1>3, ProgrammaticAnswers

LEMMA LimitedAnswers ==
  ASSUME NEW check \in EvidenceCheck
  PROVE  /\ LimitedAnswer(check) \in StructuredAnswer
         /\ LimitedAnswer(check).mode \in {"insufficient_evidence", "needs_clarification"}
         /\ LimitedAnswer(check).text \in {"limited", "safe_clarification"}
         /\ Cited(LimitedAnswer(check)) = {}
         /\ \A results \in SUBSET Chunk :
              Passes(LimitedAnswer(check), results, LimitedAnswer(check).mode)
  <1>1. CASE check.facts
    <2>1. LimitedAnswer(check) = Programmatic("safe_clarification", "needs_clarification")
      BY <1>1 DEF LimitedAnswer
    <2>2. "safe_clarification" \in AnswerText /\ "safe_clarification" \in Allowed["needs_clarification"]
      BY DEF AnswerText, Allowed
    <2> QED BY <2>1, <2>2, ProgrammaticAnswers
  <1>2. CASE ~check.facts
    <2>1. LimitedAnswer(check) = Programmatic("limited", "insufficient_evidence")
      BY <1>2 DEF LimitedAnswer
    <2>2. "limited" \in AnswerText /\ "limited" \in Allowed["insufficient_evidence"]
      BY DEF AnswerText, Allowed
    <2> QED BY <2>1, <2>2, ProgrammaticAnswers
  <1> QED BY <1>1, <1>2

(* The terminal answer of a turn, if it has one. *)
LEMMA TerminalAnswers ==
  ASSUME NEW results \in SUBSET Chunk, NEW check \in EvidenceCheck
  PROVE  LET terminal == TerminalAnswer(results, check) IN
         /\ terminal \in TerminalTurn \cup {Nothing}
         /\ terminal = Nothing <=> results # {} /\ check.sufficient
         /\ terminal # Nothing =>
              /\ terminal.kind = "evidence_limited" /\ terminal.answer = LimitedAnswer(check)
              /\ terminal.mode = LimitedAnswer(check).mode
  <1> DEFINE terminal == [kind |-> "evidence_limited", answer |-> LimitedAnswer(check),
                          mode |-> LimitedAnswer(check).mode]
  <1>1. terminal \in TerminalTurn
    BY LimitedAnswers DEF TerminalTurn, AnswerMode
  <1>2. terminal # Nothing
    <2> HIDE DEF terminal
    <2> QED BY <1>1, NothingIsNoValue
  <1>3. CASE results # {} /\ check.sufficient
    BY <1>3 DEF TerminalAnswer
  <1>4. CASE ~(results # {} /\ check.sufficient)
    <2>1. TerminalAnswer(results, check) = terminal
      BY <1>4 DEF TerminalAnswer
    <2> QED BY <1>1, <1>2, <1>4, <2>1
  <1> QED BY <1>3, <1>4

LEMMA RefusalTurn ==
  /\ Refusal \in TerminalTurn /\ Refusal # Nothing
  /\ Refusal.kind = "pre_retrieval_refusal" /\ Refusal.mode = "out_of_scope"
  /\ Refusal.answer = Programmatic("risk_refusal", "out_of_scope")
  /\ "risk_refusal" \in AnswerText /\ "risk_refusal" \in Allowed["out_of_scope"]
  <1>1. "risk_refusal" \in AnswerText /\ "risk_refusal" \in Allowed["out_of_scope"]
    BY DEF AnswerText, Allowed
  <1>2. Programmatic("risk_refusal", "out_of_scope") \in StructuredAnswer
    BY <1>1, ProgrammaticAnswers
  <1>3. Refusal \in TerminalTurn
    BY <1>2 DEF Refusal, TerminalTurn, AnswerMode
  <1> QED BY <1>1, <1>3, NothingIsNoValue DEF Refusal

LEMMA Checks ==
  ASSUME NEW results \in SUBSET Chunk, NEW facts \in BOOLEAN
  PROVE  /\ CheckEvidence(results, facts) \in EvidenceCheck
         /\ \A stop \in StopReason :
              /\ [CheckEvidence(results, facts) EXCEPT !.stop = stop] \in EvidenceCheck
              /\ [CheckEvidence(results, facts) EXCEPT !.stop = stop].sufficient
                   = CheckEvidence(results, facts).sufficient
         /\ CheckEvidence(results, facts).sufficient => results # {}
  <1> DEFINE law == results \cap Covering = {}
             low == results \cap Strong = {}
             sufficient == ~facts /\ ~law /\ ~low
             reason == IF facts THEN "needs_clarification"
                       ELSE IF sufficient THEN "sufficient" ELSE "needs_followup"
  <1>1. CheckEvidence(results, facts) =
          [facts |-> facts, sufficient |-> sufficient, followups |-> law, stop |-> reason]
    BY DEF CheckEvidence
  <1>2. law \in BOOLEAN /\ sufficient \in BOOLEAN
    BY Zenon
  <1>3. reason \in StopReason
    BY DEF StopReason
  <1>4. sufficient => results # {}
    OBVIOUS
  <1> HIDE DEF law, sufficient, reason
  <1> QED BY <1>1, <1>2, <1>3, <1>4 DEF EvidenceCheck

-----------------------------------------------------------------------------
(* Retrieved turns *)

(* What is merged was found. *)
LEMMA MergedWasFound ==
  ASSUME NEW results \in SUBSET Chunk, NEW more \in SUBSET Chunk
  PROVE  Merge(results, more) \in SUBSET Chunk
  <1> DEFINE all == results \cup more
             size == IF Cardinality(all) < TopK THEN Cardinality(all) ELSE TopK
             Best(best) == /\ Cardinality(best) = size
                           /\ \A c \in all \ best : c \in Strong => best \subseteq Strong
  <1>1. /\ IsFiniteSet(all) /\ Cardinality(all) \in Nat /\ all \subseteq Chunk
        /\ size \in Nat /\ size <= Cardinality(all)
    <2>1. IsFiniteSet(all) /\ all \subseteq Chunk
      BY ChunksAreKnown, FS_Subset
    <2>2. Cardinality(all) \in Nat
      BY <2>1, FS_CardinalityType
    <2> QED BY <2>1, <2>2, TopKIsANumber
  <1> HIDE DEF size
  (* Of a finite set there is a subset of any smaller size. *)
  <1>2. ASSUME NEW S, IsFiniteSet(S), NEW k \in Nat, k <= Cardinality(S)
        PROVE  \E T \in SUBSET S : IsFiniteSet(T) /\ Cardinality(T) = k
    <2>1. PICK g : ExistsBijection(1..Cardinality(S), S) /\ g \in Bijection(1..Cardinality(S), S)
      BY <1>2, FS_NatBijection, FS_CardinalityType DEF ExistsBijection
    <2>2. Cardinality(S) \in Nat
      BY <1>2, FS_CardinalityType
    <2> DEFINE T == {g[n] : n \in 1..k}
    <2>3. g \in [1..Cardinality(S) -> S]
            /\ \A n, m \in 1..Cardinality(S) : g[n] = g[m] => n = m
      BY <2>1 DEF Bijection, Injection, IsInjective, Surjection
    <2>4. [n \in 1..k |-> g[n]] \in Bijection(1..k, T)
      BY <1>2, <2>2, <2>3 DEF Bijection, Injection, IsInjective, Surjection
    <2>5. ExistsBijection(1..k, T)
      BY <2>4 DEF ExistsBijection
    <2>6. IsFiniteSet(T) /\ Cardinality(T) = k
      BY <1>2, <2>5, FS_CountingElements, FS_NatBijection
    <2>7. T \in SUBSET S
      BY <1>2, <2>2, <2>3
    <2> QED BY <2>6, <2>7
  <1>3. \E best \in SUBSET all : Best(best)
    <2> DEFINE strong == all \cap Strong
               weak == all \ Strong
    <2>1. IsFiniteSet(strong) /\ IsFiniteSet(weak) /\ Cardinality(strong) \in Nat
            /\ Cardinality(weak) \in Nat
      BY <1>1, FS_Subset, FS_CardinalityType
    <2>2. Cardinality(all) = Cardinality(strong) + Cardinality(weak)
      <3>1. all = strong \cup weak /\ strong \cap weak = {}
        OBVIOUS
      <3>2. Cardinality(strong \cap weak) = 0
        BY <3>1, FS_EmptySet
      <3>3. Cardinality(strong \cup weak)
              = Cardinality(strong) + Cardinality(weak) - Cardinality(strong \cap weak)
        BY <2>1, FS_Union
      <3> HIDE DEF all, strong, weak
      <3> QED BY <2>1, <3>1, <3>2, <3>3
    <2>3. CASE size <= Cardinality(strong)
      <3>1. PICK T \in SUBSET strong : Cardinality(T) = size
        BY <1>1, <1>2, <2>1, <2>3
      <3> QED BY <3>1
    <2>4. CASE ~(size <= Cardinality(strong))
      <3>1. size - Cardinality(strong) \in Nat /\ size - Cardinality(strong) <= Cardinality(weak)
        BY <1>1, <2>1, <2>2, <2>4
      <3>2. PICK T \in SUBSET weak :
              IsFiniteSet(T) /\ Cardinality(T) = size - Cardinality(strong)
        BY <1>2, <2>1, <3>1
      <3>3. Cardinality(strong \cup T) = size
        <4>1. strong \cap T = {}
          OBVIOUS
        <4>2. Cardinality(strong \cap T) = 0
          BY <4>1, FS_EmptySet
        <4>3. Cardinality(strong \cup T)
                = Cardinality(strong) + Cardinality(T) - Cardinality(strong \cap T)
          BY <2>1, <3>2, FS_Union
        <4> HIDE DEF strong
        <4> QED BY <1>1, <2>1, <3>2, <4>2, <4>3
      <3>4. \A c \in all \ (strong \cup T) : c \notin Strong
        OBVIOUS
      <3> QED BY <3>3, <3>4
    <2> QED BY <2>3, <2>4
  <1>4. Merge(results, more) = CHOOSE best \in SUBSET all : Best(best)
    BY Zenon DEF Merge, size
  <1>5. Merge(results, more) \in SUBSET all
    BY <1>3, <1>4
  <1> QED BY <1>1, <1>5

(* What the stored turns have in common: there is no sufficient evidence    *)
(* where nothing was found.                                                 *)
Accepted(turn) ==
  /\ turn \in RetrievedTurn /\ RetrievedAccepted(turn)
  /\ turn.check # Nothing /\ turn.check.sufficient => turn.results # {}

(* A turn whose question is answered by what was found. *)
SearchedTurn(turn) == Accepted(turn) /\ turn.check # Nothing

(* retrieve_turn, of a question that is refused. *)
LEMMA RefusedTurns ==
  LET turn == RetrieveTurn(TRUE, {}, {}, FALSE, 0) IN
  Accepted(turn) /\ turn.check = Nothing
  <1> DEFINE turn == [risky |-> TRUE, results |-> {}, rejected |-> {}, check |-> Nothing,
                      trace |-> Nothing, terminal |-> Refusal]
  <1>1. RetrieveTurn(TRUE, {}, {}, FALSE, 0) = turn
    BY DEF RetrieveTurn
  <1>2. turn \in RetrievedTurn
    BY RefusalTurn DEF RetrievedTurn
  <1>3. RetrievedAccepted(turn) /\ turn.check = Nothing
    BY DEF RetrievedAccepted
  <1> HIDE DEF turn
  <1> QED BY <1>1, <1>2, <1>3 DEF Accepted

(* retrieve_turn: nothing that was found lies outside the context. *)
LEMMA FoundTurns ==
  ASSUME NEW found \in SUBSET Chunk
  PROVE  SearchedTurn(RetrieveTurn(FALSE, found, {}, FALSE, 0))
  <1> DEFINE first == CheckEvidence(found, FALSE)
             check == IF first.stop # "needs_followup" THEN first
                      ELSE [first EXCEPT !.stop = "max_rounds_reached"]
             turn == [risky |-> FALSE, results |-> found, rejected |-> {}, check |-> check,
                      trace |-> Nothing, terminal |-> TerminalAnswer(found, check)]
  <1>1. Gather(found, {}, FALSE, 0) = [results |-> found, check |-> check]
    BY DEF Gather
  <1>2. check \in EvidenceCheck /\ (check.sufficient => found # {})
    <2>1. "max_rounds_reached" \in StopReason
      BY DEF StopReason
    <2> QED BY <2>1, Checks
  <1>3. Filtered(found) = found /\ Rejected(found) = {}
    BY ResultsAreInScope DEF Filtered, Rejected
  <1> HIDE DEF check
  <1>4. RetrieveTurn(FALSE, found, {}, FALSE, 0) = turn
    <2> DEFINE gathered == Gather(found, {}, FALSE, 0)
    <2>1. gathered.results = found /\ gathered.check = check
      <3>1. gathered = [results |-> found, check |-> check]
        BY <1>1, Zenon
      <3> HIDE DEF gathered
      <3> QED BY <3>1
    <2> HIDE DEF gathered
    <2>2. RetrieveTurn(FALSE, found, {}, FALSE, 0) =
            [risky |-> FALSE, results |-> Filtered(gathered.results),
             rejected |-> Rejected(gathered.results),
             check |-> IF Rejected(gathered.results) = {} THEN gathered.check
                       ELSE [CheckEvidence(Filtered(gathered.results), FALSE)
                               EXCEPT !.stop = "evidence_scope_filtered"],
             trace |-> IF Rejected(gathered.results) = {} THEN Nothing
                       ELSE <<Rejected(gathered.results), Filtered(gathered.results)>>,
             terminal |-> TerminalAnswer(Filtered(gathered.results),
               IF Rejected(gathered.results) = {} THEN gathered.check
               ELSE [CheckEvidence(Filtered(gathered.results), FALSE)
                       EXCEPT !.stop = "evidence_scope_filtered"])]
      BY Zenon DEF RetrieveTurn, gathered
    <2> QED BY <1>3, <2>1, <2>2
  <1>5. TerminalAnswer(found, check) \in TerminalTurn \cup {Nothing}
    BY <1>2, TerminalAnswers
  <1>6. turn \in RetrievedTurn
    BY <1>2, <1>5 DEF RetrievedTurn
  <1>7. check # Nothing
    BY <1>2, NothingIsNoValue
  <1>8. /\ RetrievedAccepted(turn) /\ turn.check # Nothing
        /\ turn.check.sufficient => turn.results # {}
    BY <1>2, <1>7 DEF RetrievedAccepted, FilterFits
  <1> HIDE DEF turn
  <1> QED BY <1>4, <1>6, <1>8 DEF SearchedTurn, Accepted

(* merge_followup_turn *)
LEMMA MergedTurns ==
  ASSUME NEW turn, SearchedTurn(turn), NEW more \in SUBSET Chunk,
         NEW exhausted \in {"max_retrieval_rounds", "followup_evidence_insufficient"}
  PROVE  SearchedTurn(MergeFollowupTurn(turn, more, exhausted))
  <1> DEFINE merged == Merge(turn.results, more)
             results == Filtered(merged)
             first == CheckEvidence(results, turn.check.facts)
             stop == IF first.sufficient THEN "sufficient_after_followup" ELSE exhausted
             check == [first EXCEPT !.stop = stop]
             next == [turn EXCEPT !.results = results, !.rejected = Rejected(merged),
                                  !.check = check,
                                  !.terminal = TerminalAnswer(results, first)]
  <1>0. turn \in RetrievedTurn /\ turn.check \in EvidenceCheck /\ ~turn.risky
          /\ turn.results \in SUBSET Chunk /\ turn.check.facts \in BOOLEAN
    <2>1. turn \in RetrievedTurn /\ turn.check # Nothing /\ RetrievedAccepted(turn)
      BY DEF SearchedTurn, Accepted
    <2>2. turn.check \in EvidenceCheck /\ ~turn.risky /\ turn.results \in SUBSET Chunk
      BY <2>1 DEF RetrievedAccepted
    <2>3. turn.check.facts \in BOOLEAN
      BY <2>2 DEF EvidenceCheck
    <2> QED BY <2>1, <2>2, <2>3
  <1>1. MergeFollowupTurn(turn, more, exhausted) = next
    BY DEF MergeFollowupTurn
  <1>2. merged \in SUBSET Chunk
    BY <1>0, MergedWasFound
  <1>3. results \in SUBSET Chunk /\ Rejected(merged) = {}
    BY <1>2, ResultsAreInScope DEF Filtered, Rejected
  <1>4. stop \in StopReason
    BY DEF StopReason
  <1>5. /\ check \in EvidenceCheck /\ (check.sufficient => results # {})
        /\ TerminalAnswer(results, first) = TerminalAnswer(results, check)
    <2> HIDE DEF stop, results
    <2>1. first \in EvidenceCheck /\ check \in EvidenceCheck /\ (first.sufficient => results # {})
      BY <1>0, <1>3, <1>4, Checks
    <2>2. check.facts = first.facts /\ check.sufficient = first.sufficient
      <3> HIDE DEF first
      <3> QED BY <2>1 DEF EvidenceCheck
    <2> HIDE DEF first, check
    <2> QED BY <2>1, <2>2 DEF TerminalAnswer, LimitedAnswer
  <1> HIDE DEF check, first, results, merged
  <1>6. TerminalAnswer(results, check) \in TerminalTurn \cup {Nothing}
    BY <1>3, <1>5, TerminalAnswers
  <1>7. next \in RetrievedTurn
    BY <1>0, <1>3, <1>5, <1>6 DEF RetrievedTurn
  <1>8. check # Nothing
    BY <1>5, NothingIsNoValue
  <1>9. /\ next.check = check /\ next.results = results /\ next.rejected = {}
        /\ next.terminal = TerminalAnswer(results, check) /\ ~next.risky
    BY <1>0, <1>3, <1>5 DEF RetrievedTurn
  <1> HIDE DEF next
  <1>10. RetrievedAccepted(next)
    BY <1>3, <1>5, <1>8, <1>9 DEF RetrievedAccepted, FilterFits
  <1> QED BY <1>1, <1>5, <1>7, <1>8, <1>9, <1>10 DEF SearchedTurn, Accepted

-----------------------------------------------------------------------------
(* Generated and verified turns *)

LEMMA ParsedAnswers ==
  ASSUME NEW raw \in RawAnswer
  PROVE  /\ ParseAnswer(raw) \in StructuredAnswer
         /\ ParseAnswer(raw).schema => ParseAnswer(raw).text = "own"
  <1>0. /\ raw.mode \in AnswerMode \cup {"invalid"} /\ raw.claims \in SUBSET (SUBSET Nat)
        /\ raw.shown \in SUBSET Nat /\ raw.aligned \in BOOLEAN /\ raw.malformed \in BOOLEAN
        /\ raw.refuses \in BOOLEAN /\ raw.form \in {"envelope", "text", "neither"}
    BY DEF RawAnswer
  <1> DEFINE said == [text |-> "own", mode |-> raw.mode, claims |-> raw.claims,
               shown |-> raw.shown, aligned |-> raw.aligned,
               malformed |-> raw.malformed, asks |-> raw.mode = "needs_clarification",
               refuses |-> raw.refuses, schema |-> raw.form = "envelope"]
  <1>1. said \in StructuredAnswer
    <2>1. "own" \in AnswerText
      BY DEF AnswerText
    <2>2. (raw.mode = "needs_clarification") \in BOOLEAN /\ (raw.form = "envelope") \in BOOLEAN
      BY Zenon
    <2> QED BY <1>0, <2>1, <2>2 DEF StructuredAnswer
  <1>2. CASE raw.form = "envelope"
    <2>1. ParseAnswer(raw) = said
      BY <1>2 DEF ParseAnswer
    <2> QED BY <1>1, <2>1
  <1>3. CASE raw.form = "text"
    <2> DEFINE mode == IF raw.refuses THEN "out_of_scope" ELSE raw.mode
               claims == IF raw.shown = {} THEN {} ELSE {raw.shown}
    <2>1. ParseAnswer(raw) = [said EXCEPT !.mode = mode, !.claims = claims]
      BY <1>3 DEF ParseAnswer
    <2>2. mode \in AnswerMode \cup {"invalid"} /\ claims \in SUBSET (SUBSET Nat)
      BY <1>0 DEF AnswerMode
    <2>3. said.text = "own"
      OBVIOUS
    <2> HIDE DEF said, mode, claims
    <2> QED BY <1>1, <2>1, <2>2, <2>3 DEF StructuredAnswer
  <1>4. CASE raw.form = "neither"
    <2> DEFINE none == [Programmatic("", "invalid") EXCEPT !.schema = FALSE]
    <2>1. ParseAnswer(raw) = none
      BY <1>4 DEF ParseAnswer
    <2>2. Programmatic("", "invalid") \in StructuredAnswer
      <3>1. "" \in AnswerText
        BY DEF AnswerText
      <3>2. {} \in SUBSET (SUBSET Nat) /\ {} \in SUBSET Nat
        OBVIOUS
      <3> QED BY <3>1, <3>2 DEF Programmatic, StructuredAnswer
    <2>3. none \in StructuredAnswer /\ none.schema = FALSE
      BY <2>2 DEF StructuredAnswer
    <2> HIDE DEF none
    <2> QED BY <2>1, <2>3
  <1> QED BY <1>0, <1>2, <1>3, <1>4

(* generate_turn keeps the contract of a generated turn. *)
LEMMA GeneratedTurns ==
  ASSUME NEW turn, Accepted(turn), NEW generate \in BOOLEAN,
         NEW raw \in RawAnswer \cup {Nothing}
  PROVE  LET generated == GenerateTurn(turn, generate, raw) IN
         /\ generated \in GeneratedTurn /\ generated.retrieved = turn
         /\ GeneratedAccepted(generated)
         /\ generated.kind = "model" => generated.raw # Nothing
  <1> DEFINE generated == GenerateTurn(turn, generate, raw)
             Turn(kind, answer, expected) ==
               [retrieved |-> turn, kind |-> kind, answer |-> answer, expected |-> expected,
                raw |-> IF kind = "model" THEN raw ELSE Nothing]
  <1>0. turn \in RetrievedTurn /\ RetrievedAccepted(turn)
    BY DEF Accepted
  <1>1. turn.check # Nothing =>
          turn.check \in EvidenceCheck /\ turn.results \in SUBSET Chunk
            /\ turn.terminal = TerminalAnswer(turn.results, turn.check)
    BY <1>0 DEF RetrievedAccepted
  <1>2. turn.check = Nothing => turn.terminal = Refusal
    BY <1>0 DEF RetrievedAccepted
  <1>3. turn.terminal # Nothing => turn.terminal \in TerminalTurn
    BY <1>0 DEF RetrievedTurn
  <1>4. CASE turn.terminal # Nothing
    <2> DEFINE t == turn.terminal
    <2>1. generated = Turn(t.kind, t.answer, t.mode)
      BY <1>4, Zenon DEF GenerateTurn
    <2>2. /\ t.kind \in {"pre_retrieval_refusal", "evidence_limited"}
          /\ t.answer \in StructuredAnswer /\ t.mode \in AnswerMode
          /\ t = [kind |-> t.kind, answer |-> t.answer, mode |-> t.mode]
      BY <1>3, <1>4 DEF TerminalTurn
    <2>3. t.kind = "pre_retrieval_refusal" <=> turn.check = Nothing
      <3>1. CASE turn.check = Nothing
        BY <1>2, <3>1, RefusalTurn
      <3>2. CASE turn.check # Nothing
        <4>1. t.kind = "evidence_limited"
          BY <1>1, <1>4, <3>2, TerminalAnswers
        <4> QED BY <3>2, <4>1
      <3> QED BY <3>1, <3>2
    <2>4. t.kind = "evidence_limited" => turn.check # Nothing /\ ~turn.check.sufficient
      <3> SUFFICES ASSUME t.kind = "evidence_limited"
                   PROVE  turn.check # Nothing /\ ~turn.check.sufficient
        OBVIOUS
      <3>1. turn.check # Nothing
        BY <2>3
      <3>2. t = TerminalAnswer(turn.results, turn.check) /\ turn.check \in EvidenceCheck
        BY <1>1, <3>1
      <3>3. ~(turn.results # {} /\ turn.check.sufficient)
        BY <1>1, <1>4, <3>1, <3>2, TerminalAnswers
      <3> QED BY <3>1, <3>3 DEF Accepted
    <2>5. Turn(t.kind, t.answer, t.mode) \in GeneratedTurn
      BY <1>0, <2>2 DEF GeneratedTurn
    <2>6. /\ GeneratedAccepted(generated) /\ generated.retrieved = turn
          /\ generated.kind # "model"
      <3> DEFINE g == Turn(t.kind, t.answer, t.mode)
      <3>1. g.retrieved = turn /\ g.kind = t.kind /\ g.answer = t.answer /\ g.expected = t.mode
        OBVIOUS
      <3> HIDE DEF g, t
      <3>2. g.kind # "retrieval_only" /\ g.kind # "generation_error" /\ g.kind # "model"
        BY <2>2, <3>1
      <3>3. g.retrieved.terminal = [kind |-> g.kind, answer |-> g.answer, mode |-> g.expected]
        BY <2>2, <3>1 DEF t
      <3>4. /\ g.kind \in {"pre_retrieval_refusal", "evidence_limited"}
            /\ g.kind = "pre_retrieval_refusal" <=> g.retrieved.check = Nothing
            /\ g.kind = "evidence_limited" => ~g.retrieved.check.sufficient
        BY <2>2, <2>3, <2>4, <3>1
      <3>5. GeneratedAccepted(g)
        BY <3>3, <3>4 DEF GeneratedAccepted
      <3> QED BY <2>1, <3>1, <3>2, <3>5 DEF g
    <2> QED BY <2>1, <2>5, <2>6
  <1>5. CASE turn.terminal = Nothing
    <2>1. turn.check # Nothing
      BY <1>2, <1>5, RefusalTurn
    <2>2. CASE ~generate
      <3>1. generated = Turn("retrieval_only", Nothing, Nothing)
        BY <1>5, <2>2, Zenon DEF GenerateTurn
      <3> QED BY <1>0, <1>5, <3>1 DEF GeneratedTurn, GeneratedAccepted
    <2>3. CASE generate /\ raw = Nothing
      <3>1. generated = Turn("generation_error", GenerationError, "insufficient_evidence")
        BY <1>5, <2>3, Zenon DEF GenerateTurn
      <3>2. GenerationError \in StructuredAnswer /\ "insufficient_evidence" \in AnswerMode
        <4>1. "generation_error" \in AnswerText
          BY DEF AnswerText
        <4> QED BY <4>1, ProgrammaticAnswers DEF GenerationError, AnswerMode
      <3>3. generated \in GeneratedTurn
        BY <1>0, <3>1, <3>2 DEF GeneratedTurn
      <3>4. /\ GeneratedAccepted(generated) /\ generated.retrieved = turn
            /\ generated.kind = "model" => generated.raw # Nothing
        <4> DEFINE g == Turn("generation_error", GenerationError, "insufficient_evidence")
        <4>1. /\ g.retrieved = turn /\ g.kind = "generation_error" /\ g.answer = GenerationError
              /\ g.expected = "insufficient_evidence"
          OBVIOUS
        <4>2. g = generated
          BY <3>1
        <4> HIDE DEF g, generated
        <4>3. GeneratedAccepted(g)
          BY <1>5, <2>1, <4>1 DEF GeneratedAccepted
        <4> QED BY <2>3, <4>1, <4>2, <4>3
      <3> QED BY <3>3, <3>4
    <2>4. CASE generate /\ raw # Nothing
      <3>1. generated = Turn("model", ParseAnswer(raw), "evidence_answer")
        BY <1>5, <2>4, Zenon DEF GenerateTurn
      <3>2. ParseAnswer(raw) \in StructuredAnswer /\ "evidence_answer" \in AnswerMode
        BY <2>4, ParsedAnswers DEF AnswerMode
      <3>3. generated \in GeneratedTurn
        BY <1>0, <3>1, <3>2 DEF GeneratedTurn
      <3>4. /\ GeneratedAccepted(generated) /\ generated.retrieved = turn
            /\ generated.kind = "model" => generated.raw # Nothing
        <4> DEFINE g == Turn("model", ParseAnswer(raw), "evidence_answer")
        <4>1. /\ g.retrieved = turn /\ g.kind = "model" /\ g.answer = ParseAnswer(raw)
              /\ g.expected = "evidence_answer" /\ g.raw = raw
          OBVIOUS
        <4>2. g = generated
          BY <3>1
        <4> HIDE DEF g, generated
        <4>3. GeneratedAccepted(g)
          BY <1>5, <2>1, <4>1 DEF GeneratedAccepted
        <4> QED BY <2>4, <4>1, <4>2, <4>3
      <3> QED BY <3>3, <3>4
    <2> QED BY <2>2, <2>3, <2>4
  <1> QED BY <1>4, <1>5

(* What the five kinds of a generated turn mean. *)
LEMMA GeneratedKinds ==
  ASSUME NEW g \in GeneratedTurn, GeneratedAccepted(g), RetrievedAccepted(g.retrieved),
         g.kind = "model" => g.raw # Nothing
  PROVE  LET turn == g.retrieved IN
         /\ turn \in RetrievedTurn /\ turn.results \in SUBSET Chunk
         /\ g.kind \in {"pre_retrieval_refusal", "evidence_limited"} =>
              /\ turn.terminal # Nothing /\ g.answer = turn.terminal.answer
              /\ g.expected = turn.terminal.mode
              /\ g.answer \in StructuredAnswer /\ Cited(g.answer) = {}
              /\ g.answer.mode = g.expected
              /\ g.expected \in {"insufficient_evidence", "needs_clarification", "out_of_scope"}
              /\ g.answer.text \in {"risk_refusal", "limited", "safe_clarification"}
              /\ Passes(g.answer, turn.results, g.expected)
         /\ g.kind \in {"retrieval_only", "generation_error", "model"} =>
              turn.terminal = Nothing /\ turn.check # Nothing /\ turn.check.sufficient
         /\ g.kind = "generation_error" =>
              g.answer = GenerationError /\ g.expected = "insufficient_evidence"
         /\ g.kind = "model" =>
              /\ g.answer \in StructuredAnswer /\ g.expected = "evidence_answer"
              /\ g.answer.schema => g.answer.text = "own"
  <1> DEFINE turn == g.retrieved
  <1>0. /\ turn \in RetrievedTurn /\ turn.results \in SUBSET Chunk /\ g.raw \in RawAnswer \cup {Nothing}
        /\ g.answer \in StructuredAnswer \cup {Nothing}
    BY DEF GeneratedTurn, RetrievedTurn
  <1>1. turn.check # Nothing =>
          turn.check \in EvidenceCheck /\ turn.terminal = TerminalAnswer(turn.results, turn.check)
    BY DEF RetrievedAccepted
  <1>2. turn.check = Nothing => turn.terminal = Refusal
    BY DEF RetrievedAccepted
  <1>3. ASSUME turn.terminal = Nothing PROVE turn.check # Nothing /\ turn.check.sufficient
    <2>1. turn.check # Nothing
      BY <1>2, <1>3, RefusalTurn
    <2> QED BY <1>0, <1>1, <1>3, <2>1, TerminalAnswers
  <1>4. ASSUME turn.terminal # Nothing
        PROVE  /\ turn.terminal.answer \in StructuredAnswer
               /\ Cited(turn.terminal.answer) = {}
               /\ turn.terminal.answer.mode = turn.terminal.mode
               /\ turn.terminal.mode \in {"insufficient_evidence", "needs_clarification", "out_of_scope"}
               /\ turn.terminal.answer.text \in {"risk_refusal", "limited", "safe_clarification"}
               /\ Passes(turn.terminal.answer, turn.results, turn.terminal.mode)
    <2>1. CASE turn.check = Nothing
      BY <1>0, <1>2, <2>1, RefusalTurn, ProgrammaticAnswers
    <2>2. CASE turn.check # Nothing
      <3>1. /\ turn.check \in EvidenceCheck
            /\ turn.terminal.answer = LimitedAnswer(turn.check)
            /\ turn.terminal.mode = LimitedAnswer(turn.check).mode
        BY <1>0, <1>1, <1>4, <2>2, TerminalAnswers
      <3> QED BY <1>0, <3>1, LimitedAnswers
    <2> QED BY <2>1, <2>2
  <1>5. ASSUME g.kind \in {"pre_retrieval_refusal", "evidence_limited"}
        PROVE  /\ turn.terminal # Nothing /\ g.answer = turn.terminal.answer
               /\ g.expected = turn.terminal.mode
    <2>1. turn.terminal = [kind |-> g.kind, answer |-> g.answer, mode |-> g.expected]
      BY <1>5 DEF GeneratedAccepted
    <2>2. turn.terminal.answer = g.answer /\ turn.terminal.mode = g.expected
            /\ turn.terminal.kind = g.kind
      BY <2>1
    <2>3. turn.terminal # Nothing
      <3> SUFFICES ASSUME turn.terminal = Nothing PROVE FALSE
        OBVIOUS
      <3>1. turn.check # Nothing /\ turn.check.sufficient
        BY <1>3
      <3>2. g.kind = "evidence_limited"
        BY <1>5, <3>1 DEF GeneratedAccepted
      <3> QED BY <3>1, <3>2 DEF GeneratedAccepted
    <2> QED BY <2>2, <2>3
  <1>6. g.kind \in {"retrieval_only", "generation_error", "model"} => turn.terminal = Nothing
    BY DEF GeneratedAccepted
  <1>7. g.kind = "generation_error" =>
          g.answer = GenerationError /\ g.expected = "insufficient_evidence"
    BY DEF GeneratedAccepted
  <1>8. ASSUME g.kind = "model"
        PROVE  /\ g.answer \in StructuredAnswer /\ g.expected = "evidence_answer"
               /\ g.answer.schema => g.answer.text = "own"
    <2>1. g.answer = ParseAnswer(g.raw) /\ g.expected = "evidence_answer"
      BY <1>8 DEF GeneratedAccepted
    <2>2. g.raw \in RawAnswer
      BY <1>0, <1>8
    <2> QED BY <2>1, <2>2, ParsedAnswers
  <1> QED BY <1>0, <1>3, <1>4, <1>5, <1>6, <1>7, <1>8

(* verify_turn keeps the contract of a verified turn, and what it lets out  *)
(* is worthy of the turn it is from.                                        *)
LEMMA VerifiedTurns ==
  ASSUME NEW g \in GeneratedTurn, GeneratedAccepted(g), Accepted(g.retrieved),
         g.kind = "model" => g.raw # Nothing
  PROVE  LET verified == VerifyTurn(g) IN
         /\ verified \in VerifiedTurn /\ verified.generated = g
         /\ VerifiedAccepted(verified)
         /\ SafeResult(verified) \in PublishedResult
         /\ Worthy(SafeResult(verified), g.retrieved)
  <1> DEFINE turn == g.retrieved
             Made(final, fallback) == [generated |-> g, final |-> final, fallback |-> fallback]
             verified == VerifyTurn(g)
             Fine(v) == /\ v \in VerifiedTurn /\ v.generated = g
                         /\ VerifiedAccepted(v)
                         /\ SafeResult(v) \in PublishedResult
                         /\ Worthy(SafeResult(v), turn)
  <1>0. RetrievedAccepted(turn)
    BY DEF Accepted
  <1>1. /\ turn \in RetrievedTurn /\ turn.results \in SUBSET Chunk
        /\ g.kind \in {"pre_retrieval_refusal", "evidence_limited"} =>
             /\ turn.terminal # Nothing /\ g.answer = turn.terminal.answer
             /\ g.expected = turn.terminal.mode
             /\ g.answer \in StructuredAnswer /\ Cited(g.answer) = {}
             /\ g.answer.mode = g.expected
             /\ g.expected \in {"insufficient_evidence", "needs_clarification", "out_of_scope"}
             /\ g.answer.text \in {"risk_refusal", "limited", "safe_clarification"}
             /\ Passes(g.answer, turn.results, g.expected)
        /\ g.kind \in {"retrieval_only", "generation_error", "model"} =>
             turn.terminal = Nothing /\ turn.check # Nothing /\ turn.check.sufficient
        /\ g.kind = "generation_error" =>
             g.answer = GenerationError /\ g.expected = "insufficient_evidence"
        /\ g.kind = "model" =>
             /\ g.answer \in StructuredAnswer /\ g.expected = "evidence_answer"
             /\ g.answer.schema => g.answer.text = "own"
    BY <1>0, GeneratedKinds
  <1>2. g.kind \in {"pre_retrieval_refusal", "evidence_limited", "retrieval_only",
                    "generation_error", "model"}
    BY DEF GeneratedTurn
  <1>3. Cardinality(turn.results) \in Nat
    BY <1>1, ChunksAreKnown, FS_Subset, FS_CardinalityType
  (* Whatever the kind, the result is what the final answer makes of it. *)
  <1>4. ASSUME NEW final \in StructuredAnswer, NEW fallback \in BOOLEAN,
               Passes(final, turn.results, final.mode),
               final.mode \in AnswerMode,
               Cited(final) # {} => g.kind = "model" /\ final = g.answer,
               final.mode = "evidence_answer" <=> final.text = "own",
               final.text = "own" => g.kind = "model" /\ final = g.answer,
               turn.terminal # Nothing => final.mode = turn.terminal.mode,
               IF fallback
               THEN g.kind = "model" /\ ~Passes(g.answer, turn.results, g.expected)
               ELSE final = IF g.kind = "generation_error"
                            THEN SafeTerminal("insufficient_evidence") ELSE g.answer
        PROVE  Fine(Made(final, fallback))
    <2> DEFINE v == Made(final, fallback)
               result == [mode |-> final.mode, text |-> final.text, cited |-> Cited(final),
                          sources |-> Cardinality(turn.results), kind |-> g.kind,
                          fallback |-> fallback]
    <2>1. /\ v \in VerifiedTurn /\ v.generated = g /\ v.final = final /\ v.fallback = fallback
      BY <1>4 DEF VerifiedTurn
    <2>2. final # Nothing
      BY <1>4, NothingIsNoValue
    <2>3. SafeResult(v) = result
      <3> HIDE DEF v
      <3> QED BY <2>1, <2>2 DEF SafeResult
    <2>4. /\ Cited(final) \in SUBSET Nat /\ Cited(final) \subseteq 1..Cardinality(turn.results)
          /\ final.mode = "evidence_answer" => Cited(final) # {}
      <3>1. /\ final.shown \in SUBSET Nat /\ final.claims \in SUBSET (SUBSET Nat)
        BY <1>4 DEF StructuredAnswer
      <3>2. CitationsValid(final, turn.results)
        BY <1>4 DEF Passes
      <3> QED BY <3>1, <3>2 DEF CitationsValid, Cited
    <2>5. result \in PublishedResult
      <3>1. final.text \in AnswerText
        BY <1>4 DEF StructuredAnswer
      <3> QED BY <1>2, <1>3, <1>4, <2>4, <3>1 DEF PublishedResult
    <2>6. Worthy(result, turn)
      BY <1>1, <1>2, <1>4, <2>4 DEF Worthy
    <2>7. VerifiedAccepted(v)
      <3> HIDE DEF v
      <3> QED BY <1>4, <2>1, <2>2 DEF VerifiedAccepted, Publishable
    <2> HIDE DEF v, result
    <2>8. Fine(v)
      BY <2>1, <2>3, <2>5, <2>6, <2>7
    <2> QED BY <2>8 DEF v
  <1>5. ASSUME g.kind = "retrieval_only" PROVE Fine(verified)
    <2> DEFINE v == Made(Nothing, FALSE)
               result == [mode |-> "retrieval_only", text |-> "sources", cited |-> {},
                          sources |-> Cardinality(turn.results), kind |-> g.kind,
                          fallback |-> FALSE]
    <2>1. verified = v
      BY <1>5 DEF VerifyTurn
    <2>2. v \in VerifiedTurn /\ v.generated = g /\ v.final = Nothing /\ v.fallback = FALSE
      BY DEF VerifiedTurn
    <2>3. SafeResult(v) = result
      <3> HIDE DEF v
      <3> QED BY <2>2 DEF SafeResult
    <2>4. result \in PublishedResult
      BY <1>2, <1>3 DEF PublishedResult
    <2>5. Worthy(result, turn)
      BY <1>1, <1>5 DEF Worthy
    <2>6. VerifiedAccepted(v)
      <3> HIDE DEF v
      <3> QED BY <1>5, <2>2 DEF VerifiedAccepted, Publishable
    <2> HIDE DEF v, result
    <2> QED BY <2>1, <2>2, <2>3, <2>4, <2>5, <2>6
  <1>6. ASSUME g.kind \in {"pre_retrieval_refusal", "evidence_limited"} PROVE Fine(verified)
    <2>1. verified = Made(g.answer, FALSE)
      <3>1. verified = Made(Checked(g.answer, turn.results, g.expected), FALSE)
        BY <1>6 DEF VerifyTurn
      <3> QED BY <1>1, <1>6, <3>1 DEF Checked
    <2>2. g.answer.mode \in AnswerMode /\ g.answer.mode # "evidence_answer"
            /\ g.answer.text # "own"
      BY <1>1, <1>6 DEF AnswerMode
    <2> HIDE DEF verified, Fine, Made
    <2> QED BY <1>1, <1>4, <1>6, <2>1, <2>2
  <1> DEFINE safe == SafeTerminal("insufficient_evidence")
  <1>7. /\ safe \in StructuredAnswer /\ safe.mode = "insufficient_evidence" /\ Cited(safe) = {}
        /\ safe.text # "own" /\ safe.mode \in AnswerMode
        /\ Passes(safe, turn.results, "insufficient_evidence")
    BY <1>1, SafeAnswers DEF AnswerMode
  <1>8. ASSUME NEW text \in {"generation_error", "low_confidence"}
        PROVE  Checked(Programmatic(text, "insufficient_evidence"), turn.results,
                       "insufficient_evidence") = safe
    <2>1. text \in AnswerText /\ text \notin Allowed["insufficient_evidence"]
      BY DEF AnswerText, Allowed
    <2>2. ~Passes(Programmatic(text, "insufficient_evidence"), turn.results, "insufficient_evidence")
      BY <1>1, <2>1, ProgrammaticAnswers
    <2> QED BY <2>2 DEF Checked
  <1>9. ASSUME g.kind = "generation_error" PROVE Fine(verified)
    <2>1. verified = Made(safe, FALSE)
      <3>1. verified = Made(Checked(g.answer, turn.results, g.expected), FALSE)
        BY <1>9 DEF VerifyTurn
      <3> QED BY <1>1, <1>8, <1>9, <3>1 DEF GenerationError
    <2> HIDE DEF verified, safe, Fine, Made
    <2>2. /\ safe = IF g.kind = "generation_error" THEN SafeTerminal("insufficient_evidence")
                    ELSE g.answer
          /\ turn.terminal = Nothing /\ Passes(safe, turn.results, safe.mode)
          /\ safe.mode = "evidence_answer" <=> safe.text = "own"
      BY <1>1, <1>7, <1>9 DEF safe
    <2> PICK fallback \in BOOLEAN : fallback = FALSE
      BY Zenon
    <2>3. Fine(Made(safe, fallback))
      BY <1>4, <1>7, <1>9, <2>2
    <2> QED BY <2>1, <2>3
  <1>10. ASSUME g.kind = "model", Passes(g.answer, turn.results, g.expected)
         PROVE  Fine(verified)
    <2>1. verified = Made(g.answer, FALSE)
      BY <1>10 DEF VerifyTurn
    <2>2. g.answer.schema /\ g.answer.mode = "evidence_answer"
      BY <1>1, <1>10, NothingIsNoValue DEF Passes, ModeValid, AnswerMode
    <2>3. g.answer.mode \in AnswerMode
      BY <2>2 DEF AnswerMode
    <2> HIDE DEF verified, Fine, Made
    <2> QED BY <1>1, <1>4, <1>10, <2>1, <2>2, <2>3
  <1>11. ASSUME g.kind = "model", ~Passes(g.answer, turn.results, g.expected)
         PROVE  Fine(verified)
    <2>1. verified = Made(safe, TRUE)
      <3>1. verified = Made(Checked(Programmatic("low_confidence", "insufficient_evidence"),
                                        turn.results, "insufficient_evidence"), TRUE)
        BY <1>11 DEF VerifyTurn
      <3> QED BY <1>8, <3>1
    <2> HIDE DEF verified, safe, Fine, Made
    <2>2. /\ turn.terminal = Nothing /\ Passes(safe, turn.results, safe.mode)
          /\ safe.mode = "evidence_answer" <=> safe.text = "own"
      BY <1>1, <1>7, <1>11
    <2> PICK fallback \in BOOLEAN : fallback = TRUE
      BY Zenon
    <2>3. Fine(Made(safe, fallback))
      BY <1>4, <1>7, <1>11, <2>2
    <2> QED BY <2>1, <2>3
  <1> QED BY <1>2, <1>5, <1>6, <1>9, <1>10, <1>11

-----------------------------------------------------------------------------
(* States *)

Late == {"generate", "verify", "persist_result"}

(* What the fields of a state have to do with the node it is at. *)
Coherent(S) ==
  /\ S.next \in Successors[S.last]
  /\ S.route = None <=> S.last \in {None, "analyze_query"}
  /\ S.retrieved = None <=> S.last \in {None, "analyze_query", "route"}
  /\ S.verified = None <=> S.last \notin Late
  /\ S.last \in {None, "analyze_query", "route"} => S.rounds = 0
  /\ S.retrieved # None =>
       /\ Accepted(Retrieved(S))
       /\ S.route = "programmatic_terminal" <=> Retrieved(S).check = Nothing
  /\ S.last = "plan_followup" \/ S.next = "plan_followup" => S.route = "retrieve"
  /\ S.next = "plan_followup" => S.rounds < MaxRounds
  /\ S.next = "generate" \/ S.last \in Late =>
       /\ S.status \in Answered
       /\ S.status = "succeeded" => Retrieved(S).check # Nothing /\ Retrieved(S).check.sufficient
  /\ S.verified # None => Worthy(Safe(S), Retrieved(S))

(* What a state refers to has been stored, and its rounds are paid for. *)
Backed(S, stored, paid) ==
  {S.retrieved, S.verified} \ {None} \subseteq stored /\ S.rounds <= paid

StateOK(S, stored, paid) == S \in HarnessState /\ Coherent(S) /\ Backed(S, stored, paid)

LEMMA HarnessStates ==
  ASSUME NEW S \in HarnessState
  PROVE  /\ S.last \in NodeName \cup {None} /\ S.next \in NodeName \cup {None}
         /\ S.rounds \in Nat /\ S.rounds <= MaxRounds
         /\ S.route \in {"retrieve", "programmatic_terminal", None}
         /\ S.queries \in 0..MaxQueries
         /\ S.status \in Answered \cup {None}
         /\ S.retrieved # None => /\ Retrieved(S) \in RetrievedTurn
                                  /\ S.retrieved = RetrievedArtifact(Retrieved(S))
         /\ S.verified # None => /\ Safe(S) \in PublishedResult
                                 /\ S.verified = <<"verified_result", Safe(S)>>
  BY RunLimits DEF HarnessState, Retrieved, Safe, RetrievedArtifact

LEMMA Nodes ==
  ASSUME NEW S, S.last \in NodeName \cup {None}, S.next \in Successors[S.last]
  PROVE  /\ S.next \in NodeName \cup {None}
         /\ S.next = "analyze_query" <=> S.last = None
         /\ S.next = "route" <=> S.last = "analyze_query"
         /\ S.next = "retrieve" => S.last \in {"route", "plan_followup"}
         /\ S.last = "route" => S.next = "retrieve"
         /\ S.next = "merge_evidence" <=> S.last = "retrieve"
         /\ S.next = "check_evidence" <=> S.last = "merge_evidence"
         /\ S.next = "plan_followup" => S.last = "check_evidence"
         /\ S.next = "generate" => S.last \in {"check_evidence", "plan_followup"}
         /\ S.next = "verify" <=> S.last = "generate"
         /\ S.next = "persist_result" <=> S.last = "verify"
         /\ S.next = None <=> S.last = "persist_result"
         /\ None \notin NodeName
  BY NullIsNoState DEF Successors, NodeName

LEMMA NewStates ==
  ASSUME NEW stored, NEW paid \in Nat
  PROVE  StateOK(NewState, stored, paid)
  <1>1. NewState \in HarnessState
    BY RunLimits DEF NewState, HarnessState, NodeName
  <1>2. NewState.next \in Successors[NewState.last]
    BY NullIsNoState DEF NewState, Successors, NodeName
  <1>3. Coherent(NewState)
    BY <1>2, NullIsNoState DEF NewState, Coherent, Late, NodeName
  <1>4. Backed(NewState, stored, paid)
    BY DEF NewState, Backed
  <1> QED BY <1>1, <1>3, <1>4 DEF StateOK

(* A state stays sound: what is stored stays, and what is paid. *)
LEMMA StatesStay ==
  ASSUME NEW S, NEW stored, NEW more, NEW paid \in Nat, NEW spent \in Nat,
         StateOK(S, stored, paid), stored \subseteq more, paid <= spent
  PROVE  StateOK(S, more, spent)
  BY HarnessStates DEF StateOK, Backed

(* The nodes that change nothing but where the state is. *)
LEMMA StatesPass ==
  ASSUME NEW S, NEW stored, NEW paid \in Nat, StateOK(S, stored, paid),
         NEW next, \/ S.next = "merge_evidence" /\ next = "check_evidence"
                   \/ S.next = "verify" /\ next = "persist_result"
                   \/ S.next = "persist_result" /\ next = None
  PROVE  StateOK([S EXCEPT !.last = S.next, !.next = next], stored, paid)
  <1> DEFINE Z == [S EXCEPT !.last = S.next, !.next = next]
  <1>1. S \in HarnessState /\ Coherent(S) /\ Backed(S, stored, paid)
    BY DEF StateOK
  <1>2. /\ Z.last = S.next /\ Z.next = next /\ Z.route = S.route /\ Z.rounds = S.rounds
        /\ Z.retrieved = S.retrieved /\ Z.verified = S.verified /\ Z.status = S.status
    BY <1>1 DEF HarnessState
  <1>3. Z \in HarnessState
    BY <1>1 DEF HarnessState, NodeName
  <1> HIDE DEF Z
  <1>4. Z.next \in Successors[Z.last]
    BY <1>2, NullIsNoState DEF Successors, NodeName
  <1>5. None \notin {"merge_evidence", "verify", "persist_result", "generate", "retrieve", "plan_followup"}
    BY NullIsNoState DEF NodeName
  <1>6. /\ S.next = "merge_evidence" <=> S.last = "retrieve"
        /\ S.next = "verify" <=> S.last = "generate"
        /\ S.next = "persist_result" <=> S.last = "verify"
    BY <1>1, HarnessStates, Nodes DEF Coherent
  <1>7. Retrieved(Z) = Retrieved(S) /\ Safe(Z) = Safe(S)
    BY <1>2 DEF Retrieved, Safe
  <1>8. Coherent(Z)
    <2>1. CASE S.next = "merge_evidence" /\ next = "check_evidence"
      <3>1. /\ Z.last = "merge_evidence" /\ Z.next = "check_evidence"
            /\ S.last = "retrieve" /\ S.next = "merge_evidence"
        BY <1>2, <1>6, <2>1
      <3>2. Coherent(S)
        BY <1>1
      <3> QED BY <1>2, <1>4, <1>5, <1>7, <3>1, <3>2 DEF Coherent, Late
    <2>2. CASE S.next = "verify" /\ next = "persist_result"
      BY <1>1, <1>2, <1>4, <1>5, <1>6, <1>7, <2>2 DEF Coherent, Late
    <2>3. CASE S.next = "persist_result" /\ next = None
      BY <1>1, <1>2, <1>4, <1>5, <1>6, <1>7, <2>3 DEF Coherent, Late
    <2> QED BY <2>1, <2>2, <2>3
  <1>9. Backed(Z, stored, paid)
    BY <1>1, <1>2 DEF Backed
  <1> QED BY <1>3, <1>8, <1>9 DEF StateOK, Z

LEMMA StatesStart ==
  ASSUME NEW S, NEW stored, NEW paid \in Nat, StateOK(S, stored, paid)
  PROVE  /\ S.next = "analyze_query" =>
              StateOK([[S EXCEPT !.queries = 1] EXCEPT !.last = S.next, !.next = "route"],
                      stored, paid)
         /\ S.next = "route" =>
              \A route \in {"retrieve", "programmatic_terminal"} :
                StateOK([[S EXCEPT !.route = route] EXCEPT !.last = S.next, !.next = "retrieve"],
                        stored, paid)
  <1>1. S \in HarnessState /\ Coherent(S) /\ Backed(S, stored, paid)
    BY DEF StateOK
  <1>2. /\ None \notin {"analyze_query", "route", "retrieve", "generate", "plan_followup"}
        /\ None \notin {"retrieve", "programmatic_terminal"}
    BY NullIsNoState DEF NodeName
  <1>3. CASE S.next = "analyze_query"
    <2> DEFINE Z == [[S EXCEPT !.queries = 1] EXCEPT !.last = S.next, !.next = "route"]
    <2>1. /\ Z.last = "analyze_query" /\ Z.next = "route" /\ Z.route = S.route
          /\ Z.rounds = S.rounds /\ Z.retrieved = S.retrieved /\ Z.verified = S.verified
          /\ Z.status = S.status
      BY <1>1, <1>3 DEF HarnessState
    <2>2. Z \in HarnessState
      <3>1. 1 \in 0..MaxQueries
        BY RunLimits
      <3>2. [S EXCEPT !.queries = 1] \in HarnessState
        BY <1>1, <3>1 DEF HarnessState
      <3> DEFINE Q == [S EXCEPT !.queries = 1]
      <3> HIDE DEF Q
      <3>3. [Q EXCEPT !.last = S.next, !.next = "route"] \in HarnessState
        BY <1>1, <1>3, <3>2 DEF HarnessState, NodeName, Q
      <3> QED BY <3>3 DEF Q
    <2> HIDE DEF Z
    <2>3. S.last = None
      BY <1>1, <1>3, HarnessStates, Nodes DEF Coherent
    <2>4. Z.next \in Successors[Z.last]
      BY <2>1, NullIsNoState DEF Successors, NodeName
    <2>7. Coherent(Z)
      <3>1. Coherent(S) /\ None \notin Late
        BY <1>1, NullIsNoState DEF Late, NodeName
      <3>2. /\ S.route = None /\ S.retrieved = None /\ S.verified = None /\ S.rounds = 0
        BY <2>3, <3>1 DEF Coherent
      <3> QED BY <1>2, <2>1, <2>4, <3>1, <3>2 DEF Coherent, Late
    <2>8. Backed(Z, stored, paid)
      BY <1>1, <2>1 DEF Backed
    <2>5. Coherent(Z) /\ Backed(Z, stored, paid)
      BY <2>7, <2>8
    <2>6. StateOK(Z, stored, paid)
      BY <2>2, <2>5 DEF StateOK
    <2> QED BY <1>3, <2>6 DEF Z
  <1>4. ASSUME S.next = "route", NEW route \in {"retrieve", "programmatic_terminal"}
        PROVE  StateOK([[S EXCEPT !.route = route] EXCEPT !.last = S.next, !.next = "retrieve"],
                       stored, paid)
    <2> DEFINE Z == [[S EXCEPT !.route = route] EXCEPT !.last = S.next, !.next = "retrieve"]
    <2>1. /\ Z.last = "route" /\ Z.next = "retrieve" /\ Z.route = route
          /\ Z.rounds = S.rounds /\ Z.retrieved = S.retrieved /\ Z.verified = S.verified
          /\ Z.status = S.status
      BY <1>1, <1>4 DEF HarnessState
    <2>2. Z \in HarnessState
      BY <1>1, <1>4 DEF HarnessState, NodeName
    <2> HIDE DEF Z
    <2>3. S.last = "analyze_query"
      BY <1>1, <1>4, HarnessStates, Nodes DEF Coherent
    <2>4. Z.next \in Successors[Z.last]
      BY <2>1, NullIsNoState DEF Successors, NodeName
    <2>5. Coherent(Z) /\ Backed(Z, stored, paid)
      BY <1>1, <1>2, <2>1, <2>3, <2>4 DEF Coherent, Backed, Late
    <2> QED BY <2>2, <2>5 DEF StateOK, Z
  <1> QED BY <1>2, <1>3, <1>4

(* retrieve: the state refers to the turn that has been stored. *)
LEMMA StatesRetrieve ==
  ASSUME NEW S, NEW stored, NEW more, NEW paid \in Nat, NEW rounds \in Nat,
         StateOK(S, stored, rounds), S.next = "retrieve", rounds <= paid, paid <= MaxRounds,
         NEW turn, Accepted(turn), S.route = "programmatic_terminal" <=> turn.check = Nothing,
         stored \subseteq more, RetrievedArtifact(turn) \in more
  PROVE  LET Z == [S EXCEPT !.retrieved = RetrievedArtifact(turn), !.rounds = paid,
                            !.queries = 0] IN
         /\ Z \in HarnessState /\ Z.next = S.next
         /\ StateOK([Z EXCEPT !.last = S.next, !.next = "merge_evidence"], more, paid)
  <1> DEFINE Z == [S EXCEPT !.retrieved = RetrievedArtifact(turn), !.rounds = paid, !.queries = 0]
             Y == [Z EXCEPT !.last = S.next, !.next = "merge_evidence"]
  <1>1. S \in HarnessState /\ Coherent(S) /\ Backed(S, stored, rounds) /\ turn \in RetrievedTurn
    BY DEF StateOK, Accepted
  <1>2. RetrievedArtifact(turn) \in ({"retrieved_turn"} \X RetrievedTurn) /\ paid \in 0..MaxRounds
          /\ 0 \in 0..MaxQueries /\ RetrievedArtifact(turn)[2] = turn
    BY <1>1, RunLimits DEF RetrievedArtifact
  <1>3. Z \in HarnessState /\ Z.next = S.next
    BY <1>1, <1>2 DEF HarnessState
  <1>4. /\ Y.last = "retrieve" /\ Y.next = "merge_evidence" /\ Y.route = S.route
        /\ Y.rounds = paid /\ Y.retrieved = RetrievedArtifact(turn) /\ Y.verified = S.verified
        /\ Y.status = S.status
    BY <1>1 DEF HarnessState
  <1>5. Y \in HarnessState
    <2> HIDE DEF Z
    <2> QED BY <1>1, <1>3 DEF HarnessState, NodeName
  <1> HIDE DEF Z, Y
  <1>6. /\ None \notin {"analyze_query", "route", "retrieve", "generate", "plan_followup"}
        /\ RetrievedArtifact(turn) # None
    BY <1>2, NullIsNoState DEF NodeName
  <1>7. S.last \in {"route", "plan_followup"}
    BY <1>1, HarnessStates, Nodes DEF Coherent
  <1>8. Y.next \in Successors[Y.last]
    BY <1>4, NullIsNoState DEF Successors, NodeName
  <1>9. Retrieved(Y) = turn
    BY <1>2, <1>4 DEF Retrieved
  <1>10. S.verified = None /\ S.route # None
    BY <1>1, <1>6, <1>7 DEF Coherent, Late
  <1>11. Coherent(Y)
    BY <1>4, <1>6, <1>8, <1>9, <1>10 DEF Coherent, Late
  <1>12. Backed(Y, more, paid)
    BY <1>1, <1>4, <1>10 DEF Backed
  <1>13. StateOK(Y, more, paid)
    BY <1>5, <1>11, <1>12 DEF StateOK
  <1> QED BY <1>3, <1>13 DEF Y, Z

(* check_evidence, and what plan_followup decides. *)
LEMMA StatesDecide ==
  ASSUME NEW S, NEW stored, NEW paid \in Nat, StateOK(S, stored, paid), paid <= MaxRounds
  PROVE  /\ S.next = "check_evidence" =>
              \A status \in Answered \cup {None} :
                /\ status = "succeeded" => Retrieved(S).check # Nothing /\ Retrieved(S).check.sufficient
                /\ status = None => S.route = "retrieve" /\ paid < MaxRounds
                => StateOK([[S EXCEPT !.status = status, !.rounds = paid]
                              EXCEPT !.last = S.next,
                                     !.next = IF status = None THEN "plan_followup" ELSE "generate"],
                           stored, paid)
         /\ S.next = "plan_followup" =>
              /\ StateOK([[[S EXCEPT !.rounds = paid] EXCEPT !.status = "completed_with_limits"]
                            EXCEPT !.last = S.next, !.next = "generate"], stored, paid)
              /\ \A queries \in 0..MaxQueries :
                   StateOK([[[S EXCEPT !.rounds = paid] EXCEPT !.queries = queries]
                              EXCEPT !.last = S.next, !.next = "retrieve"], stored, paid)
  <1>1. S \in HarnessState /\ Coherent(S) /\ Backed(S, stored, paid) /\ paid \in 0..MaxRounds
    BY RunLimits DEF StateOK
  <1>2. /\ None \notin {"analyze_query", "route", "retrieve", "generate", "plan_followup",
                        "merge_evidence", "check_evidence"}
        /\ "completed_with_limits" \in Answered /\ None \notin Answered
    BY NullIsNoState DEF NodeName, Answered
  <1>3. ASSUME S.next = "check_evidence", NEW status \in Answered \cup {None},
               status = "succeeded" => Retrieved(S).check # Nothing /\ Retrieved(S).check.sufficient,
               status = None => S.route = "retrieve" /\ paid < MaxRounds
        PROVE  StateOK([[S EXCEPT !.status = status, !.rounds = paid]
                          EXCEPT !.last = S.next,
                                 !.next = IF status = None THEN "plan_followup" ELSE "generate"],
                       stored, paid)
    <2> DEFINE next == IF status = None THEN "plan_followup" ELSE "generate"
               Z == [[S EXCEPT !.status = status, !.rounds = paid]
                       EXCEPT !.last = S.next, !.next = next]
    <2>0. next \in NodeName /\ next \in Successors["check_evidence"]
      BY NullIsNoState DEF NodeName, Successors
    <2>1. /\ Z.last = "check_evidence" /\ Z.next = next /\ Z.route = S.route
          /\ Z.rounds = paid /\ Z.retrieved = S.retrieved /\ Z.verified = S.verified
          /\ Z.status = status
      BY <1>1, <1>3 DEF HarnessState
    <2>2. Z \in HarnessState
      BY <1>1, <1>3, <2>0 DEF HarnessState, NodeName
    <2> HIDE DEF Z
    <2>3. S.last = "merge_evidence"
      BY <1>1, <1>3, HarnessStates, Nodes DEF Coherent
    <2>4. Retrieved(Z) = Retrieved(S)
      BY <2>1 DEF Retrieved
    <2>5. Z.next \in Successors[Z.last]
      BY <2>0, <2>1
    <2>6. Coherent(Z)
      BY <1>1, <1>2, <1>3, <2>1, <2>3, <2>4, <2>5 DEF Coherent, Late
    <2>7. Backed(Z, stored, paid)
      BY <1>1, <2>1 DEF Backed
    <2> QED BY <2>2, <2>6, <2>7 DEF StateOK, Z
  <1>4. ASSUME S.next = "plan_followup"
        PROVE  StateOK([[[S EXCEPT !.rounds = paid] EXCEPT !.status = "completed_with_limits"]
                          EXCEPT !.last = S.next, !.next = "generate"], stored, paid)
    <2> DEFINE Z == [[[S EXCEPT !.rounds = paid] EXCEPT !.status = "completed_with_limits"]
                       EXCEPT !.last = S.next, !.next = "generate"]
    <2>1. /\ Z.last = "plan_followup" /\ Z.next = "generate" /\ Z.route = S.route
          /\ Z.rounds = paid /\ Z.retrieved = S.retrieved /\ Z.verified = S.verified
          /\ Z.status = "completed_with_limits"
      BY <1>1, <1>4 DEF HarnessState
    <2>2. Z \in HarnessState
      BY <1>1, <1>2, <1>4 DEF HarnessState, NodeName
    <2> HIDE DEF Z
    <2>3. S.last = "check_evidence"
      BY <1>1, <1>4, HarnessStates, Nodes DEF Coherent
    <2>4. Z.next \in Successors[Z.last]
      BY <2>1, NullIsNoState DEF Successors, NodeName
    <2>5. Retrieved(Z) = Retrieved(S)
      BY <2>1 DEF Retrieved
    <2>6. Coherent(Z)
      BY <1>1, <1>2, <1>4, <2>1, <2>3, <2>4, <2>5 DEF Coherent, Late
    <2>7. Backed(Z, stored, paid)
      BY <1>1, <2>1 DEF Backed
    <2> QED BY <2>2, <2>6, <2>7 DEF StateOK, Z
  <1>5. ASSUME S.next = "plan_followup", NEW queries \in 0..MaxQueries
        PROVE  StateOK([[[S EXCEPT !.rounds = paid] EXCEPT !.queries = queries]
                          EXCEPT !.last = S.next, !.next = "retrieve"], stored, paid)
    <2> DEFINE Z == [[[S EXCEPT !.rounds = paid] EXCEPT !.queries = queries]
                       EXCEPT !.last = S.next, !.next = "retrieve"]
    <2>1. /\ Z.last = "plan_followup" /\ Z.next = "retrieve" /\ Z.route = S.route
          /\ Z.rounds = paid /\ Z.retrieved = S.retrieved /\ Z.verified = S.verified
          /\ Z.status = S.status
      BY <1>1, <1>5 DEF HarnessState
    <2>2. Z \in HarnessState
      BY <1>1, <1>2, <1>5 DEF HarnessState, NodeName
    <2> HIDE DEF Z
    <2>3. S.last = "check_evidence"
      BY <1>1, <1>5, HarnessStates, Nodes DEF Coherent
    <2>4. Z.next \in Successors[Z.last]
      BY <2>1, NullIsNoState DEF Successors, NodeName
    <2>5. Retrieved(Z) = Retrieved(S)
      BY <2>1 DEF Retrieved
    <2>6. Coherent(Z)
      BY <1>1, <1>2, <1>5, <2>1, <2>3, <2>4, <2>5 DEF Coherent, Late
    <2>7. Backed(Z, stored, paid)
      BY <1>1, <2>1 DEF Backed
    <2> QED BY <2>2, <2>6, <2>7 DEF StateOK, Z
  <1> QED BY <1>3, <1>4, <1>5

(* generate: the state refers to the safe result that has been stored. *)
LEMMA StatesGenerate ==
  ASSUME NEW S, NEW stored, NEW more, NEW paid \in Nat, NEW rounds \in Nat,
         StateOK(S, stored, rounds), S.next = "generate", rounds <= paid, paid <= MaxRounds,
         NEW result \in PublishedResult, Worthy(result, Retrieved(S)),
         stored \subseteq more, <<"verified_result", result>> \in more
  PROVE  LET Z == [S EXCEPT !.verified = <<"verified_result", result>>, !.rounds = paid,
                            !.status = IF @ = None THEN "succeeded" ELSE @] IN
         /\ Z \in HarnessState /\ Z.next = S.next
         /\ StateOK([Z EXCEPT !.last = S.next, !.next = "verify"], more, paid)
  <1> DEFINE artifact == <<"verified_result", result>>
             Z == [S EXCEPT !.verified = artifact, !.rounds = paid,
                            !.status = IF @ = None THEN "succeeded" ELSE @]
             Y == [Z EXCEPT !.last = S.next, !.next = "verify"]
  <1>1. S \in HarnessState /\ Coherent(S) /\ Backed(S, stored, rounds)
    BY DEF StateOK
  <1>2. artifact \in ({"verified_result"} \X PublishedResult) /\ paid \in 0..MaxRounds
          /\ artifact[2] = result
    BY RunLimits
  <1>3. /\ None \notin {"analyze_query", "route", "retrieve", "generate", "plan_followup"}
        /\ artifact # None /\ None \notin Answered
    <2> HIDE DEF artifact
    <2> QED BY <1>2, NullIsNoState DEF NodeName
  <1> HIDE DEF artifact
  <1>4. S.status \in Answered /\ S.status # None
    BY <1>1, <1>3 DEF Coherent
  <1>5. Z \in HarnessState /\ Z.next = S.next
    BY <1>1, <1>2, <1>4 DEF HarnessState
  <1>6. /\ Y.last = "generate" /\ Y.next = "verify" /\ Y.route = S.route
        /\ Y.rounds = paid /\ Y.verified = artifact /\ Y.retrieved = S.retrieved
        /\ Y.status = S.status
    BY <1>1, <1>4 DEF HarnessState
  <1>7. Y \in HarnessState
    <2> HIDE DEF Z
    <2> QED BY <1>1, <1>5 DEF HarnessState, NodeName
  <1> HIDE DEF Z, Y
  <1>8. S.last \in {"check_evidence", "plan_followup"}
    BY <1>1, HarnessStates, Nodes DEF Coherent
  <1>9. Y.next \in Successors[Y.last]
    BY <1>6, NullIsNoState DEF Successors, NodeName
  <1>10. Safe(Y) = result /\ Retrieved(Y) = Retrieved(S)
    BY <1>2, <1>6 DEF Safe, Retrieved
  <1>11. Coherent(Y)
    <2>1. Coherent(S)
      BY <1>1
    <2>2. /\ S.route # None /\ S.retrieved # None
          /\ S.last \in {"check_evidence", "plan_followup"} /\ S.last \notin Late
      BY <1>3, <1>8, <2>1, NullIsNoState DEF Coherent, Late, NodeName
    <2>3. /\ S.status \in Answered
          /\ S.status = "succeeded" => Retrieved(S).check # Nothing /\ Retrieved(S).check.sufficient
          /\ Accepted(Retrieved(S))
          /\ S.route = "programmatic_terminal" <=> Retrieved(S).check = Nothing
      BY <1>1, <2>1, <2>2 DEF Coherent
    <2> QED BY <1>3, <1>6, <1>9, <1>10, <2>2, <2>3 DEF Coherent, Late
  <1>12. Backed(Y, more, paid)
    BY <1>1, <1>6 DEF Backed, artifact
  <1>13. StateOK(Y, more, paid)
    BY <1>7, <1>11, <1>12 DEF StateOK
  <1> QED BY <1>5, <1>13 DEF Y, Z, artifact

-----------------------------------------------------------------------------
(* Frames *)

Calls == {"reserve", "dispatch", "call"}

Pc == {"none", "done", "put", "bind", "node", "save", "emit", "generate", "limited", "raise"}
        \cup Calls

(* A thread that has lost its lease may be about to plan for a round more   *)
(* than there are.                                                          *)
FrameOperation == GraphOperation \cup {<<"plan_followup", MaxRounds + 1, 0>>}

FrameRow ==
  [pc: Pc, with: Settings \cup {None}, state: HarnessState, op: FrameOperation \cup {None},
   n: Nat, tries: Nat, found: SUBSET Chunk, turn: RetrievedTurn \cup VerifiedTurn \cup {None}]

Moved(S) ==
  [S EXCEPT !.last = S.next, !.next = IF S.next = "retrieve" THEN "merge_evidence" ELSE "verify"]

(* A verified turn of what was retrieved. *)
Earned(turn, retrieved) ==
  /\ turn \in VerifiedTurn /\ turn.generated.retrieved = retrieved
  /\ GeneratedAccepted(turn.generated) /\ VerifiedAccepted(turn)
  /\ SafeResult(turn) \in PublishedResult /\ Worthy(SafeResult(turn), retrieved)

(* What an execution works on is sound, also when its lease is gone. *)
Sound(f, stored, paid) ==
  /\ f \in FrameRow
  /\ StateOK(IF f.pc = "emit" THEN Moved(f.state) ELSE f.state, stored, paid)
  /\ f.pc = "node" => f.state.next # None
  /\ f.pc = "generate" => f.state.next = "generate"
  /\ f.pc \in {"save", "emit"} => f.state.next \in {"retrieve", "generate"}
  /\ f.pc \in Calls =>
       /\ f.op \in FrameOperation
       /\ f.op[1] = "search_laws" => f.state.next = "retrieve" /\ f.state.route = "retrieve"
       /\ f.op[1] = "plan_followup" => f.state.next = "plan_followup"
       /\ f.op[1] = "generate_answer" =>
            f.state.next = "generate" /\ Retrieved(f.state).terminal = Nothing
  /\ f.pc = "save" /\ f.state.next = "retrieve" =>
       /\ Accepted(f.turn)
       /\ f.state.route = "programmatic_terminal" <=> f.turn.check = Nothing
  /\ f.pc = "save" /\ f.state.next = "generate" => Earned(f.turn, Retrieved(f.state))
  /\ f.pc \in Calls \cup {"save"} /\ f.state.next = "retrieve" /\ f.state.route = "retrieve" =>
       f.state.rounds < paid

(* S may be bound after T. *)
Steps(T, S) ==
  /\ S.last = T.next
  /\ T.rounds <= S.rounds
  /\ S.last = "retrieve" /\ T.last # "route" => T.rounds < S.rounds
  /\ S.last # "generate" => S.verified = T.verified
  /\ S.last = "persist_result" => S.retrieved = T.retrieved /\ S.status = T.status

(* The execution under the latest lease goes on from the trusted state T.   *)
Follows(f, T, status, result, paid) ==
  /\ f.pc = "node" => f.state = T
  /\ f.pc \in {"put", "bind"} =>
       /\ f.state = T \/ Steps(T, f.state)
       /\ f.state.next # "retrieve" => f.state.rounds = paid
       /\ f.state.last = "persist_result" => status \in Answered /\ result = Safe(f.state)
  /\ f.pc \in Calls \cup {"save", "generate"} =>
       /\ f.state.last = T.last /\ f.state.next = T.next /\ f.state.rounds = T.rounds
       /\ f.state.verified = T.verified
  /\ f.pc \in Calls /\ f.op[1] = "plan_followup" => f.op[2] = paid + 1
  /\ f.pc = "emit" => Steps(T, Moved(f.state)) /\ f.state.rounds = paid
  /\ status \in Answered =>
       f.pc = "done" \/ (f.pc \in {"put", "bind"} /\ f.state.last = "persist_result")

(* The trusted state, and what has been published. *)
Trust(T, status, result, stored, paid) ==
  /\ StateOK(T, stored, paid)
  /\ T.next # "retrieve" => T.rounds = paid
  /\ T.last = "persist_result" => status \in Answered /\ result = Safe(T)
  /\ result # None <=> status \in Answered
  /\ result = LimitedResult => status = "completed_with_limits"
  /\ result \notin {None, LimitedResult} =>
       T.verified # None /\ result = Safe(T) /\ status = T.status

RunOK(r) ==
  /\ ledger[r].rounds <= MaxRounds
  /\ Trust(Resumed(r), runs[r].status, published[r], artifacts[r], ledger[r].rounds)
  /\ \A e \in 1..MaxEpoch :
       /\ Sound(frame[r][e], artifacts[r], ledger[r].rounds)
       /\ e > runs[r].epoch => frame[r][e] = NoFrame
       /\ e = runs[r].epoch =>
            Follows(frame[r][e], Resumed(r), runs[r].status, published[r], ledger[r].rounds)

FramesTyped ==
  /\ frame \in [Run -> [1..MaxEpoch -> FrameRow]]
  /\ published \in [Run -> PublishedResult \cup {None}]

HarnessInv == Typed /\ FramesTyped /\ \A r \in Run : RunOK(r)

LEMMA SoundStays ==
  ASSUME NEW f, NEW stored, NEW more, NEW paid \in Nat, NEW spent \in Nat,
         Sound(f, stored, paid), stored \subseteq more, paid <= spent
  PROVE  Sound(f, more, spent)
  <1>1. StateOK(IF f.pc = "emit" THEN Moved(f.state) ELSE f.state, more, spent)
    BY StatesStay DEF Sound
  <1>2. f.state.rounds \in Nat
    BY HarnessStates DEF Sound, FrameRow
  <1>3. f.pc \in Calls \cup {"save"} /\ f.state.next = "retrieve" /\ f.state.route = "retrieve" =>
          f.state.rounds < spent
    BY <1>2 DEF Sound
  <1> QED BY <1>1, <1>3 DEF Sound

(* A frame without work. *)
Idle(f) == f \in FrameRow /\ f.state = NewState /\ f.pc \in {"none", "done"}

LEMMA IdleFrames ==
  ASSUME NEW f, Idle(f), NEW stored, NEW paid \in Nat
  PROVE  /\ Sound(f, stored, paid)
         /\ \A T, status, result :
              f.pc = "done" \/ status \notin Answered => Follows(f, T, status, result, paid)
  BY NewStates DEF Idle, Sound, Follows, Calls

LEMMA EndedFrames ==
  /\ Idle(NoFrame) /\ NoFrame.pc = "none"
  /\ \A with \in Settings \cup {None} :
       LET f == [NoFrame EXCEPT !.pc = "done", !.with = with] IN Idle(f) /\ f.pc = "done"
  <1>1. NewState \in HarnessState
    BY NewStates DEF StateOK
  <1>2. 0 \in Nat /\ {} \in SUBSET Chunk /\ "none" \in Pc /\ "done" \in Pc
    BY DEF Pc
  <1> QED BY <1>1, <1>2 DEF NoFrame, Idle, FrameRow

PutFrame(with, Z) == [NoFrame EXCEPT !.pc = "put", !.with = with, !.state = Z]

LEMMA PutFrames ==
  ASSUME NEW with \in Settings \cup {None}, NEW Z, NEW stored, NEW paid \in Nat,
         StateOK(Z, stored, paid)
  PROVE  /\ Sound(PutFrame(with, Z), stored, paid)
         /\ PutFrame(with, Z).pc = "put" /\ PutFrame(with, Z).state = Z
         /\ \A T, status, result :
              /\ Z = T \/ Steps(T, Z)
              /\ Z.next # "retrieve" => Z.rounds = paid
              /\ Z.last = "persist_result" => status \in Answered /\ result = Safe(Z)
              /\ status \in Answered => Z.last = "persist_result"
              => Follows(PutFrame(with, Z), T, status, result, paid)
  <1> DEFINE f == PutFrame(with, Z)
  <1>1. NoFrame \in FrameRow
    BY EndedFrames DEF Idle
  <1>2. f.pc = "put" /\ f.state = Z /\ Z \in HarnessState
    BY <1>1 DEF PutFrame, FrameRow, StateOK
  <1>3. f \in FrameRow
    BY <1>1, <1>2 DEF PutFrame, FrameRow, Pc
  <1> HIDE DEF f
  <1>4. Sound(f, stored, paid)
    BY <1>2, <1>3 DEF Sound, Calls
  <1>5. ASSUME NEW T, NEW status, NEW result,
               Z = T \/ Steps(T, Z), Z.next # "retrieve" => Z.rounds = paid,
               Z.last = "persist_result" => status \in Answered /\ result = Safe(Z),
               status \in Answered => Z.last = "persist_result"
        PROVE  Follows(f, T, status, result, paid)
    BY <1>2, <1>5 DEF Follows, Calls
  <1> QED BY <1>2, <1>4, <1>5 DEF f

(* The steps that change no more than where an execution is. *)
Shift(f, pc) ==
  \/ f.pc = "put" /\ pc = "bind"
  \/ f.pc \in {"node", "generate"} \cup Calls /\ pc \in {"limited", "raise"}
  \/ f.pc \in Calls /\ pc \in Calls
  \/ f.pc = "node" /\ f.state.next = "generate" /\ pc = "generate"

LEMMA Shifts ==
  ASSUME NEW f, NEW g \in FrameRow, NEW stored, NEW paid \in Nat, Sound(f, stored, paid),
         g.state = f.state, g.op = f.op, Shift(f, g.pc)
  PROVE  /\ Sound(g, stored, paid)
         /\ \A T, status, result :
              Follows(f, T, status, result, paid) => Follows(g, T, status, result, paid)
  <1>1. Sound(g, stored, paid)
    BY DEF Shift, Sound, Calls
  <1>2. ASSUME NEW T, NEW status, NEW result, Follows(f, T, status, result, paid)
        PROVE  Follows(g, T, status, result, paid)
    BY <1>2 DEF Shift, Follows, Calls
  <1> QED BY <1>1, <1>2

(* A call is prepared. *)
LEMMA Invokes ==
  ASSUME NEW f, NEW g \in FrameRow, NEW stored, NEW rounds \in Nat, NEW paid \in Nat,
         Sound(f, stored, rounds), rounds <= paid,
         f.pc \in {"node", "generate", "call"}, g.pc = "reserve", g.state = f.state,
         g.op \in FrameOperation,
         g.op[1] = "search_laws" =>
           f.state.next = "retrieve" /\ f.state.route = "retrieve" /\ f.state.rounds < paid,
         g.op[1] = "plan_followup" => f.state.next = "plan_followup" /\ g.op[2] = paid + 1,
         g.op[1] = "generate_answer" =>
            f.state.next = "generate" /\ Retrieved(f.state).terminal = Nothing
  PROVE  /\ Sound(g, stored, paid)
         /\ \A T, status, result :
              Follows(f, T, status, result, rounds) => Follows(g, T, status, result, paid)
  <1>1. Sound(f, stored, paid)
    BY SoundStays
  <1>2. g.op[1] \in {"search_laws", "plan_followup", "generate_answer"}
    BY DEF FrameOperation, GraphOperation
  <1>3. Sound(g, stored, paid)
    BY <1>1, <1>2 DEF Sound, Calls
  <1>4. ASSUME NEW T, NEW status, NEW result, Follows(f, T, status, result, rounds)
        PROVE  Follows(g, T, status, result, paid)
    BY <1>4 DEF Follows, Calls
  <1> QED BY <1>3, <1>4

-----------------------------------------------------------------------------
(* Steps *)

(* What the invariant says of one execution. *)
LEMMA Executions ==
  ASSUME HarnessInv, NEW r \in Run, NEW e \in 1..MaxEpoch
  PROVE  /\ frame[r][e] \in FrameRow /\ frame[r][e].state \in HarnessState
         /\ frame[r][e].with \in Settings \cup {None}
         /\ ledger[r].rounds \in Nat /\ ledger[r].rounds <= MaxRounds
         /\ Sound(frame[r][e], artifacts[r], ledger[r].rounds)
         /\ e = runs[r].epoch =>
              Follows(frame[r][e], Resumed(r), runs[r].status, published[r], ledger[r].rounds)
         /\ Trust(Resumed(r), runs[r].status, published[r], artifacts[r], ledger[r].rounds)
         /\ e \in DOMAIN leases[r] <=> e <= runs[r].epoch
         /\ runs[r].epoch \in Nat /\ MaxEpoch \in Nat
  <1>1. RunOK(r) /\ Whole(r)
    BY TypedByRun DEF HarnessInv
  <1>2. /\ ledger[r].rounds \in Nat /\ leases[r] \in Seq(Worker) /\ runs[r].epoch = Len(leases[r])
    BY <1>1 DEF Whole, TypedRun, KeptRun, Spending
  <1>3. e \in DOMAIN leases[r] <=> e <= runs[r].epoch
    BY <1>2
  <1>4. frame[r][e] \in FrameRow
    BY DEF HarnessInv, FramesTyped
  <1> QED BY <1>1, <1>2, <1>3, <1>4, RunLimits DEF RunOK, FrameRow

LEMMA Becomes ==
  ASSUME HarnessInv, NEW r \in Run, NEW e \in 1..MaxEpoch, NEW g \in FrameRow, Become(r, e, g)
  PROVE  /\ frame' \in [Run -> [1..MaxEpoch -> FrameRow]]
         /\ frame'[r][e] = g
         /\ \A d \in (1..MaxEpoch) \ {e} : frame'[r][d] = frame[r][d]
         /\ \A q \in Run \ {r} : frame'[q] = frame[q]
  BY DEF HarnessInv, FramesTyped, Become

(* An execution that writes at most its own frame, artifacts and the ledger.*)
LEMMA GoesOn ==
  ASSUME HarnessInv, NEW r \in Run, NEW e \in 1..MaxEpoch, e <= runs[r].epoch,
         NEW g, Become(r, e, g), UNCHANGED published,
         runs'[r] = runs[r], checkpoints'[r] = checkpoints[r], artifacts[r] \subseteq artifacts'[r],
         ledger'[r].rounds \in Nat, ledger'[r].rounds <= MaxRounds,
         \/ ledger'[r].rounds = ledger[r].rounds
         \/ /\ ledger[r].rounds <= ledger'[r].rounds /\ e = runs[r].epoch
            /\ Resumed(r).next = "retrieve",
         Sound(g, artifacts'[r], ledger'[r].rounds),
         e = runs[r].epoch =>
           Follows(g, Resumed(r), runs[r].status, published[r], ledger'[r].rounds)
  PROVE  RunOK(r)'
  <1> DEFINE T == Resumed(r)
             paid == ledger[r].rounds
             spent == ledger'[r].rounds
  <1>1. Resumed(r)' = T
    BY DEF Resumed
  <1>2. /\ paid \in Nat /\ spent \in Nat /\ paid <= spent /\ RunOK(r)
        /\ Trust(T, runs[r].status, published[r], artifacts[r], paid)
    BY Executions DEF HarnessInv
  <1>3. g \in FrameRow
    BY DEF Sound
  <1>4. /\ frame'[r][e] = g
        /\ \A d \in (1..MaxEpoch) \ {e} : frame'[r][d] = frame[r][d]
    BY <1>3, Becomes
  <1>5. Trust(T, runs[r].status, published[r], artifacts'[r], spent)
    <2>1. StateOK(T, artifacts'[r], spent)
      BY <1>2, StatesStay DEF Trust
    <2>2. T.next # "retrieve" => T.rounds = spent
      BY <1>2 DEF Trust
    <2> QED BY <1>2, <2>1, <2>2 DEF Trust
  <1>6. ASSUME NEW d \in 1..MaxEpoch
        PROVE  /\ Sound(frame'[r][d], artifacts'[r], spent)
               /\ d > runs[r].epoch => frame'[r][d] = NoFrame
               /\ d = runs[r].epoch => Follows(frame'[r][d], T, runs[r].status, published[r], spent)
    <2>1. CASE d = e
      BY <1>2, <1>4, <2>1, Executions
    <2>2. CASE d # e
      <3>1. frame'[r][d] = frame[r][d]
        BY <1>4, <2>2
      <3>2. Sound(frame[r][d], artifacts'[r], spent)
        BY <1>2, SoundStays DEF RunOK
      <3>3. d = runs[r].epoch => spent = paid
        BY <2>2
      <3> QED BY <1>2, <3>1, <3>2, <3>3 DEF RunOK
    <2> QED BY <2>1, <2>2
  <1> QED BY <1>1, <1>2, <1>5, <1>6 DEF RunOK

(* A run that a step passes by. *)
LEMMA PassedBy ==
  ASSUME NEW r \in Run, RunOK(r), frame'[r] = frame[r], published'[r] = published[r],
         QuietStep(r)
  PROVE  RunOK(r)'
  <1>1. Resumed(r)' = Resumed(r)
    BY DEF Resumed, QuietStep, SameRow, SameWork
  <1> QED BY <1>1 DEF RunOK, QuietStep, SameRow, SameWork

SameLedger(r) ==
  ledger'[r] = ledger[r] /\ checkpoints'[r] = checkpoints[r] /\ artifacts'[r] = artifacts[r]

LEMMA LimitedIsPublished == LimitedResult \in PublishedResult /\ LimitedResult # None
  <1>1. LimitedResult \in PublishedResult
    BY DEF LimitedResult, PublishedResult, AnswerMode
  <1> QED BY <1>1, NullIsNoState

(* The owner, the supervisor and the clock move a run between statuses that *)
(* bear no answer, and grant its next lease.                                *)
MovedAround(r) ==
  /\ SameLedger(r)
  /\ runs'[r].trusted = runs[r].trusted
  /\ \/ /\ runs'[r].epoch = runs[r].epoch
        /\ \/ runs'[r].status = runs[r].status
           \/ {runs[r].status, runs'[r].status} \cap Answered = {}
     \/ /\ runs'[r].epoch = runs[r].epoch + 1
        /\ {runs[r].status, runs'[r].status} \cap Answered = {}

LEMMA MovesAround ==
  ASSUME HarnessInv, NEW r \in Run, MovedAround(r), frame'[r] = frame[r],
         published'[r] = published[r]
  PROVE  RunOK(r)'
  <1>1. Resumed(r)' = Resumed(r)
    BY DEF Resumed, MovedAround, SameLedger
  <1>2. /\ ledger'[r].rounds = ledger[r].rounds /\ artifacts'[r] = artifacts[r]
        /\ ledger[r].rounds \in Nat /\ RunOK(r) /\ runs[r].epoch \in Nat
    <2>1. Whole(r) /\ RunOK(r)
      BY TypedByRun DEF HarnessInv
    <2> QED BY <2>1 DEF MovedAround, SameLedger, Whole, TypedRun, Spending, RunRow
  <1>3. runs'[r].status = runs[r].status \/ {runs[r].status, runs'[r].status} \cap Answered = {}
    BY DEF MovedAround
  <1>4. Trust(Resumed(r), runs'[r].status, published[r], artifacts[r], ledger[r].rounds)
    <2>1. Trust(Resumed(r), runs[r].status, published[r], artifacts[r], ledger[r].rounds)
      BY <1>2 DEF RunOK
    <2>2. LimitedResult # None
      BY LimitedIsPublished, NullIsNoState
    <2> QED BY <1>3, <2>1, <2>2 DEF Trust
  <1>5. ASSUME NEW e \in 1..MaxEpoch, e = runs'[r].epoch
        PROVE  Follows(frame[r][e], Resumed(r), runs'[r].status, published[r], ledger[r].rounds)
    <2>1. CASE runs'[r].epoch = runs[r].epoch
      <3>1. Follows(frame[r][e], Resumed(r), runs[r].status, published[r], ledger[r].rounds)
        BY <1>2, <1>5, <2>1 DEF RunOK
      <3> QED BY <1>3, <3>1 DEF Follows
    <2>2. CASE runs'[r].epoch = runs[r].epoch + 1
      <3>1. frame[r][e] = NoFrame /\ runs'[r].status \notin Answered
        BY <1>2, <1>5, <2>2 DEF RunOK, MovedAround
      <3> QED BY <1>2, <3>1, EndedFrames, IdleFrames
    <2> QED BY <2>1, <2>2 DEF MovedAround
  <1>6. ASSUME NEW e \in 1..MaxEpoch, e > runs'[r].epoch PROVE frame[r][e] = NoFrame
    BY <1>2, <1>6 DEF MovedAround, RunOK
  <1> QED BY <1>1, <1>2, <1>4, <1>5, <1>6 DEF RunOK

LEMMA AroundMoves ==
  ASSUME Typed, Around, NEW q \in Run
  PROVE  MovedAround(q) /\ UNCHANGED <<frame, published>>
  <1>0. runs \in [Run -> RunRow] /\ UnbornIsBlank
    BY DEF Typed, RunTypeOK
  <1>1. /\ SameLedger(q)
        /\ UNCHANGED <<frame, published>>
    BY DEF Around, CreateRun, CancelRun, ResumeRun, Tick, PassDeadline, ClaimNextRun,
           RecoverStaleRuns, HeartbeatRun, SameLedger
  <1>2. {"queued", "running", "interrupted", "cancelled", "absent"} \cap Answered = {}
    BY DEF Answered
  <1>3. ASSUME NEW r \in Run, NEW s \in Session, NEW k \in Key, NEW body \in Body,
               CreateRun(r, s, k, body, None)
        PROVE  MovedAround(q)
    <2>1. CASE q = r
      <3>1. runs[r] = NoRun /\ runs[r].status = "absent"
        BY <1>0, <1>3 DEF CreateRun, UnbornIsBlank
      <3>2. runs'[r] = [NoRun EXCEPT !.status = "queued", !.session = s,
                                     !.parent = None, !.body = body]
        BY <1>0, <1>3 DEF CreateRun, Transition
      <3>3. runs'[r].status = "queued" /\ runs'[r].epoch = 0 /\ runs[r].epoch = 0
              /\ runs'[r].trusted = None /\ runs[r].trusted = None
        BY <3>1, <3>2 DEF NoRun
      <3> QED BY <1>1, <1>2, <2>1, <3>1, <3>3 DEF MovedAround
    <2>2. CASE q # r
      BY <1>0, <1>1, <1>3, <2>2 DEF CreateRun, Transition, MovedAround
    <2> QED BY <2>1, <2>2
  <1>4. ASSUME NEW r \in Run, CancelRun(r) PROVE MovedAround(q)
    BY <1>0, <1>1, <1>2, <1>4 DEF CancelRun, Cancellable, Active, Transition, Released, MovedAround,
                                  RunRow
  <1>5. ASSUME NEW r \in Run, ResumeRun(r) \/ Tick(r) \/ PassDeadline(r) PROVE MovedAround(q)
    <2>1. runs'[q].status = runs[q].status /\ runs'[q].epoch = runs[q].epoch
            /\ runs'[q].trusted = runs[q].trusted
      BY <1>0, <1>5 DEF ResumeRun, Tick, PassDeadline, Transition, RunRow
    <2> QED BY <1>1, <2>1 DEF MovedAround
  <1>6. ASSUME NEW r \in Run, NEW w \in Worker, ClaimNextRun(r, w) PROVE MovedAround(q)
    BY <1>0, <1>1, <1>2, <1>6 DEF ClaimNextRun, Claimable, Transition, MovedAround, RunRow
  <1>7. ASSUME NEW batch \in SUBSET Stale, RecoverStaleRuns(batch) PROVE MovedAround(q)
    <2>1. CASE q \in batch
      <3>1. runs[q].status = "running" /\ runs'[q] = Released(q, "interrupted")
        BY <1>7, <2>1 DEF RecoverStaleRuns, Stale
      <3>2. runs'[q].status = "interrupted" /\ runs'[q].epoch = runs[q].epoch
              /\ runs'[q].trusted = runs[q].trusted
        BY <1>0, <3>1 DEF Released, RunRow
      <3> QED BY <1>1, <1>2, <3>1, <3>2 DEF MovedAround
    <2>2. CASE q \notin batch
      BY <1>1, <1>7, <2>2 DEF RecoverStaleRuns, MovedAround
    <2> QED BY <2>1, <2>2
  <1>8. ASSUME NEW r \in Run, NEW e \in DOMAIN leases[r], HeartbeatRun(r, leases[r][e], e)
        PROVE  MovedAround(q)
    BY <1>0, <1>1, <1>8 DEF HeartbeatRun, MovedAround, RunRow
  <1> QED BY <1>1, <1>3, <1>4, <1>5, <1>6, <1>7, <1>8 DEF Around

-----------------------------------------------------------------------------
(* The executions *)

(* The service keeps the row of the run and its rounds. *)
SamePlace(r) == runs'[r] = runs[r] /\ SameLedger(r) /\ UNCHANGED published

LEMMA LocalPlace ==
  ASSUME Local, NEW r \in Run
  PROVE  SamePlace(r)
  BY DEF Local, runVars, SamePlace, SameLedger

LEMMA GoesOnInPlace ==
  ASSUME HarnessInv, NEW r \in Run, NEW e \in 1..MaxEpoch, e <= runs[r].epoch,
         NEW g, Become(r, e, g), SamePlace(r),
         Sound(g, artifacts[r], ledger[r].rounds),
         e = runs[r].epoch =>
           Follows(g, Resumed(r), runs[r].status, published[r], ledger[r].rounds)
  PROVE  RunOK(r)'
  <1>1. /\ runs'[r] = runs[r] /\ checkpoints'[r] = checkpoints[r] /\ artifacts'[r] = artifacts[r]
        /\ ledger'[r] = ledger[r] /\ UNCHANGED published
        /\ ledger[r].rounds \in Nat /\ ledger[r].rounds <= MaxRounds
    BY Executions DEF SamePlace, SameLedger
  <1> QED BY <1>1, GoesOn

(* Only where the execution is changes. *)
LEMMA ShiftsOn ==
  ASSUME HarnessInv, NEW r \in Run, NEW e \in 1..MaxEpoch, e <= runs[r].epoch,
         NEW pc \in Pc, Shift(frame[r][e], pc), Proceed(r, e, pc), SamePlace(r)
  PROVE  RunOK(r)'
  <1> DEFINE g == [frame[r][e] EXCEPT !.pc = pc]
  <1>1. frame[r][e] \in FrameRow /\ Sound(frame[r][e], artifacts[r], ledger[r].rounds)
          /\ ledger[r].rounds \in Nat
    BY Executions
  <1>2. g \in FrameRow /\ g.pc = pc /\ g.state = frame[r][e].state /\ g.op = frame[r][e].op
    BY <1>1 DEF FrameRow
  <1>3. Become(r, e, g)
    BY DEF Proceed
  <1> HIDE DEF g
  <1>4. /\ Sound(g, artifacts[r], ledger[r].rounds)
        /\ e = runs[r].epoch =>
             Follows(g, Resumed(r), runs[r].status, published[r], ledger[r].rounds)
    BY <1>1, <1>2, Shifts, Executions
  <1> QED BY <1>3, <1>4, GoesOnInPlace

LEMMA EndsThere ==
  ASSUME HarnessInv, NEW r \in Run, NEW e \in 1..MaxEpoch, e <= runs[r].epoch, End(r, e), SamePlace(r)
  PROVE  RunOK(r)'
  <1> DEFINE g == [NoFrame EXCEPT !.pc = "done", !.with = frame[r][e].with]
  <1>1. Idle(g) /\ g.pc = "done" /\ Become(r, e, g) /\ ledger[r].rounds \in Nat
    BY EndedFrames, Executions DEF End
  <1> HIDE DEF g
  <1> QED BY <1>1, IdleFrames, GoesOnInPlace

(* The nodes that neither call nor store anything. *)
LEMMA Completes ==
  ASSUME HarnessInv, NEW r \in Run, NEW e \in 1..MaxEpoch, e <= runs[r].epoch, SamePlace(r),
         NEW S, S = frame[r][e].state, frame[r][e].pc \in {"node", "call"},
         S.next \notin {"retrieve", "generate", "persist_result"},
         NEW state \in HarnessState, state.next = S.next, state.verified = S.verified,
         state.rounds \in {S.rounds, ledger[r].rounds}, NEW next \in NodeName,
         StateOK([state EXCEPT !.last = S.next, !.next = next], artifacts[r], ledger[r].rounds),
         Complete(r, e, next, state)
  PROVE  RunOK(r)'
  <1> DEFINE Z == [state EXCEPT !.last = S.next, !.next = next]
             with == frame[r][e].with
             T == Resumed(r)
             paid == ledger[r].rounds
  <1>1. Z.last = S.next /\ Z.next = next /\ Z.rounds = state.rounds /\ Z.verified = S.verified
    BY DEF HarnessState
  <1>2. Become(r, e, PutFrame(with, Z))
    BY DEF Complete, PutFrame
  <1>3. StateOK(Z, artifacts[r], paid)
    OBVIOUS
  <1>4. with \in Settings \cup {None} /\ paid \in Nat
          /\ Sound(frame[r][e], artifacts[r], paid) /\ Trust(T, runs[r].status, published[r], artifacts[r], paid)
          /\ (e = runs[r].epoch => Follows(frame[r][e], T, runs[r].status, published[r], paid))
          /\ S \in HarnessState
    BY Executions
  <1>5. S.rounds \in Nat /\ S.rounds <= paid
    <2>1. StateOK(S, artifacts[r], paid)
      BY <1>4 DEF Sound
    <2> QED BY <1>4, <2>1, HarnessStates DEF StateOK, Backed
  <1> HIDE DEF Z, T, paid
  <1>6. ASSUME e = runs[r].epoch
        PROVE  Follows(PutFrame(with, Z), T, runs[r].status, published[r], paid)
    <2>1. Follows(frame[r][e], T, runs[r].status, published[r], paid)
      BY <1>4, <1>6
    <2>2. /\ T.next = S.next /\ T.rounds = S.rounds /\ T.verified = S.verified
          /\ runs[r].status \notin Answered
      BY <2>1 DEF Follows, Calls
    <2>3. T.rounds = paid
      BY <1>4, <2>2 DEF Trust
    <2>4. Steps(T, Z)
      BY <1>1, <1>4, <2>2, <2>3 DEF Steps, paid
    <2>5. Z.rounds = paid
      BY <1>1, <2>2, <2>3 DEF paid
    <2> QED BY <1>1, <1>3, <1>4, <2>2, <2>4, <2>5, PutFrames
  <1>7. Sound(PutFrame(with, Z), artifacts[r], paid)
    BY <1>3, <1>4, PutFrames
  <1> QED BY <1>2, <1>6, <1>7, GoesOnInPlace DEF T, paid

LEMMA AtNodes ==
  ASSUME HarnessInv, NEW r \in Run, NEW e \in 1..MaxEpoch, NEW node, AtNode(r, e, node)
  PROVE  /\ e <= runs[r].epoch /\ frame[r][e].pc = "node" /\ frame[r][e].state.next = node
         /\ StateOK(frame[r][e].state, artifacts[r], ledger[r].rounds)
  <1>1. /\ e <= runs[r].epoch /\ frame[r][e].pc = "node" /\ frame[r][e].state.next = node
    BY Executions DEF AtNode, At
  <1> QED BY <1>1, Executions DEF Sound

LEMMA FirstNodes ==
  ASSUME HarnessInv, NEW r \in Run, NEW e \in 1..MaxEpoch, AnalyzeQuery(r, e) \/ Route(r, e)
  PROVE  RunOK(r)'
  <1> DEFINE S == frame[r][e].state
  <1>0. S \in HarnessState /\ SamePlace(r) /\ ledger[r].rounds \in Nat
    BY Executions, LocalPlace DEF AnalyzeQuery, Route
  <1>1. CASE AnalyzeQuery(r, e)
    <2> DEFINE state == [S EXCEPT !.queries = 1]
    <2>1. AtNode(r, e, "analyze_query") /\ Complete(r, e, "route", state)
      BY <1>1 DEF AnalyzeQuery
    <2>2. /\ e <= runs[r].epoch /\ frame[r][e].pc = "node" /\ S.next = "analyze_query"
          /\ StateOK(S, artifacts[r], ledger[r].rounds)
      BY <2>1, AtNodes
    <2>3. /\ state \in HarnessState /\ state.next = S.next /\ state.verified = S.verified
          /\ state.rounds = S.rounds
      <3>1. 1 \in 0..MaxQueries
        BY RunLimits
      <3> QED BY <1>0, <3>1 DEF HarnessState
    <2>4. StateOK([state EXCEPT !.last = S.next, !.next = "route"], artifacts[r], ledger[r].rounds)
      BY <1>0, <2>2, StatesStart
    <2>5. "route" \in NodeName /\ S.next \notin {"retrieve", "generate", "persist_result"}
      BY <2>2 DEF NodeName
    <2> HIDE DEF S, state
    <2> QED BY <1>0, <2>1, <2>2, <2>3, <2>4, <2>5, Completes DEF S
  <1>2. CASE Route(r, e)
    <2> DEFINE route == IF runs[r].body \in Risky THEN "programmatic_terminal" ELSE "retrieve"
               state == [S EXCEPT !.route = route]
    <2>1. AtNode(r, e, "route") /\ Complete(r, e, "retrieve", state)
      BY <1>2 DEF Route
    <2>2. /\ e <= runs[r].epoch /\ frame[r][e].pc = "node" /\ S.next = "route"
          /\ StateOK(S, artifacts[r], ledger[r].rounds)
      BY <2>1, AtNodes
    <2>0. route \in {"retrieve", "programmatic_terminal"}
      OBVIOUS
    <2> HIDE DEF route
    <2>3. /\ state \in HarnessState /\ state.next = S.next /\ state.verified = S.verified
          /\ state.rounds = S.rounds
      BY <1>0, <2>0 DEF HarnessState
    <2>4. StateOK([state EXCEPT !.last = S.next, !.next = "retrieve"], artifacts[r], ledger[r].rounds)
      BY <1>0, <2>0, <2>2, StatesStart
    <2>5. "retrieve" \in NodeName /\ S.next \notin {"retrieve", "generate", "persist_result"}
      BY <2>2 DEF NodeName
    <2> HIDE DEF S, state
    <2> QED BY <1>0, <2>1, <2>2, <2>3, <2>4, <2>5, Completes DEF S
  <1> QED BY <1>1, <1>2

LEMMA PassingNodes ==
  ASSUME HarnessInv, NEW r \in Run, NEW e \in 1..MaxEpoch, MergeEvidence(r, e) \/ Verify(r, e)
  PROVE  RunOK(r)'
  <1> DEFINE S == frame[r][e].state
             next == IF S.next = "merge_evidence" THEN "check_evidence" ELSE "persist_result"
  <1>0. S \in HarnessState /\ SamePlace(r) /\ ledger[r].rounds \in Nat
    BY Executions, LocalPlace DEF MergeEvidence, Verify
  <1>1. /\ e <= runs[r].epoch /\ frame[r][e].pc = "node" /\ S.next \in {"merge_evidence", "verify"}
        /\ StateOK(S, artifacts[r], ledger[r].rounds) /\ Complete(r, e, next, S)
    BY AtNodes DEF MergeEvidence, Verify, AtNode
  <1>2. StateOK([S EXCEPT !.last = S.next, !.next = next], artifacts[r], ledger[r].rounds)
    BY <1>0, <1>1, StatesPass
  <1>3. next \in NodeName /\ S.next \notin {"retrieve", "generate", "persist_result"}
    BY <1>1 DEF NodeName
  <1> HIDE DEF S, next
  <1> QED BY <1>0, <1>1, <1>2, <1>3, Completes DEF S

LEMMA Verdicts ==
  ASSUME NEW r, NEW with, NEW turn, Accepted(turn), ledger[r].rounds \in Nat
  PROVE  LET status == EvidenceVerdict(r, with, turn) IN
         /\ status \in Answered \cup {None}
         /\ status = "succeeded" => turn.check # Nothing /\ turn.check.sufficient
         /\ status = None => turn.check # Nothing /\ ledger[r].rounds < MaxRounds
  <1>1. turn.check = Nothing => turn.terminal = Refusal
    BY DEF Accepted, RetrievedAccepted
  <1>2. None \notin Answered /\ {"completed_with_limits", "succeeded", "needs_clarification"} = Answered
    BY NullIsNoState DEF Answered
  <1>3. MaxRounds \in Nat
    BY RunLimits
  <1> QED BY <1>1, <1>2, <1>3 DEF EvidenceVerdict

LEMMA EvidenceNode ==
  ASSUME HarnessInv, NEW r \in Run, NEW e \in 1..MaxEpoch, CheckEvidenceNode(r, e)
  PROVE  RunOK(r)'
  <1> DEFINE S == frame[r][e].state
             paid == ledger[r].rounds
             status == EvidenceVerdict(r, frame[r][e].with, Retrieved(S))
             state == [S EXCEPT !.status = status, !.rounds = paid]
             next == IF status = None THEN "plan_followup" ELSE "generate"
  <1>0. S \in HarnessState /\ SamePlace(r) /\ paid \in Nat /\ paid \in 0..MaxRounds
    BY Executions, LocalPlace, RunLimits DEF CheckEvidenceNode
  <1>1. AtNode(r, e, "check_evidence") /\ Complete(r, e, next, state)
    BY DEF CheckEvidenceNode
  <1>2. /\ e <= runs[r].epoch /\ frame[r][e].pc = "node" /\ S.next = "check_evidence"
        /\ StateOK(S, artifacts[r], paid)
    BY <1>1, AtNodes
  <1>3. Accepted(Retrieved(S)) /\ (S.route = "programmatic_terminal" <=> Retrieved(S).check = Nothing)
          /\ S.route \in {"retrieve", "programmatic_terminal"}
    <2>1. Coherent(S)
      BY <1>2 DEF StateOK
    <2>2. S.last = "merge_evidence"
      BY <1>0, <1>2, <2>1, HarnessStates, Nodes DEF Coherent
    <2>3. S.retrieved # None /\ S.route # None
      BY <2>1, <2>2, NullIsNoState DEF Coherent, NodeName
    <2> QED BY <1>0, <2>1, <2>3, HarnessStates DEF Coherent
  <1>4. /\ status \in Answered \cup {None}
        /\ status = "succeeded" => Retrieved(S).check # Nothing /\ Retrieved(S).check.sufficient
        /\ status = None => S.route = "retrieve" /\ paid < MaxRounds
    BY <1>0, <1>3, Verdicts
  <1> HIDE DEF status
  <1>5. /\ state \in HarnessState /\ state.next = S.next /\ state.verified = S.verified
        /\ state.rounds = paid
    BY <1>0, <1>4 DEF HarnessState
  <1>6. StateOK([state EXCEPT !.last = S.next, !.next = next], artifacts[r], paid)
    <2>1. paid <= MaxRounds /\ paid \in Nat
      BY <1>0, RunLimits
    <2> HIDE DEF S, paid
    <2> QED BY <1>2, <1>4, <2>1, StatesDecide
  <1>7. next \in NodeName /\ S.next \notin {"retrieve", "generate", "persist_result"}
    BY <1>2 DEF NodeName
  <1> HIDE DEF S, state, next
  <1> QED BY <1>0, <1>1, <1>2, <1>5, <1>6, <1>7, Completes DEF S

LEMMA Plans ==
  ASSUME HarnessInv, NEW r \in Run, NEW e \in 1..MaxEpoch, e <= runs[r].epoch, SamePlace(r),
         frame[r][e].pc \in {"node", "call"}, frame[r][e].state.next = "plan_followup",
         NEW queries \in 0..MaxQueries, Plan(r, e, queries)
  PROVE  RunOK(r)'
  <1> DEFINE S == frame[r][e].state
             paid == ledger[r].rounds
             base == [S EXCEPT !.rounds = paid]
  <1>0. S \in HarnessState /\ paid \in Nat /\ paid \in 0..MaxRounds /\ paid <= MaxRounds
    BY Executions, RunLimits
  <1>1. StateOK(S, artifacts[r], paid)
    BY Executions DEF Sound
  <1>2. base \in HarnessState /\ base.next = S.next /\ base.verified = S.verified /\ base.rounds = paid
    BY <1>0 DEF HarnessState
  <1>3. S.next \notin {"retrieve", "generate", "persist_result"} /\ {"retrieve", "generate"} \subseteq NodeName
    BY DEF NodeName
  <1>4. CASE Complete(r, e, "generate", [base EXCEPT !.status = "completed_with_limits"])
    <2> DEFINE state == [base EXCEPT !.status = "completed_with_limits"]
    <2>1. StateOK([state EXCEPT !.last = S.next, !.next = "generate"], artifacts[r], paid)
      BY <1>0, <1>1, StatesDecide
    <2> HIDE DEF base
    <2>2. /\ state \in HarnessState /\ state.next = S.next /\ state.verified = S.verified
          /\ state.rounds = paid
      BY <1>2 DEF HarnessState, Answered
    <2> HIDE DEF S, state
    <2> QED BY <1>3, <1>4, <2>1, <2>2, Completes DEF S, state
  <1>5. CASE Complete(r, e, "retrieve", [base EXCEPT !.queries = queries])
    <2> DEFINE state == [base EXCEPT !.queries = queries]
    <2>1. StateOK([state EXCEPT !.last = S.next, !.next = "retrieve"], artifacts[r], paid)
      BY <1>0, <1>1, StatesDecide
    <2> HIDE DEF base
    <2>2. /\ state \in HarnessState /\ state.next = S.next /\ state.verified = S.verified
          /\ state.rounds = paid
      BY <1>2 DEF HarnessState
    <2> HIDE DEF S, state
    <2> QED BY <1>3, <1>5, <2>1, <2>2, Completes DEF S, state
  <1> QED BY <1>4, <1>5 DEF Plan

(* A call is prepared by the node that makes it, or after the one before.   *)
LEMMA InvokesOn ==
  ASSUME HarnessInv, NEW r \in Run, NEW e \in 1..MaxEpoch, e <= runs[r].epoch, SamePlace(r),
         frame[r][e].pc \in {"node", "generate", "call"},
         NEW op \in FrameOperation, NEW found \in SUBSET Chunk, Invoke(r, e, op, found),
         NEW S, S = frame[r][e].state,
         op[1] = "search_laws" =>
           S.next = "retrieve" /\ S.route = "retrieve" /\ S.rounds < ledger[r].rounds,
         op[1] = "plan_followup" => S.next = "plan_followup" /\ op[2] = ledger[r].rounds + 1,
         op[1] = "generate_answer" => S.next = "generate" /\ Retrieved(S).terminal = Nothing
  PROVE  RunOK(r)'
  <1> DEFINE f == frame[r][e]
             g == [f EXCEPT !.pc = "reserve", !.op = op, !.n = 0, !.tries = 0, !.found = found]
  <1>1. f \in FrameRow /\ Sound(f, artifacts[r], ledger[r].rounds) /\ ledger[r].rounds \in Nat
    BY Executions
  <1>2. g \in FrameRow /\ g.pc = "reserve" /\ g.op = op /\ g.state = S
    BY <1>1 DEF FrameRow, Pc, Calls
  <1>3. Become(r, e, g)
    BY DEF Invoke
  <1> HIDE DEF g
  <1>4. /\ Sound(g, artifacts[r], ledger[r].rounds)
        /\ e = runs[r].epoch =>
             Follows(g, Resumed(r), runs[r].status, published[r], ledger[r].rounds)
    BY <1>1, <1>2, Invokes, Executions
  <1> QED BY <1>3, <1>4, GoesOnInPlace

LEMMA Operations ==
  /\ \A round \in 1..MaxRounds, query \in 1..MaxQueries :
       <<"search_laws", round, query>> \in FrameOperation
  /\ \A round \in 1..(MaxRounds + 1) : <<"plan_followup", round, 0>> \in FrameOperation
  /\ <<"generate_answer", 0, 0>> \in FrameOperation
  <1>1. ASSUME NEW round \in 1..(MaxRounds + 1)
        PROVE  <<"plan_followup", round, 0>> \in FrameOperation
    <2>1. round \in 1..MaxRounds \/ round = MaxRounds + 1
      BY RunLimits
    <2> QED BY <2>1 DEF FrameOperation, GraphOperation
  <1> QED BY <1>1 DEF FrameOperation, GraphOperation

LEMMA PlanNode ==
  ASSUME HarnessInv, NEW r \in Run, NEW e \in 1..MaxEpoch, PlanFollowup(r, e)
  PROVE  RunOK(r)'
  <1> DEFINE S == frame[r][e].state
  <1>0. /\ SamePlace(r) /\ e <= runs[r].epoch /\ frame[r][e].pc = "node"
        /\ S.next = "plan_followup"
    BY AtNodes, LocalPlace DEF PlanFollowup
  <1>1. 0 \in 0..MaxQueries /\ 1 \in 0..MaxQueries
    BY RunLimits
  <1>2. ASSUME NEW queries \in {0, 1}, Plan(r, e, queries) PROVE RunOK(r)'
    BY <1>0, <1>1, <1>2, Plans
  <1>3. CASE Invoke(r, e, <<"plan_followup", ledger[r].rounds + 1, 0>>, {})
    <2>1. ledger[r].rounds + 1 \in 1..(MaxRounds + 1)
      BY Executions, RunLimits
    <2> DEFINE op == <<"plan_followup", ledger[r].rounds + 1, 0>>
    <2>2. op \in FrameOperation /\ op[1] = "plan_followup" /\ {} \in SUBSET Chunk
            /\ op[2] = ledger[r].rounds + 1
      BY <2>1, Operations
    <2> HIDE DEF op
    <2> QED BY <1>0, <1>3, <2>2, InvokesOn DEF op
  <1>4. \/ Plan(r, e, 0) \/ Plan(r, e, 1)
        \/ Invoke(r, e, <<"plan_followup", ledger[r].rounds + 1, 0>>, {})
    BY Zenon DEF PlanFollowup
  <1> QED BY <1>2, <1>3, <1>4

LEMMA Answers ==
  ASSUME HarnessInv, NEW r \in Run, NEW e \in 1..MaxEpoch, At(r, e, "call"),
         NEW status, CameBack(r, e, status)
  PROVE  SamePlace(r) /\ e <= runs[r].epoch /\ frame[r][e].pc = "call"
  BY Executions DEF At, CameBack, FinishAttempt, SamePlace, SameLedger

LEMMA PlannersAnswer ==
  ASSUME HarnessInv, NEW r \in Run, NEW e \in 1..MaxEpoch, PlannerAnswered(r, e)
  PROVE  RunOK(r)'
  <1>1. SamePlace(r) /\ e <= runs[r].epoch /\ frame[r][e].pc = "call"
          /\ frame[r][e].op[1] = "plan_followup"
    BY Answers DEF PlannerAnswered, Calling
  <1>2. frame[r][e].state.next = "plan_followup"
    BY <1>1, Executions DEF Sound, Calls
  <1>3. ASSUME NEW queries \in 0..MaxQueries, Plan(r, e, queries) PROVE RunOK(r)'
    BY <1>1, <1>2, <1>3, Plans
  <1>4. CASE Proceed(r, e, "raise")
    BY <1>1, <1>4, ShiftsOn DEF Shift, Pc, Calls
  <1> QED BY <1>3, <1>4 DEF PlannerAnswered

LEMMA CallsFail ==
  ASSUME HarnessInv, NEW r \in Run, NEW e \in 1..MaxEpoch, NEW status, NEW retryable,
         CallFailed(r, e, status, retryable)
  PROVE  RunOK(r)'
  <1>1. SamePlace(r) /\ e <= runs[r].epoch /\ frame[r][e].pc = "call"
    BY Answers DEF CallFailed
  <1>2. PICK pc \in {"reserve", "raise"} : Proceed(r, e, pc)
    BY DEF CallFailed
  <1> QED BY <1>1, <1>2, ShiftsOn DEF Shift, Pc, Calls

LEMMA CallsGoOut ==
  ASSUME HarnessInv, NEW r \in Run, NEW e \in 1..MaxEpoch, Reserve(r, e) \/ Dispatch(r, e)
  PROVE  RunOK(r)'
  <1> DEFINE f == frame[r][e]
  <1>1. f \in FrameRow /\ Sound(f, artifacts[r], ledger[r].rounds) /\ ledger[r].rounds \in Nat
          /\ ledger[r].rounds <= MaxRounds
    BY Executions
  <1>2. CASE Reserve(r, e)
    <2> DEFINE g == [f EXCEPT !.pc = "dispatch", !.n = Len(attempts[r]) + 1, !.tries = @ + 1]
    <2>1. Become(r, e, g) /\ e <= runs[r].epoch /\ f.pc = "reserve" /\ UNCHANGED published
            /\ ReserveAttempt(r, leases[r][e], e, f.op)
      BY <1>2, Executions DEF Reserve, At
    <2>2. attempts[r] \in Seq(AttemptRow) /\ ledger \in [Run -> Spending]
      BY DEF HarnessInv, Typed, RunTypeOK
    <2>3. g \in FrameRow /\ g.pc = "dispatch" /\ g.op = f.op /\ g.state = f.state
      <3>1. f.tries + 1 \in Nat /\ Len(attempts[r]) + 1 \in Nat /\ "dispatch" \in Pc
        BY <1>1, <2>2 DEF FrameRow, Pc, Calls
      <3> QED BY <1>1, <3>1 DEF FrameRow
    <2> HIDE DEF g
    <2>4. /\ Sound(g, artifacts[r], ledger[r].rounds)
          /\ e = runs[r].epoch =>
               Follows(g, Resumed(r), runs[r].status, published[r], ledger[r].rounds)
      BY <1>1, <2>1, <2>3, Shifts, Executions DEF Shift, Calls
    <2>5. ledger'[r].rounds = ledger[r].rounds
      BY <2>1, <2>2 DEF ReserveAttempt, Spending
    <2>6. runs' = runs /\ checkpoints' = checkpoints /\ artifacts' = artifacts
      BY <2>1 DEF ReserveAttempt
    <2> QED BY <1>1, <2>1, <2>4, <2>5, <2>6, GoesOn
  <1>3. CASE Dispatch(r, e)
    <2>1. SamePlace(r) /\ e <= runs[r].epoch /\ f.pc = "dispatch" /\ Proceed(r, e, "call")
      BY <1>3, Executions DEF Dispatch, At, MarkAttemptDispatched, SamePlace, SameLedger
    <2> QED BY <2>1, ShiftsOn DEF Shift, Pc, Calls
  <1> QED BY <1>2, <1>3

(* A turn is ready to be stored. *)
LEMMA Gathers ==
  ASSUME HarnessInv, NEW r \in Run, NEW e \in 1..MaxEpoch, e <= runs[r].epoch, SamePlace(r),
         frame[r][e].pc \in {"node", "call"}, NEW S, S = frame[r][e].state, S.next = "retrieve",
         NEW turn, Accepted(turn), S.route = "programmatic_terminal" <=> turn.check = Nothing,
         S.route = "retrieve" => S.rounds < ledger[r].rounds,
         NEW g \in FrameRow, g.pc = "save", g.turn = turn, g.state = S, Become(r, e, g)
  PROVE  RunOK(r)'
  <1> DEFINE f == frame[r][e]
  <1>1. f \in FrameRow /\ Sound(f, artifacts[r], ledger[r].rounds) /\ ledger[r].rounds \in Nat
    BY Executions
  <1>2. Sound(g, artifacts[r], ledger[r].rounds)
    BY <1>1 DEF Sound, Calls
  <1>3. e = runs[r].epoch =>
          Follows(g, Resumed(r), runs[r].status, published[r], ledger[r].rounds)
    BY Executions DEF Follows, Calls
  <1> QED BY <1>2, <1>3, GoesOnInPlace

LEMMA RetrievalNode ==
  ASSUME HarnessInv, NEW r \in Run, NEW e \in 1..MaxEpoch, RefuseRetrieval(r, e) \/ BeginRound(r, e)
  PROVE  RunOK(r)'
  <1> DEFINE f == frame[r][e]
             S == f.state
  <1>0. /\ f \in FrameRow /\ Sound(f, artifacts[r], ledger[r].rounds) /\ S \in HarnessState
        /\ ledger[r].rounds \in Nat /\ ledger[r].rounds <= MaxRounds /\ S.rounds \in Nat
    BY Executions, HarnessStates
  <1>1. /\ e <= runs[r].epoch /\ f.pc = "node" /\ S.next = "retrieve"
        /\ StateOK(S, artifacts[r], ledger[r].rounds)
    BY AtNodes DEF RefuseRetrieval, BeginRound
  <1>2. CASE RefuseRetrieval(r, e)
    <2> DEFINE turn == RetrieveTurn(TRUE, {}, {}, FALSE, 0)
               g == [f EXCEPT !.pc = "save", !.turn = turn]
    <2>1. Accepted(turn) /\ turn.check = Nothing
      BY RefusedTurns
    <2>2. turn \in RetrievedTurn
      BY <2>1 DEF Accepted
    <2>3. Become(r, e, g) /\ SamePlace(r) /\ S.route = "programmatic_terminal"
      BY <1>2, LocalPlace DEF RefuseRetrieval
    <2> HIDE DEF turn
    <2>4. g \in FrameRow /\ g.pc = "save" /\ g.turn = turn /\ g.state = S
      BY <1>0, <2>2 DEF FrameRow, Pc
    <2> HIDE DEF g
    <2> QED BY <1>1, <2>1, <2>3, <2>4, Gathers
  <1>3. CASE BeginRound(r, e)
    <2> DEFINE op == <<"search_laws", S.rounds + 1, 1>>
               g == [f EXCEPT !.pc = "reserve", !.op = op, !.n = 0, !.tries = 0, !.found = {}]
               paid == ledger'[r].rounds
               queries == IF S.rounds = 0 THEN 1 ELSE S.queries
    <2>1. /\ S.route = "retrieve" /\ Become(r, e, g) /\ UNCHANGED published
          /\ BeginRetrievalRound(r, leases[r][e], e, queries)
      BY <1>3 DEF BeginRound, Invoke
    <2> HIDE DEF queries
    <2>2. /\ runs' = runs /\ checkpoints' = checkpoints /\ artifacts' = artifacts
          /\ e = runs[r].epoch /\ ledger[r].rounds < MaxRounds
          /\ ledger' = [ledger EXCEPT ![r].rounds = @ + 1, ![r].queries = @ + queries]
      BY <2>1 DEF BeginRetrievalRound, WorkerLease
    <2>3. paid = ledger[r].rounds + 1
      <3>1. ledger \in [Run -> Spending]
        BY DEF HarnessInv, Typed, RunTypeOK
      <3>2. ledger'[r] = [ledger[r] EXCEPT !.rounds = @ + 1, !.queries = @ + queries]
        BY <2>2, <3>1
      <3> QED BY <3>1, <3>2 DEF Spending
    <2>4. S.rounds < paid /\ paid \in Nat /\ paid <= MaxRounds
      BY <1>0, <1>1, <2>2, <2>3, RunLimits DEF StateOK, Backed
    <2>5. op \in FrameOperation /\ op[1] = "search_laws"
      <3>1. S.rounds + 1 \in 1..MaxRounds /\ 1 \in 1..MaxQueries
        BY <1>0, <2>4, RunLimits
      <3> QED BY <3>1, Operations
    <2> HIDE DEF op
    <2>6. g \in FrameRow /\ g.pc = "reserve" /\ g.op = op /\ g.state = S
      BY <1>0, <2>5 DEF FrameRow, Pc, Calls
    <2> HIDE DEF g, paid
    <2>7. Follows(f, Resumed(r), runs[r].status, published[r], ledger[r].rounds)
      BY <2>2, Executions
    <2>8. /\ Sound(g, artifacts[r], paid)
          /\ Follows(g, Resumed(r), runs[r].status, published[r], paid)
      BY <1>0, <1>1, <2>1, <2>3, <2>4, <2>5, <2>6, <2>7, Invokes
    <2>9. Resumed(r).next = "retrieve"
      BY <1>1, <2>7 DEF Follows
    <2>10. /\ runs'[r] = runs[r] /\ checkpoints'[r] = checkpoints[r] /\ artifacts'[r] = artifacts[r]
           /\ ledger[r].rounds <= ledger'[r].rounds /\ ledger'[r].rounds = paid
           /\ e <= runs[r].epoch
      BY <1>0, <1>1, <2>2, <2>3 DEF paid
    <2> HIDE DEF S, f
    <2> QED BY <1>0, <2>1, <2>2, <2>4, <2>8, <2>9, <2>10, GoesOn
  <1> QED BY <1>2, <1>3

LEMMA SearchesAnswer ==
  ASSUME HarnessInv, NEW r \in Run, NEW e \in 1..MaxEpoch, NEW more \in SUBSET Chunk,
         SearchAnswered(r, e, more)
  PROVE  RunOK(r)'
  <1> DEFINE f == frame[r][e]
             S == f.state
             found == f.found \cup more
             exhausted == IF ledger[r].rounds >= MaxRounds THEN "max_retrieval_rounds"
                          ELSE "followup_evidence_insufficient"
             op == <<f.op[1], f.op[2], f.op[3] + 1>>
             turn == IF S.rounds = 0 THEN RetrieveTurn(FALSE, more, {}, FALSE, 0)
                     ELSE MergeFollowupTurn(Retrieved(S), found, exhausted)
             g == [f EXCEPT !.pc = "save", !.op = None, !.n = 0, !.tries = 0, !.found = {},
                            !.turn = turn]
  <1>1. SamePlace(r) /\ e <= runs[r].epoch /\ f.pc = "call" /\ f.op[1] = "search_laws"
    BY Answers DEF SearchAnswered, Calling
  <1>2. /\ f \in FrameRow /\ Sound(f, artifacts[r], ledger[r].rounds) /\ S \in HarnessState
        /\ ledger[r].rounds \in Nat /\ S.rounds \in Nat /\ S.queries \in 0..MaxQueries
    BY Executions, HarnessStates
  <1>3. /\ S.next = "retrieve" /\ S.route = "retrieve" /\ S.rounds < ledger[r].rounds
        /\ StateOK(S, artifacts[r], ledger[r].rounds) /\ f.op \in FrameOperation
    BY <1>1, <1>2 DEF Sound, Calls
  <1>4. found \in SUBSET Chunk
    BY <1>2 DEF FrameRow
  <1>5. CASE Invoke(r, e, op, found) /\ f.op[3] < S.queries
    <2>1. f.op[2] \in 1..MaxRounds /\ f.op[3] \in 1..MaxQueries
      BY <1>1, <1>3 DEF FrameOperation, GraphOperation
    <2>2. f.op[3] + 1 \in 1..MaxQueries
      BY <1>2, <1>5, <2>1, RunLimits
    <2>3. op \in FrameOperation /\ op[1] = "search_laws"
      BY <1>1, <2>1, <2>2, Operations
    <2> HIDE DEF op, found, S
    <2> QED BY <1>1, <1>3, <1>4, <1>5, <2>3, InvokesOn DEF S
  <1>6. CASE Become(r, e, g)
    <2>1. SearchedTurn(turn)
      <3>1. CASE S.rounds = 0
        BY <3>1, FoundTurns
      <3>2. CASE S.rounds # 0
        <4>1. Coherent(S)
          BY <1>3 DEF StateOK
        <4>2. S.retrieved # None
          BY <3>2, <4>1 DEF Coherent
        <4>3. SearchedTurn(Retrieved(S))
          BY <1>3, <4>1, <4>2 DEF Coherent, SearchedTurn
        <4> HIDE DEF found, S
        <4> QED BY <1>4, <3>2, <4>3, MergedTurns
      <3> QED BY <3>1, <3>2
    <2> HIDE DEF turn
    <2>2. Accepted(turn) /\ turn.check # Nothing /\ turn \in RetrievedTurn
      BY <2>1 DEF SearchedTurn, Accepted
    <2>3. g \in FrameRow /\ g.pc = "save" /\ g.turn = turn /\ g.state = S
      BY <1>2, <2>2 DEF FrameRow, Pc
    <2> HIDE DEF g
    <2> QED BY <1>1, <1>3, <1>6, <2>2, <2>3, Gathers
  <1>7. \/ Invoke(r, e, op, found) /\ f.op[3] < S.queries
        \/ Become(r, e, g)
    BY Zenon DEF SearchAnswered
  <1> QED BY <1>5, <1>6, <1>7

(* A stage has been stored, and is to be told. *)
LEMMA Stores ==
  ASSUME HarnessInv, NEW r \in Run, NEW e \in 1..MaxEpoch, e <= runs[r].epoch,
         frame[r][e].pc = "save", NEW S, S = frame[r][e].state,
         S.next \in {"retrieve", "generate"},
         NEW Z \in HarnessState, Z.next = S.next, Z.rounds = ledger[r].rounds,
         S.next = "retrieve" => Z.verified = S.verified,
         StateOK(Moved(Z), artifacts'[r], ledger[r].rounds),
         NEW g \in FrameRow, g.pc = "emit", g.state = Z, Become(r, e, g), UNCHANGED published,
         runs' = runs, checkpoints' = checkpoints, ledger' = ledger,
         artifacts[r] \subseteq artifacts'[r]
  PROVE  RunOK(r)'
  <1> DEFINE f == frame[r][e]
             T == Resumed(r)
  <1>1. /\ Sound(f, artifacts[r], ledger[r].rounds) /\ ledger[r].rounds \in Nat
        /\ ledger[r].rounds <= MaxRounds /\ S \in HarnessState /\ S.rounds \in Nat
    BY Executions, HarnessStates
  <1>2. /\ StateOK(S, artifacts[r], ledger[r].rounds) /\ S.rounds <= ledger[r].rounds
    BY <1>1 DEF Sound, StateOK, Backed
  <1>3. Sound(g, artifacts'[r], ledger[r].rounds)
    BY DEF Sound, Calls
  <1>4. Moved(Z).last = S.next /\ Moved(Z).rounds = ledger[r].rounds /\ Moved(Z).verified = Z.verified
    BY DEF Moved, HarnessState
  <1>5. S.next = "retrieve" /\ S.last # "route" => S.rounds < ledger[r].rounds
    <2> SUFFICES ASSUME S.next = "retrieve", S.last # "route" PROVE S.rounds < ledger[r].rounds
      OBVIOUS
    <2>1. Coherent(S)
      BY <1>2 DEF StateOK
    <2>2. S.last = "plan_followup"
      BY <1>1, <2>1, HarnessStates, Nodes DEF Coherent
    <2> QED BY <1>1, <2>1, <2>2 DEF Coherent, Sound
  <1>6. ASSUME e = runs[r].epoch
        PROVE  Follows(g, T, runs[r].status, published[r], ledger[r].rounds)
    <2>1. Follows(f, T, runs[r].status, published[r], ledger[r].rounds)
      BY <1>6, Executions
    <2>2. /\ T.last = S.last /\ T.next = S.next /\ T.rounds = S.rounds /\ T.verified = S.verified
          /\ runs[r].status \notin Answered
      BY <2>1 DEF Follows, Calls
    <2>3. Steps(T, Moved(Z))
      BY <1>2, <1>4, <1>5, <2>2 DEF Steps
    <2> QED BY <2>2, <2>3 DEF Follows, Calls
  <1> HIDE DEF f, T
  <1> QED BY <1>1, <1>3, <1>6, GoesOn DEF T

LEMMA RetrievedStored ==
  ASSUME HarnessInv, NEW r \in Run, NEW e \in 1..MaxEpoch, SaveRetrieved(r, e)
  PROVE  RunOK(r)'
  <1> DEFINE f == frame[r][e]
             S == f.state
             artifact == RetrievedArtifact(f.turn)
             paid == ledger[r].rounds
             Z == [S EXCEPT !.retrieved = artifact, !.rounds = paid, !.queries = 0]
             g == [f EXCEPT !.pc = "emit", !.turn = None, !.state = Z]
  <1>1. /\ f \in FrameRow /\ Sound(f, artifacts[r], paid) /\ paid \in Nat /\ paid <= MaxRounds
        /\ S \in HarnessState
    BY Executions
  <1>2. e <= runs[r].epoch /\ f.pc = "save" /\ S.next = "retrieve"
    BY Executions DEF SaveRetrieved, At
  <1>3. /\ Accepted(f.turn) /\ (S.route = "programmatic_terminal" <=> f.turn.check = Nothing)
        /\ StateOK(S, artifacts[r], paid)
    BY <1>1, <1>2 DEF Sound
  <1>4. RetrievedAccepted(f.turn)
    BY <1>3 DEF Accepted
  <1>5. SaveNodeArtifact(r, leases[r][e], e, artifact) /\ Become(r, e, g) /\ UNCHANGED published
    BY <1>4 DEF SaveRetrieved
  <1>6. /\ runs' = runs /\ checkpoints' = checkpoints /\ ledger' = ledger
        /\ artifacts[r] \subseteq artifacts'[r] /\ artifact \in artifacts'[r]
    BY <1>5 DEF SaveNodeArtifact, HarnessInv, Typed, RunTypeOK
  <1>7. /\ Z \in HarnessState /\ Z.next = S.next
        /\ StateOK([Z EXCEPT !.last = S.next, !.next = "merge_evidence"], artifacts'[r], paid)
    <2> HIDE DEF S, paid
    <2>1. paid <= paid
      BY <1>1
    <2> QED BY <1>1, <1>2, <1>3, <1>6, <2>1, StatesRetrieve
  <1>8. StateOK(Moved(Z), artifacts'[r], paid)
    <2> HIDE DEF Z
    <2> QED BY <1>2, <1>7 DEF Moved
  <1>9. Z.rounds = paid /\ Z.verified = S.verified
    BY <1>1 DEF HarnessState
  <1> HIDE DEF Z
  <1>10. g \in FrameRow /\ g.pc = "emit" /\ g.state = Z
    BY <1>1, <1>7 DEF FrameRow, Pc
  <1> HIDE DEF g
  <1> QED BY <1>2, <1>5, <1>6, <1>7, <1>8, <1>9, <1>10, Stores

LEMMA VerifiedStored ==
  ASSUME HarnessInv, NEW r \in Run, NEW e \in 1..MaxEpoch, SaveVerified(r, e)
  PROVE  RunOK(r)'
  <1> DEFINE f == frame[r][e]
             S == f.state
             result == SafeResult(f.turn)
             artifact == <<"verified_result", result>>
             paid == ledger[r].rounds
             Z == [S EXCEPT !.verified = artifact, !.rounds = paid,
                            !.status = IF @ = None THEN "succeeded" ELSE @]
             g == [f EXCEPT !.pc = "emit", !.turn = None, !.state = Z]
  <1>1. /\ f \in FrameRow /\ Sound(f, artifacts[r], paid) /\ paid \in Nat /\ paid <= MaxRounds
        /\ S \in HarnessState
    BY Executions
  <1>2. e <= runs[r].epoch /\ f.pc = "save" /\ S.next = "generate"
    BY Executions DEF SaveVerified, At
  <1>3. Earned(f.turn, Retrieved(S)) /\ StateOK(S, artifacts[r], paid)
    BY <1>1, <1>2 DEF Sound
  <1>4. Publishable(f.turn)
    BY <1>3 DEF Earned, VerifiedAccepted
  <1>5. SaveNodeArtifact(r, leases[r][e], e, artifact) /\ Become(r, e, g) /\ UNCHANGED published
    <2>1. SaveNodeArtifact(r, leases[r][e], e, artifact) /\ UNCHANGED published
      BY <1>4 DEF SaveVerified, VerifiedArtifact
    <2>2. Become(r, e, g)
      BY <1>4, Zenon DEF SaveVerified, VerifiedArtifact
    <2> QED BY <2>1, <2>2
  <1>6. /\ runs' = runs /\ checkpoints' = checkpoints /\ ledger' = ledger
        /\ artifacts[r] \subseteq artifacts'[r] /\ artifact \in artifacts'[r]
    BY <1>5 DEF SaveNodeArtifact, HarnessInv, Typed, RunTypeOK
  <1>7. /\ Z \in HarnessState /\ Z.next = S.next
        /\ StateOK([Z EXCEPT !.last = S.next, !.next = "verify"], artifacts'[r], paid)
    <2>1. result \in PublishedResult /\ Worthy(result, Retrieved(S)) /\ paid <= paid
      BY <1>1, <1>3 DEF Earned
    <2> HIDE DEF S, paid, result
    <2> QED BY <1>1, <1>2, <1>3, <1>6, <2>1, StatesGenerate
  <1>8. StateOK(Moved(Z), artifacts'[r], paid)
    <2> HIDE DEF Z
    <2> QED BY <1>2, <1>7 DEF Moved
  <1>9. Z.rounds = paid
    BY <1>1 DEF HarnessState
  <1> HIDE DEF Z
  <1>10. g \in FrameRow /\ g.pc = "emit" /\ g.state = Z
    BY <1>1, <1>7 DEF FrameRow, Pc
  <1> HIDE DEF g
  <1> QED BY <1>2, <1>5, <1>6, <1>7, <1>8, <1>9, <1>10, Stores

LEMMA StagesToSame ==
  ASSUME NEW r \in Run, NEW w, NEW e, AppendStageEvent(r, w, e), UNCHANGED published
  PROVE  SamePlace(r)
  BY DEF AppendStageEvent, SamePlace, SameLedger

LEMMA StagesTold ==
  ASSUME HarnessInv, NEW r \in Run, NEW e \in 1..MaxEpoch, Emit(r, e) \/ BeginGeneration(r, e)
  PROVE  RunOK(r)'
  <1> DEFINE f == frame[r][e]
             S == f.state
             paid == ledger[r].rounds
  <1>1. /\ f \in FrameRow /\ Sound(f, artifacts[r], paid) /\ paid \in Nat
        /\ S \in HarnessState /\ f.with \in Settings \cup {None}
    BY Executions
  <1>2. SamePlace(r) /\ e <= runs[r].epoch
    BY StagesToSame, Executions DEF Emit, BeginGeneration, At, AtNode
  <1>3. CASE Emit(r, e)
    <2> DEFINE Z == Moved(S)
    <2>1. f.pc = "emit" /\ S.next \in {"retrieve", "generate"} /\ StateOK(Z, artifacts[r], paid)
      BY <1>1, <1>3 DEF Emit, At, Sound
    <2>2. Become(r, e, PutFrame(f.with, Z))
      BY <1>3 DEF Emit, Complete, PutFrame, Moved
    <2>3. /\ Z.last = S.next /\ Z.rounds = S.rounds /\ Z.last # "persist_result"
      BY <1>1, <2>1 DEF Moved, HarnessState
    <2> HIDE DEF Z
    <2>4. Sound(PutFrame(f.with, Z), artifacts[r], paid)
      BY <1>1, <2>1, PutFrames
    <2>5. ASSUME e = runs[r].epoch
          PROVE  Follows(PutFrame(f.with, Z), Resumed(r), runs[r].status, published[r], paid)
      <3>1. Follows(f, Resumed(r), runs[r].status, published[r], paid)
        BY <2>5, Executions
      <3>2. Steps(Resumed(r), Z) /\ Z.rounds = paid /\ runs[r].status \notin Answered
        BY <2>1, <2>3, <3>1 DEF Follows, Z
      <3> QED BY <1>1, <2>1, <2>3, <3>2, PutFrames
    <2> QED BY <1>2, <2>2, <2>4, <2>5, GoesOnInPlace
  <1>4. CASE BeginGeneration(r, e)
    BY <1>2, <1>4, ShiftsOn DEF BeginGeneration, AtNode, At, Shift, Pc
  <1> QED BY <1>3, <1>4

(* Instead of an answer, the limit may decide the status. *)
LEMMA StatesLimited ==
  ASSUME NEW S, NEW stored, NEW paid \in Nat, StateOK(S, stored, paid), S.next = "generate",
         NEW status \in {S.status, "completed_with_limits"}, NEW Z, Z = [S EXCEPT !.status = status]
  PROVE  /\ StateOK(Z, stored, paid) /\ Z.last = S.last /\ Z.next = S.next
         /\ Z.rounds = S.rounds /\ Z.verified = S.verified /\ Retrieved(Z) = Retrieved(S)
  <1>1. S \in HarnessState /\ Coherent(S) /\ Backed(S, stored, paid)
    BY DEF StateOK
  <1>2. status \in Answered /\ S.status \in Answered
    BY <1>1 DEF Coherent, Answered
  <1>3. /\ Z \in HarnessState /\ Z.last = S.last /\ Z.next = S.next /\ Z.rounds = S.rounds
        /\ Z.verified = S.verified /\ Z.retrieved = S.retrieved /\ Z.route = S.route
        /\ Z.status = status
    BY <1>1, <1>2 DEF HarnessState
  <1>4. Retrieved(Z) = Retrieved(S) /\ Safe(Z) = Safe(S)
    BY <1>3 DEF Retrieved, Safe
  <1>5. Coherent(Z)
    BY <1>1, <1>2, <1>3, <1>4 DEF Coherent
  <1>6. Backed(Z, stored, paid)
    BY <1>1, <1>3 DEF Backed
  <1> QED BY <1>3, <1>4, <1>5, <1>6 DEF StateOK

LEMMA EarnedTurns ==
  ASSUME NEW turn, Accepted(turn), NEW generate \in BOOLEAN, NEW raw \in RawAnswer \cup {Nothing}
  PROVE  Earned(VerifyTurn(GenerateTurn(turn, generate, raw)), turn)
  <1> DEFINE g == GenerateTurn(turn, generate, raw)
  <1>1. /\ g \in GeneratedTurn /\ g.retrieved = turn /\ GeneratedAccepted(g)
        /\ g.kind = "model" => g.raw # Nothing
    BY GeneratedTurns
  <1> HIDE DEF g
  <1>2. /\ VerifyTurn(g) \in VerifiedTurn /\ VerifyTurn(g).generated = g
        /\ VerifiedAccepted(VerifyTurn(g)) /\ SafeResult(VerifyTurn(g)) \in PublishedResult
        /\ Worthy(SafeResult(VerifyTurn(g)), turn)
    BY <1>1, VerifiedTurns
  <1>3. Earned(VerifyTurn(g), turn)
    BY <1>1, <1>2 DEF Earned
  <1> QED BY <1>3 DEF g

LEMMA Verifies ==
  ASSUME HarnessInv, NEW r \in Run, NEW e \in 1..MaxEpoch, e <= runs[r].epoch, SamePlace(r),
         frame[r][e].pc \in {"generate", "call"}, NEW S, S = frame[r][e].state, S.next = "generate",
         NEW generate \in BOOLEAN, NEW raw \in RawAnswer \cup {Nothing},
         NEW status \in {S.status, "completed_with_limits"},
         Verified(r, e, GenerateTurn(Retrieved(S), generate, raw), status)
  PROVE  RunOK(r)'
  <1> DEFINE f == frame[r][e]
             turn == VerifyTurn(GenerateTurn(Retrieved(S), generate, raw))
             Z == [S EXCEPT !.status = status]
             g == [f EXCEPT !.pc = "save", !.op = None, !.n = 0, !.tries = 0, !.turn = turn,
                            !.state = Z]
             paid == ledger[r].rounds
  <1>1. /\ f \in FrameRow /\ Sound(f, artifacts[r], paid) /\ paid \in Nat /\ S \in HarnessState
    BY Executions
  <1>2. StateOK(S, artifacts[r], paid) /\ Coherent(S)
    BY <1>1 DEF Sound, StateOK
  <1>3. Accepted(Retrieved(S))
    <2>1. S.last \in {"check_evidence", "plan_followup"}
      BY <1>1, <1>2, HarnessStates, Nodes DEF Coherent
    <2>2. S.retrieved # None
      BY <1>2, <2>1, NullIsNoState DEF Coherent, NodeName
    <2> QED BY <1>2, <2>2 DEF Coherent
  <1>4. Earned(turn, Retrieved(S))
    BY <1>3, EarnedTurns
  <1>5. /\ StateOK(Z, artifacts[r], paid) /\ Z.last = S.last /\ Z.next = S.next
        /\ Z.rounds = S.rounds /\ Z.verified = S.verified /\ Retrieved(Z) = Retrieved(S)
    <2>1. paid \in Nat /\ StateOK(S, artifacts[r], paid) /\ S.next = "generate"
      BY <1>1, <1>2
    <2>2. Z = [S EXCEPT !.status = status]
      OBVIOUS
    <2> HIDE DEF paid, Z
    <2> QED BY <2>1, <2>2, StatesLimited
  <1>6. Become(r, e, g)
    BY DEF Verified
  <1> HIDE DEF turn, Z
  <1>7. turn \in VerifiedTurn /\ Z \in HarnessState
    BY <1>4, <1>5 DEF Earned, StateOK
  <1>8. g \in FrameRow /\ g.pc = "save" /\ g.turn = turn /\ g.state = Z
    BY <1>1, <1>7 DEF FrameRow, Pc
  <1> HIDE DEF g
  <1>9. Sound(g, artifacts[r], paid)
    BY <1>4, <1>5, <1>8 DEF Sound, Calls
  <1>10. ASSUME e = runs[r].epoch
         PROVE  Follows(g, Resumed(r), runs[r].status, published[r], paid)
    <2>1. Follows(f, Resumed(r), runs[r].status, published[r], paid)
      BY <1>10, Executions
    <2> QED BY <1>5, <1>8, <2>1 DEF Follows, Calls
  <1> HIDE DEF paid
  <1> QED BY <1>6, <1>9, <1>10, GoesOnInPlace DEF paid

LEMMA GenerationNode ==
  ASSUME HarnessInv, NEW r \in Run, NEW e \in 1..MaxEpoch, GenerateLocally(r, e)
  PROVE  RunOK(r)'
  <1> DEFINE f == frame[r][e]
             S == f.state
             turn == Retrieved(S)
             op == <<"generate_answer", 0, 0>>
  <1>1. /\ f \in FrameRow /\ Sound(f, artifacts[r], ledger[r].rounds) /\ e <= runs[r].epoch
        /\ f.pc = "generate" /\ SamePlace(r)
    BY Executions, LocalPlace DEF GenerateLocally, At
  <1>2. S.next = "generate"
    BY <1>1 DEF Sound
  <1>3. CASE Verified(r, e, GenerateTurn(turn, FALSE, Nothing), S.status)
    <2>1. PICK generate \in BOOLEAN : Verified(r, e, GenerateTurn(turn, generate, Nothing), S.status)
      BY <1>3, Zenon
    <2> QED BY <1>1, <1>2, <2>1, Verifies
  <1>4. CASE Verified(r, e, GenerateTurn(turn, TRUE, Nothing), "completed_with_limits")
    <2>1. PICK generate \in BOOLEAN :
            Verified(r, e, GenerateTurn(turn, generate, Nothing), "completed_with_limits")
      BY <1>4, Zenon
    <2> QED BY <1>1, <1>2, <2>1, Verifies
  <1>5. CASE Invoke(r, e, op, {}) /\ turn.terminal = Nothing
    <2>1. op \in FrameOperation /\ op[1] = "generate_answer" /\ {} \in SUBSET Chunk
      BY Operations
    <2> HIDE DEF op
    <2> QED BY <1>1, <1>2, <1>5, <2>1, InvokesOn
  <1>6. \/ Verified(r, e, GenerateTurn(turn, FALSE, Nothing), S.status)
        \/ Verified(r, e, GenerateTurn(turn, TRUE, Nothing), "completed_with_limits")
        \/ Invoke(r, e, op, {}) /\ turn.terminal = Nothing
    BY Zenon DEF GenerateLocally
  <1> QED BY <1>3, <1>4, <1>5, <1>6

LEMMA GeneratorsAnswer ==
  ASSUME HarnessInv, NEW r \in Run, NEW e \in 1..MaxEpoch, NEW raw \in Raw \cup {Nothing},
         GeneratorAnswered(r, e, raw)
  PROVE  RunOK(r)'
  <1> DEFINE S == frame[r][e].state
  <1>1. SamePlace(r) /\ e <= runs[r].epoch /\ frame[r][e].pc = "call"
          /\ frame[r][e].op[1] = "generate_answer"
    BY Answers DEF GeneratorAnswered, Calling
  <1>2. S.next = "generate"
    BY <1>1, Executions DEF Sound, Calls
  <1>3. raw \in RawAnswer \cup {Nothing}
    BY AnswersAreRead
  <1>4. Verified(r, e, GenerateTurn(Retrieved(S), TRUE, raw), S.status)
    BY DEF GeneratorAnswered
  <1>5. PICK generate \in BOOLEAN : Verified(r, e, GenerateTurn(Retrieved(S), generate, raw), S.status)
    BY <1>4, Zenon
  <1> QED BY <1>1, <1>2, <1>3, <1>5, Verifies

LEMMA Starts ==
  ASSUME HarnessInv, NEW r \in Run, NEW e \in 1..MaxEpoch, Start(r, e)
  PROVE  RunOK(r)'
  <1> DEFINE T == Resumed(r)
             paid == ledger[r].rounds
  <1>1. PICK with \in Settings :
          Become(r, e, [NoFrame EXCEPT !.pc = IF BeforeDeadline(r) THEN "put" ELSE "limited",
                                       !.with = with, !.state = T])
    BY DEF Start
  <1>2. /\ SamePlace(r) /\ e <= runs[r].epoch /\ runs[r].epoch = e /\ runs[r].status = "running"
    BY LocalPlace, Executions DEF Start, At, WorkerLease
  <1>3. /\ Trust(T, runs[r].status, published[r], artifacts[r], paid) /\ paid \in Nat
        /\ runs[r].status \notin Answered
    BY <1>2, Executions DEF Answered
  <1>4. StateOK(T, artifacts[r], paid) /\ T.last # "persist_result" /\ T \in HarnessState
    BY <1>3 DEF Trust, StateOK
  <1>5. CASE BeforeDeadline(r)
    <2>1. Become(r, e, PutFrame(with, T))
      BY <1>1, <1>5 DEF PutFrame
    <2>2. /\ Sound(PutFrame(with, T), artifacts[r], paid)
          /\ Follows(PutFrame(with, T), T, runs[r].status, published[r], paid)
      <3> HIDE DEF T, paid
      <3> QED BY <1>3, <1>4, PutFrames DEF Trust
    <2> QED BY <1>2, <2>1, <2>2, GoesOnInPlace
  <1>6. CASE ~BeforeDeadline(r)
    <2> DEFINE g == [NoFrame EXCEPT !.pc = "limited", !.with = with, !.state = T]
    <2>1. Become(r, e, g)
      BY <1>1, <1>6
    <2>2. g \in FrameRow /\ g.pc = "limited" /\ g.state = T
      <3>1. NoFrame \in FrameRow
        BY EndedFrames DEF Idle
      <3> HIDE DEF T
      <3> QED BY <1>4, <3>1 DEF FrameRow, Pc
    <2> HIDE DEF g
    <2>3. /\ Sound(g, artifacts[r], paid)
          /\ Follows(g, T, runs[r].status, published[r], paid)
      BY <1>3, <1>4, <2>2 DEF Sound, Follows, Calls
    <2> QED BY <1>2, <2>1, <2>3, GoesOnInPlace
  <1> QED BY <1>5, <1>6

LEMMA Interrupts ==
  ASSUME HarnessInv, NEW r \in Run, NEW e \in 1..MaxEpoch,
         Put(r, e) \/ Fenced(r, e) \/ Exhausted(r, e)
  PROVE  RunOK(r)'
  <1>1. SamePlace(r)
    BY LocalPlace DEF Put, Fenced, Exhausted
  <1>2. e <= runs[r].epoch
    BY Executions DEF Put, At, Fenced, Exhausted
  <1>3. CASE Put(r, e)
    BY <1>1, <1>2, <1>3, ShiftsOn DEF Put, At, Shift, Pc
  <1>4. CASE Fenced(r, e)
    BY <1>1, <1>2, <1>4, EndsThere DEF Fenced
  <1>5. CASE Exhausted(r, e)
    <2>1. Proceed(r, e, "limited") /\ frame[r][e].pc \in {"node", "reserve", "dispatch"}
      BY <1>5 DEF Exhausted, AtNode, At
    <2> QED BY <1>1, <1>2, <2>1, ShiftsOn DEF Shift, Pc, Calls
  <1> QED BY <1>3, <1>4, <1>5

(* The state of the execution becomes the trusted one. *)
LEMMA BoundStates ==
  ASSUME HarnessInv, NEW r \in Run, NEW e \in 1..MaxEpoch, Bind(r, e)
  PROVE  /\ e = runs[r].epoch /\ frame[r][e].pc = "bind"
         /\ Resumed(r)' = frame[r][e].state
         /\ runs'[r].status = runs[r].status /\ runs'[r].epoch = runs[r].epoch
         /\ ledger'[r] = ledger[r] /\ artifacts'[r] = artifacts[r] /\ UNCHANGED published
  <1> DEFINE S == frame[r][e].state
             c == <<e, NextCheckpoint(r, e)>>
  <1>1. /\ runs \in [Run -> RunRow]
        /\ checkpoints \in [Run -> [CheckpointKey -> CheckpointRow \cup {None}]]
    BY DEF HarnessInv, Typed, RunTypeOK
  <1>2. /\ frame[r][e].pc = "bind" /\ c \in CheckpointKey /\ UNCHANGED published
        /\ BindCheckpoint(r, leases[r][e], e, NextCheckpoint(r, e), S)
    BY DEF Bind, At, CheckpointKey
  <1> HIDE DEF c, S
  <1>3. /\ LeaseOrPublished(r, leases[r][e], e)
        /\ \/ \E after \in CompletedBefore(r) :
                checkpoints' = [checkpoints EXCEPT ![r] =
                  [@ EXCEPT ![c] = [state |-> S, after |-> after]]]
           \/ checkpoints[r][c].state = S /\ checkpoints' = checkpoints
        /\ runs' = [runs EXCEPT ![r] = [@ EXCEPT !.trusted = c]]
        /\ UNCHANGED <<ledger, artifacts>>
    BY <1>2 DEF BindCheckpoint, c
  <1>4. e = runs[r].epoch
    BY <1>3 DEF LeaseOrPublished, WorkerLease
  <1>5. checkpoints'[r][c].state = S
    <2>1. CASE \E after \in CompletedBefore(r) :
                 checkpoints' = [checkpoints EXCEPT ![r] =
                   [@ EXCEPT ![c] = [state |-> S, after |-> after]]]
      <3>1. PICK after \in CompletedBefore(r) :
              checkpoints' = [checkpoints EXCEPT ![r] =
                [@ EXCEPT ![c] = [state |-> S, after |-> after]]]
        BY <2>1
      <3>2. checkpoints'[r][c] = [state |-> S, after |-> after]
        BY <1>1, <1>2, <3>1
      <3> QED BY <3>2
    <2> QED BY <1>3, <2>1
  <1>6. /\ runs'[r].trusted = c /\ runs'[r].status = runs[r].status
        /\ runs'[r].epoch = runs[r].epoch
    BY <1>1, <1>3 DEF RunRow
  <1>7. Resumed(r)' = S
    <2>1. c # None
      BY <1>2, NullIsNoCheckpoint
    <2> QED BY <1>5, <1>6, <2>1 DEF Resumed
  <1> QED BY <1>2, <1>3, <1>4, <1>6, <1>7 DEF S

LEMMA Binds ==
  ASSUME HarnessInv, NEW r \in Run, NEW e \in 1..MaxEpoch, Bind(r, e)
  PROVE  RunOK(r)'
  <1> DEFINE f == frame[r][e]
             S == f.state
             T == Resumed(r)
             paid == ledger[r].rounds
             g == IF S.next = None THEN [NoFrame EXCEPT !.pc = "done", !.with = f.with]
                  ELSE [f EXCEPT !.pc = "node"]
  <1>1. /\ f \in FrameRow /\ Sound(f, artifacts[r], paid) /\ paid \in Nat /\ S \in HarnessState
        /\ Trust(T, runs[r].status, published[r], artifacts[r], paid)
        /\ f.with \in Settings \cup {None} /\ RunOK(r) /\ runs[r].epoch \in Nat
    BY Executions DEF HarnessInv
  <1>2. /\ e = runs[r].epoch /\ f.pc = "bind" /\ Resumed(r)' = S
        /\ runs'[r].status = runs[r].status /\ runs'[r].epoch = runs[r].epoch
        /\ ledger'[r] = ledger[r] /\ artifacts'[r] = artifacts[r] /\ UNCHANGED published
    BY BoundStates
  <1>3. Follows(f, T, runs[r].status, published[r], paid)
    BY <1>2, Executions
  <1>4. /\ StateOK(S, artifacts[r], paid) /\ Coherent(S)
        /\ S = T \/ Steps(T, S)
        /\ S.next # "retrieve" => S.rounds = paid
        /\ S.last = "persist_result" => runs[r].status \in Answered /\ published[r] = Safe(S)
        /\ runs[r].status \in Answered => S.last = "persist_result"
    BY <1>1, <1>2, <1>3 DEF Sound, StateOK, Follows
  <1>5. S.last = "persist_result" => S.verified # None /\ S.next = None
    <2>1. S.last = "persist_result" => S.verified # None
      BY <1>4 DEF Coherent, Late
    <2>2. S.last = "persist_result" => S.next = None
      BY <1>1, <1>4, HarnessStates, Nodes DEF Coherent
    <2> QED BY <2>1, <2>2
  <1>6. Trust(S, runs[r].status, published[r], artifacts[r], paid)
    <2>1. published[r] \notin {None, LimitedResult} =>
            S.verified # None /\ published[r] = Safe(S) /\ runs[r].status = S.status
      <3> SUFFICES ASSUME published[r] \notin {None, LimitedResult}
                   PROVE  S.verified # None /\ published[r] = Safe(S) /\ runs[r].status = S.status
        OBVIOUS
      <3>1. runs[r].status \in Answered /\ runs[r].status = T.status
        BY <1>1 DEF Trust
      <3>2. S.status = T.status
        BY <1>4, <3>1 DEF Steps
      <3> QED BY <1>4, <1>5, <3>1, <3>2
    <2> QED BY <1>1, <1>4, <2>1 DEF Trust
  <1>7. /\ g \in FrameRow /\ Become(r, e, g)
        /\ Sound(g, artifacts[r], paid)
        /\ Follows(g, S, runs[r].status, published[r], paid)
    <2>1. CASE S.next = None
      <3> DEFINE h == [NoFrame EXCEPT !.pc = "done", !.with = f.with]
      <3>1. g = h /\ Become(r, e, h)
        BY <2>1 DEF Bind, End
      <3>2. Idle(h) /\ h.pc = "done"
        BY <1>1, EndedFrames
      <3> HIDE DEF h, g
      <3> QED BY <1>1, <3>1, <3>2, IdleFrames DEF Idle
    <2>2. CASE S.next # None
      <3> DEFINE h == [f EXCEPT !.pc = "node"]
      <3>1. g = h /\ Become(r, e, h)
        BY <2>2 DEF Bind, Proceed
      <3>2. h \in FrameRow /\ h.pc = "node" /\ h.state = S
        BY <1>1 DEF FrameRow, Pc
      <3> HIDE DEF h, g
      <3>3. Sound(h, artifacts[r], paid)
        BY <1>1, <1>4, <2>2, <3>2 DEF Sound, Calls
      <3>4. Follows(h, S, runs[r].status, published[r], paid)
        BY <1>4, <1>5, <2>2, <3>2 DEF Follows, Calls
      <3> QED BY <3>1, <3>2, <3>3, <3>4
    <2> QED BY <2>1, <2>2
  <1> HIDE DEF g
  <1>8. frame'[r][e] = g /\ \A d \in (1..MaxEpoch) \ {e} : frame'[r][d] = frame[r][d]
    BY <1>7, Becomes
  <1>9. ASSUME NEW d \in 1..MaxEpoch
        PROVE  /\ Sound(frame'[r][d], artifacts[r], paid)
               /\ d > runs[r].epoch => frame'[r][d] = NoFrame
               /\ d = runs[r].epoch => Follows(frame'[r][d], S, runs[r].status, published[r], paid)
    BY <1>1, <1>2, <1>7, <1>8 DEF RunOK
  <1> HIDE DEF f, S, T
  <1> QED BY <1>1, <1>2, <1>6, <1>9 DEF RunOK

(* The run ends, by its own lease. *)
LEMMA Closings ==
  ASSUME HarnessInv, NEW r \in Run, NEW e \in 1..MaxEpoch, e = runs[r].epoch,
         runs'[r].epoch = runs[r].epoch, runs'[r].trusted = runs[r].trusted, SameLedger(r),
         \A d \in (1..MaxEpoch) \ {e} : frame'[r][d] = frame[r][d],
         Sound(frame'[r][e], artifacts[r], ledger[r].rounds),
         Follows(frame'[r][e], Resumed(r), runs'[r].status, published'[r], ledger[r].rounds),
         Trust(Resumed(r), runs'[r].status, published'[r], artifacts[r], ledger[r].rounds)
  PROVE  RunOK(r)'
  <1>1. Resumed(r)' = Resumed(r)
    BY DEF Resumed, SameLedger
  <1>2. RunOK(r) /\ runs[r].epoch \in Nat
    BY Executions DEF HarnessInv
  <1>3. ASSUME NEW d \in 1..MaxEpoch
        PROVE  /\ Sound(frame'[r][d], artifacts[r], ledger[r].rounds)
               /\ d > runs[r].epoch => frame'[r][d] = NoFrame
               /\ d = runs[r].epoch =>
                    Follows(frame'[r][d], Resumed(r), runs'[r].status, published'[r], ledger[r].rounds)
    BY <1>2 DEF RunOK
  <1> QED BY <1>1, <1>2, <1>3 DEF RunOK, SameLedger

LEMMA FailedRows ==
  ASSUME HarnessInv, NEW r \in Run, NEW e \in 1..MaxEpoch, NEW w, FailRun(r, w, e)
  PROVE  /\ MovedAround(r) /\ e = runs[r].epoch /\ runs[r].status = "running"
         /\ runs'[r].status = "failed" /\ runs'[r].epoch = runs[r].epoch
         /\ runs'[r].trusted = runs[r].trusted
  <1>1. runs \in [Run -> RunRow]
    BY DEF HarnessInv, Typed, RunTypeOK
  <1>2. runs'[r] = Released(r, "failed") /\ SameLedger(r) /\ runs[r].status = "running"
          /\ runs[r].epoch = e
    BY <1>1 DEF FailRun, Transition, SameLedger, WorkerLease
  <1>3. runs'[r].status = "failed" /\ runs'[r].epoch = runs[r].epoch
          /\ runs'[r].trusted = runs[r].trusted
    BY <1>1, <1>2 DEF Released, RunRow
  <1> QED BY <1>2, <1>3 DEF MovedAround, Answered

LEMMA Failures ==
  ASSUME HarnessInv, NEW r \in Run, NEW e \in 1..MaxEpoch, Raise(r, e) \/ TimeOut(r, e)
  PROVE  RunOK(r)'
  <1>1. /\ MovedAround(r) /\ e = runs[r].epoch /\ runs[r].status = "running"
        /\ runs'[r].status = "failed" /\ runs'[r].epoch = runs[r].epoch
        /\ runs'[r].trusted = runs[r].trusted
    BY FailedRows DEF Raise, TimeOut
  <1>2. CASE TimeOut(r, e)
    BY <1>1, <1>2, MovesAround DEF TimeOut
  <1>3. CASE Raise(r, e)
    <2> DEFINE g == [NoFrame EXCEPT !.pc = "done", !.with = frame[r][e].with]
               paid == ledger[r].rounds
    <2>1. Idle(g) /\ g.pc = "done" /\ Become(r, e, g) /\ UNCHANGED published /\ paid \in Nat
      BY <1>3, EndedFrames, Executions DEF Raise, End
    <2> HIDE DEF g
    <2>2. frame'[r][e] = g /\ \A d \in (1..MaxEpoch) \ {e} : frame'[r][d] = frame[r][d]
      BY <2>1, Becomes DEF Idle
    <2>3. /\ Sound(g, artifacts[r], paid)
          /\ Follows(g, Resumed(r), runs'[r].status, published[r], paid)
      BY <2>1, IdleFrames
    <2>4. Trust(Resumed(r), runs'[r].status, published[r], artifacts[r], paid)
      <3>1. Trust(Resumed(r), "running", published[r], artifacts[r], paid)
        BY <1>1, Executions
      <3>2. {"running", "failed"} \cap Answered = {}
        BY DEF Answered
      <3> QED BY <1>1, <3>1, <3>2, LimitedIsPublished DEF Trust
    <2> QED BY <1>1, <2>1, <2>2, <2>3, <2>4, Closings DEF MovedAround
  <1> QED BY <1>2, <1>3

LEMMA PublishedRows ==
  ASSUME HarnessInv, NEW r \in Run, NEW e \in 1..MaxEpoch, NEW status, NEW result, Publish(r, e, status, result)
  PROVE  /\ SameLedger(r) /\ e = runs[r].epoch /\ runs[r].status = "running"
         /\ runs'[r].status = status /\ runs'[r].epoch = runs[r].epoch
         /\ runs'[r].trusted = runs[r].trusted /\ published'[r] = result
         /\ \A q \in Run \ {r} : published'[q] = published[q]
  <1>1. runs \in [Run -> RunRow] /\ published \in [Run -> PublishedResult \cup {None}]
    BY DEF HarnessInv, Typed, RunTypeOK, FramesTyped
  <1>2. runs'[r] = Released(r, status) /\ SameLedger(r) /\ runs[r].status = "running"
          /\ runs[r].epoch = e
    BY <1>1 DEF Publish, PublishTerminalResult, Transition, SameLedger, WorkerLease
  <1>3. runs'[r].status = status /\ runs'[r].epoch = runs[r].epoch
          /\ runs'[r].trusted = runs[r].trusted
    BY <1>1, <1>2 DEF Released, RunRow
  <1>4. published'[r] = result /\ \A q \in Run \ {r} : published'[q] = published[q]
    BY <1>1 DEF Publish
  <1> QED BY <1>2, <1>3, <1>4

LEMMA Limits ==
  ASSUME HarnessInv, NEW r \in Run, NEW e \in 1..MaxEpoch, Limit(r, e)
  PROVE  RunOK(r)'
  <1> DEFINE g == [NoFrame EXCEPT !.pc = "done", !.with = frame[r][e].with]
             paid == ledger[r].rounds
             status == "completed_with_limits"
  <1>1. /\ SameLedger(r) /\ e = runs[r].epoch /\ runs[r].status = "running"
        /\ runs'[r].status = status /\ runs'[r].epoch = runs[r].epoch
        /\ runs'[r].trusted = runs[r].trusted /\ published'[r] = LimitedResult
    BY PublishedRows DEF Limit
  <1>2. Idle(g) /\ g.pc = "done" /\ Become(r, e, g) /\ paid \in Nat
    BY EndedFrames, Executions DEF Limit, End
  <1> HIDE DEF g
  <1>3. frame'[r][e] = g /\ \A d \in (1..MaxEpoch) \ {e} : frame'[r][d] = frame[r][d]
    BY <1>2, Becomes DEF Idle
  <1>4. /\ Sound(g, artifacts[r], paid)
        /\ Follows(g, Resumed(r), status, LimitedResult, paid)
    BY <1>2, IdleFrames
  <1>5. Trust(Resumed(r), status, LimitedResult, artifacts[r], paid)
    <2>1. Trust(Resumed(r), "running", published[r], artifacts[r], paid)
      BY <1>1, Executions
    <2>2. "running" \notin Answered /\ status \in Answered
      BY DEF Answered
    <2> QED BY <2>1, <2>2, LimitedIsPublished DEF Trust
  <1> QED BY <1>1, <1>3, <1>4, <1>5, Closings

LEMMA ResultNode ==
  ASSUME HarnessInv, NEW r \in Run, NEW e \in 1..MaxEpoch, PersistResult(r, e)
  PROVE  RunOK(r)' /\ Safe(frame[r][e].state) \in PublishedResult
  <1> DEFINE f == frame[r][e]
             S == f.state
             T == Resumed(r)
             paid == ledger[r].rounds
             status == IF S.status = None THEN "succeeded" ELSE S.status
             Z == [S EXCEPT !.last = S.next, !.next = None]
  <1>1. /\ f.pc = "node" /\ S.next = "persist_result" /\ StateOK(S, artifacts[r], paid)
        /\ Publish(r, e, status, Safe(S)) /\ Become(r, e, PutFrame(f.with, Z))
    BY AtNodes DEF PersistResult, Complete, PutFrame
  <1>2. /\ SameLedger(r) /\ e = runs[r].epoch /\ runs[r].status = "running"
        /\ runs'[r].status = status /\ runs'[r].epoch = runs[r].epoch
        /\ runs'[r].trusted = runs[r].trusted /\ published'[r] = Safe(S)
    BY <1>1, PublishedRows
  <1>3. /\ Sound(f, artifacts[r], paid) /\ paid \in Nat /\ f.with \in Settings \cup {None}
        /\ Trust(T, "running", published[r], artifacts[r], paid)
        /\ Follows(f, T, "running", published[r], paid) /\ S \in HarnessState
    BY <1>2, Executions
  <1>4. S = T /\ S.rounds = paid
    BY <1>1, <1>3 DEF Follows, Trust
  <1>5. Coherent(S) /\ S.last = "verify"
    BY <1>1, <1>3, HarnessStates, Nodes DEF StateOK, Coherent
  <1>6. S.verified # None /\ Worthy(Safe(S), Retrieved(S)) /\ S.status \in Answered
    BY <1>5 DEF Coherent, Late
  <1>7. /\ status = S.status /\ Safe(S) \in PublishedResult /\ Safe(S) # None
        /\ Safe(S) # LimitedResult
    <2>1. Safe(S) \in PublishedResult
      BY <1>3, <1>6, HarnessStates
    <2>2. Safe(S) # LimitedResult
      BY <1>6 DEF Worthy, LimitedResult
    <2> QED BY <1>6, <2>1, <2>2, NullIsNoState
  <1>8. StateOK(Z, artifacts[r], paid)
    BY <1>1, <1>3, StatesPass
  <1>9. Z.last = "persist_result" /\ Z.next = None /\ Z.rounds = S.rounds /\ Safe(Z) = Safe(S)
          /\ Z.verified = S.verified /\ Z.retrieved = S.retrieved /\ Z.status = S.status
    BY <1>1, <1>3 DEF HarnessState, Safe
  <1>10. Steps(T, Z) /\ None # "retrieve"
    <2>1. Steps(T, Z)
      BY <1>1, <1>3, <1>4, <1>9, HarnessStates DEF Steps
    <2> QED BY <2>1, NullIsNoState
  <1> HIDE DEF Z
  <1>11. /\ Sound(PutFrame(f.with, Z), artifacts[r], paid)
         /\ Follows(PutFrame(f.with, Z), T, S.status, Safe(S), paid)
    <2>1. Z.last = "persist_result" => S.status \in Answered /\ Safe(S) = Safe(Z)
      BY <1>6, <1>9
    <2>2. Z.next # "retrieve" => Z.rounds = paid
      BY <1>4, <1>9
    <2>3. S.status \in Answered => Z.last = "persist_result"
      BY <1>9
    <2> HIDE DEF S, T, paid
    <2>4. f.with \in Settings \cup {None} /\ paid \in Nat /\ StateOK(Z, artifacts[r], paid)
      BY <1>3, <1>8
    <2> HIDE DEF f
    <2> QED BY <1>10, <2>1, <2>2, <2>3, <2>4, PutFrames
  <1>12. frame'[r][e] = PutFrame(f.with, Z)
           /\ \A d \in (1..MaxEpoch) \ {e} : frame'[r][d] = frame[r][d]
    BY <1>1, <1>11, Becomes DEF Sound
  <1>13. Trust(T, S.status, Safe(S), artifacts[r], paid)
    <2>1. T.last # "persist_result"
      BY <1>4, <1>5
    <2> QED BY <1>3, <1>4, <1>6, <1>7, <2>1 DEF Trust
  <1> HIDE DEF T, S, status
  <1>14. RunOK(r)'
    BY <1>2, <1>7, <1>11, <1>12, <1>13, Closings DEF T
  <1> QED BY <1>7, <1>14 DEF S

-----------------------------------------------------------------------------
(* Every step *)

LEMMA ExecutionKeeps ==
  ASSUME HarnessInv, NEW r \in Run, NEW e \in 1..MaxEpoch, GraphStep(r, e)
  PROVE  RunOK(r)'
  <1>1. CASE Node(r, e)
    BY <1>1, FirstNodes, PassingNodes, EvidenceNode, PlanNode, RetrievalNode, RetrievedStored,
       VerifiedStored, StagesTold, GenerationNode, ResultNode DEF Node
  <1>2. CASE External(r, e)
    BY <1>2, CallsGoOut, CallsFail, SearchesAnswer, PlannersAnswer, GeneratorsAnswer DEF External
  <1>3. CASE \/ Start(r, e) \/ Put(r, e) \/ Bind(r, e) \/ Fenced(r, e) \/ Exhausted(r, e)
             \/ Limit(r, e) \/ Raise(r, e) \/ TimeOut(r, e)
    BY <1>3, Starts, Interrupts, Binds, Limits, Failures
  <1> QED BY <1>1, <1>2, <1>3 DEF GraphStep

(* What the graph stores has a place in the tables of the service.          *)
TablesFit == HarnessArtifact \subseteq Artifact /\ HarnessState \subseteq GraphState

ServiceCall(r, e) == e \in DOMAIN leases[r] /\ Leased(r, leases[r][e], e)

LEMMA OperationIsKnown ==
  ASSUME HarnessInv, NEW r \in Run, NEW e \in 1..MaxEpoch, e = runs[r].epoch,
         frame[r][e].pc \in Calls
  PROVE  frame[r][e].op \in GraphOperation
  <1> DEFINE f == frame[r][e]
             T == Resumed(r)
             paid == ledger[r].rounds
  <1>1. /\ Sound(f, artifacts[r], paid) /\ paid \in Nat
        /\ Follows(f, T, runs[r].status, published[r], paid)
        /\ Trust(T, runs[r].status, published[r], artifacts[r], paid)
    BY Executions
  <1>2. CASE f.op = <<"plan_followup", MaxRounds + 1, 0>>
    <2>1. f.state.next = "plan_followup" /\ f.op[2] = paid + 1 /\ T.next = "plan_followup"
      <3>1. f.pc \in Calls /\ f.op[1] = "plan_followup"
        BY <1>2
      <3> HIDE DEF f, T, paid
      <3>2. f.state.next = "plan_followup"
        BY <1>1, <3>1 DEF Sound
      <3>3. f.op[2] = paid + 1 /\ f.state.next = T.next
        BY <1>1, <3>1 DEF Follows
      <3> QED BY <3>2, <3>3
    <2>2. T.rounds = paid /\ T.rounds < MaxRounds
      BY <1>1, <2>1 DEF Trust, StateOK, Coherent
    <2> QED BY <1>1, <1>2, <2>1, <2>2, RunLimits
  <1> QED BY <1>1, <1>2 DEF Sound, FrameOperation

LEMMA ExecutionsCall ==
  ASSUME HarnessInv, TablesFit, NEW r \in Run, NEW e \in 1..MaxEpoch, GraphStep(r, e)
  PROVE  UNCHANGED runVars \/ ServiceCall(r, e)
  <1> DEFINE f == frame[r][e]
             w == leases[r][e]
  <1>0. f \in FrameRow /\ f.state \in HarnessState
    BY Executions
  <1>1. ASSUME \/ Start(r, e) \/ Put(r, e) \/ Fenced(r, e) \/ Exhausted(r, e)
               \/ AnalyzeQuery(r, e) \/ Route(r, e) \/ RefuseRetrieval(r, e) \/ MergeEvidence(r, e)
               \/ CheckEvidenceNode(r, e) \/ PlanFollowup(r, e) \/ GenerateLocally(r, e) \/ Verify(r, e)
        PROVE  UNCHANGED runVars
    BY <1>1 DEF Start, Put, Fenced, Exhausted, AnalyzeQuery, Route, RefuseRetrieval, MergeEvidence,
           CheckEvidenceNode, PlanFollowup, GenerateLocally, Verify, Local
  <1>2. CASE Bind(r, e)
    <2>1. /\ e \in DOMAIN leases[r] /\ NextCheckpoint(r, e) \in CheckpointId
          /\ BindCheckpoint(r, w, e, NextCheckpoint(r, e), f.state) /\ f.state \in GraphState
      BY <1>0, <1>2 DEF Bind, At, TablesFit
    <2> QED BY <2>1 DEF ServiceCall, Leased, Work
  <1>3. CASE Limit(r, e)
    <2>1. /\ e \in DOMAIN leases[r] /\ "completed_with_limits" \in Answered
          /\ PublishTerminalResult(r, w, e, "completed_with_limits")
      BY <1>3 DEF Limit, Publish, At, Answered
    <2> QED BY <2>1 DEF ServiceCall, Leased, Work
  <1>4. CASE Raise(r, e) \/ TimeOut(r, e)
    BY <1>4 DEF Raise, TimeOut, At, ServiceCall, Leased
  <1>5. CASE BeginRound(r, e)
    <2>1. PICK queries : BeginRetrievalRound(r, w, e, queries) /\ e \in DOMAIN leases[r]
      BY <1>5 DEF BeginRound, AtNode, At
    <2>2. queries \in 1..MaxQueries
      BY <2>1 DEF BeginRetrievalRound
    <2> QED BY <2>1, <2>2 DEF ServiceCall, Leased, Work
  <1>6. CASE SaveRetrieved(r, e) /\ RetrievedAccepted(f.turn)
    <2>1. /\ e \in DOMAIN leases[r] /\ SaveNodeArtifact(r, w, e, RetrievedArtifact(f.turn))
          /\ f.pc = "save" /\ f.state.next = "retrieve"
      BY <1>6 DEF SaveRetrieved, At
    <2>2. f.turn \in RetrievedTurn
      BY <2>1, Executions DEF Sound, Accepted
    <2>3. RetrievedArtifact(f.turn) \in Artifact
      BY <2>2 DEF RetrievedArtifact, HarnessArtifact, TablesFit
    <2> QED BY <2>1, <2>3 DEF ServiceCall, Leased, Work
  <1>7. CASE SaveVerified(r, e) /\ Publishable(f.turn)
    <2>1. /\ e \in DOMAIN leases[r] /\ SaveNodeArtifact(r, w, e, VerifiedArtifact(f.turn))
          /\ f.pc = "save" /\ f.state.next = "generate"
      BY <1>7 DEF SaveVerified, At
    <2>2. SafeResult(f.turn) \in PublishedResult
      BY <2>1, Executions DEF Sound, Earned
    <2>3. VerifiedArtifact(f.turn) \in Artifact
      BY <2>2 DEF VerifiedArtifact, HarnessArtifact, TablesFit
    <2> QED BY <2>1, <2>3 DEF ServiceCall, Leased, Work
  <1>8. CASE Emit(r, e) \/ BeginGeneration(r, e)
    BY <1>8 DEF Emit, BeginGeneration, AtNode, At, ServiceCall, Leased
  <1>9. CASE PersistResult(r, e)
    <2>1. PICK status \in Answered : PublishTerminalResult(r, w, e, status) /\ e \in DOMAIN leases[r]
      <3>1. f.state.status \in Answered \cup {None} /\ "succeeded" \in Answered
        BY <1>0, HarnessStates DEF Answered
      <3> QED BY <1>9, <3>1 DEF PersistResult, Publish, AtNode, At
    <2> QED BY <2>1 DEF ServiceCall, Leased, Work
  <1>10. CASE Reserve(r, e)
    <2>1. /\ e \in DOMAIN leases[r] /\ ReserveAttempt(r, w, e, f.op) /\ f.pc = "reserve"
          /\ e = runs[r].epoch
      BY <1>10 DEF Reserve, At, ReserveAttempt, WorkerLease
    <2>2. f.op \in Operation
      BY <2>1, OperationIsKnown, OperationsAreKnown DEF Calls
    <2> QED BY <2>1, <2>2 DEF ServiceCall, Leased, Work
  <1>11. CASE Dispatch(r, e)
    <2>1. e \in DOMAIN leases[r] /\ MarkAttemptDispatched(r, f.n, w, e) /\ f.n \in DOMAIN attempts[r]
      BY <1>11 DEF Dispatch, At, MarkAttemptDispatched
    <2> QED BY <2>1 DEF ServiceCall, Leased, Work
  <1>12. ASSUME NEW status \in {"succeeded", "failed", "outcome_unknown"}, CameBack(r, e, status),
                At(r, e, "call")
         PROVE  ServiceCall(r, e)
    <2>1. e \in DOMAIN leases[r] /\ FinishAttempt(r, f.n, w, e, status) /\ f.n \in DOMAIN attempts[r]
      BY <1>12 DEF CameBack, At, FinishAttempt
    <2> QED BY <2>1 DEF ServiceCall, Leased, Work
  <1>13. CASE External(r, e)
    <2>1. ASSUME NEW status \in {"failed", "outcome_unknown"}, NEW retryable,
                 CallFailed(r, e, status, retryable)
          PROVE  ServiceCall(r, e)
      BY <1>12, <2>1 DEF CallFailed
    <2>2. ASSUME \/ \E more \in SUBSET Chunk : SearchAnswered(r, e, more)
                 \/ PlannerAnswered(r, e)
                 \/ \E raw \in Raw \cup {Nothing} : GeneratorAnswered(r, e, raw)
          PROVE  ServiceCall(r, e)
      <3>1. CameBack(r, e, "succeeded") /\ At(r, e, "call")
        BY <2>2 DEF SearchAnswered, PlannerAnswered, GeneratorAnswered, Calling
      <3> QED BY <1>12, <3>1
    <2> QED BY <1>10, <1>11, <1>13, <2>1, <2>2 DEF External
  <1>14. ASSUME \/ SaveRetrieved(r, e) /\ ~RetrievedAccepted(f.turn)
                \/ SaveVerified(r, e) /\ ~Publishable(f.turn)
         PROVE  UNCHANGED runVars
    BY <1>14 DEF SaveRetrieved, SaveVerified
  <1>15. CASE Node(r, e)
    BY <1>1, <1>5, <1>6, <1>7, <1>8, <1>9, <1>14, <1>15 DEF Node
  <1> QED BY <1>1, <1>2, <1>3, <1>4, <1>13, <1>15 DEF GraphStep

(* An execution writes its own frame, and at most the result of its run.    *)
LEMMA ExecutionWrites ==
  ASSUME HarnessInv, NEW r \in Run, NEW e \in 1..MaxEpoch, GraphStep(r, e)
  PROVE  /\ UNCHANGED frame \/ \E g : Become(r, e, g)
         /\ \/ UNCHANGED published
            \/ \E result \in PublishedResult : published' = [published EXCEPT ![r] = result]
         /\ UNCHANGED published \/ Limit(r, e) \/ PersistResult(r, e)
  <1>1. ASSUME NEW next, NEW state, Complete(r, e, next, state) PROVE \E g : Become(r, e, g)
    BY <1>1 DEF Complete
  <1>2. ASSUME NEW op, NEW found, Invoke(r, e, op, found) PROVE \E g : Become(r, e, g)
    BY <1>2 DEF Invoke
  <1>3. ASSUME NEW pc, Proceed(r, e, pc) PROVE \E g : Become(r, e, g)
    BY <1>3 DEF Proceed
  <1>4. ASSUME End(r, e) PROVE \E g : Become(r, e, g)
    BY <1>4 DEF End
  <1>5. ASSUME NEW turn, NEW status, Verified(r, e, turn, status) PROVE \E g : Become(r, e, g)
    BY <1>5 DEF Verified
  <1>6. ASSUME NEW queries, Plan(r, e, queries) PROVE \E g : Become(r, e, g)
    BY <1>1, <1>6 DEF Plan
  <1>7. CASE \/ Start(r, e) \/ Put(r, e) \/ Bind(r, e) \/ Fenced(r, e) \/ Exhausted(r, e)
             \/ Raise(r, e) \/ TimeOut(r, e)
    BY <1>3, <1>4, <1>7 DEF Start, Put, Bind, Fenced, Exhausted, Raise, TimeOut, Local
  <1>8. CASE Limit(r, e)
    BY <1>4, <1>8, LimitedIsPublished DEF Limit, Publish
  <1>9. CASE PersistResult(r, e)
    BY <1>1, <1>9, ResultNode DEF PersistResult, Publish
  <1>10. CASE \/ AnalyzeQuery(r, e) \/ Route(r, e) \/ RefuseRetrieval(r, e) \/ BeginRound(r, e)
              \/ MergeEvidence(r, e) \/ CheckEvidenceNode(r, e) \/ BeginGeneration(r, e)
              \/ Emit(r, e) \/ Verify(r, e)
    BY <1>1, <1>2, <1>3, <1>10 DEF AnalyzeQuery, Route, RefuseRetrieval, BeginRound,
       MergeEvidence, CheckEvidenceNode, BeginGeneration, Emit, Verify, Local
  <1>11. CASE PlanFollowup(r, e) \/ GenerateLocally(r, e)
    BY <1>2, <1>5, <1>6, <1>11, Zenon DEF PlanFollowup, GenerateLocally, Local
  <1>12. CASE SaveRetrieved(r, e) \/ SaveVerified(r, e)
    BY <1>3, <1>12 DEF SaveRetrieved, SaveVerified
  <1>13. CASE External(r, e)
    <2>1. CASE Reserve(r, e) \/ Dispatch(r, e)
      BY <1>3, <2>1 DEF Reserve, Dispatch
    <2>2. ASSUME NEW status, NEW retryable, CallFailed(r, e, status, retryable)
          PROVE  UNCHANGED published /\ \E g : Become(r, e, g)
      BY <1>3, <2>2 DEF CallFailed, CameBack
    <2>3. ASSUME NEW more, SearchAnswered(r, e, more)
          PROVE  UNCHANGED published /\ \E g : Become(r, e, g)
      BY <1>2, <2>3 DEF SearchAnswered, CameBack
    <2>4. CASE PlannerAnswered(r, e)
      BY <1>3, <1>6, <2>4 DEF PlannerAnswered, CameBack
    <2>5. ASSUME NEW raw, GeneratorAnswered(r, e, raw)
          PROVE  UNCHANGED published /\ \E g : Become(r, e, g)
      BY <1>5, <2>5 DEF GeneratorAnswered, CameBack
    <2> QED BY <1>13, <2>1, <2>2, <2>3, <2>4, <2>5 DEF External
  <1> QED BY <1>7, <1>8, <1>9, <1>10, <1>11, <1>12, <1>13 DEF GraphStep, Node

(* A step of the harness is a step of the service, or none.                 *)
LEMMA HarnessStepsAreRunSteps ==
  ASSUME TablesFit, HarnessInv, [HarnessNext]_harnessVars
  PROVE  [RunNext]_runVars
  <1>1. CASE UNCHANGED harnessVars
    BY <1>1 DEF harnessVars, runVars
  <1>2. CASE Around
    <2>1. CASE \/ \E r \in Run, s \in Session, k \in Key, body \in Body : CreateRun(r, s, k, body, None)
               \/ \E r \in Run : CancelRun(r) \/ ResumeRun(r)
      BY <2>1 DEF RunNext, Own
    <2>2. CASE \E r \in Run : Tick(r) \/ PassDeadline(r)
      BY <2>2 DEF RunNext, Clock
    <2>3. CASE \/ \E r \in Run, w \in Worker : ClaimNextRun(r, w)
               \/ \E batch \in SUBSET Stale : RecoverStaleRuns(batch)
               \/ \E r \in Run : \E e \in DOMAIN leases[r] : HeartbeatRun(r, leases[r][e], e)
      BY <2>3 DEF RunNext, Serve, Leased
    <2> QED BY <1>2, <2>1, <2>2, <2>3 DEF Around
  <1>3. ASSUME NEW r \in Run, NEW e \in 1..MaxEpoch, GraphStep(r, e)
        PROVE  [RunNext]_runVars
    <2>1. UNCHANGED runVars \/ ServiceCall(r, e)
      BY <1>3, ExecutionsCall
    <2> QED BY <2>1 DEF ServiceCall, RunNext, Serve
  <1> QED BY <1>1, <1>2, <1>3 DEF HarnessNext

LEMMA OthersPass ==
  ASSUME TablesFit, HarnessInv, NEW r \in Run, NEW e \in 1..MaxEpoch, GraphStep(r, e),
         NEW q \in Run \ {r}
  PROVE  QuietStep(q)
  <1>1. CASE UNCHANGED runVars
    BY <1>1 DEF runVars, QuietStep, SameRow, SameWork, Untold
  <1>2. CASE ServiceCall(r, e)
    BY <1>2, LeasedStepsOnOne DEF ServiceCall, OnlyStepOf, HarnessInv
  <1> QED BY <1>1, <1>2, ExecutionsCall

(* The invariant is inductive.                                              *)
LEMMA HarnessIsInductive ==
  /\ HarnessInit => HarnessInv
  /\ TablesFit /\ HarnessInv /\ [HarnessNext]_harnessVars => HarnessInv'
  <1>1. ASSUME HarnessInit PROVE HarnessInv
    <2>1. Typed
      BY <1>1, TypedIsInductive DEF HarnessInit
    <2>2. NoFrame \in FrameRow /\ Idle(NoFrame)
      BY EndedFrames DEF Idle
    <2> HIDE DEF NoFrame
    <2>3. FramesTyped
      BY <1>1, <2>2 DEF HarnessInit, FramesTyped
    <2>4. ASSUME NEW r \in Run PROVE RunOK(r)
      <3>1. /\ runs[r] = NoRun /\ ledger[r].rounds = 0 /\ published[r] = None
            /\ \A e \in 1..MaxEpoch : frame[r][e] = NoFrame
        BY <1>1 DEF HarnessInit, RunInit, NoSpending
      <3>2. /\ runs[r].status = "absent" /\ runs[r].trusted = None /\ "absent" \notin Answered
        BY <3>1 DEF NoRun, Answered
      <3>3. Resumed(r) = NewState
        BY <3>2 DEF Resumed
      <3>4. StateOK(NewState, artifacts[r], 0)
        BY NewStates
      <3>5. NewState.rounds = 0 /\ NewState.last # "persist_result"
        BY NullIsNoState DEF NewState, NodeName
      <3>6. Trust(NewState, "absent", None, artifacts[r], 0)
        BY <3>2, <3>4, <3>5, LimitedIsPublished DEF Trust
      <3>7. ASSUME NEW e \in 1..MaxEpoch
            PROVE  Sound(NoFrame, artifacts[r], 0) /\ Follows(NoFrame, NewState, "absent", None, 0)
        BY <2>2, <3>2, IdleFrames
      <3> QED BY <3>1, <3>2, <3>3, <3>6, <3>7, RunLimits DEF RunOK
    <2> QED BY <2>1, <2>3, <2>4 DEF HarnessInv
  <1>2. ASSUME TablesFit, HarnessInv, [HarnessNext]_harnessVars PROVE HarnessInv'
    <2>1. Typed'
      BY <1>2, HarnessStepsAreRunSteps, TypedIsInductive DEF HarnessInv
    <2>2. CASE UNCHANGED harnessVars
      <3>1. frame' = frame /\ published' = published /\ \A r \in Run : QuietStep(r)
        BY <2>2 DEF harnessVars, QuietStep, SameRow, SameWork, Untold
      <3>2. ASSUME NEW r \in Run PROVE RunOK(r)'
        BY <1>2, <3>1, PassedBy DEF HarnessInv
      <3>3. FramesTyped'
        BY <1>2, <3>1 DEF HarnessInv, FramesTyped
      <3> QED BY <2>1, <3>2, <3>3 DEF HarnessInv
    <2>3. CASE Around
      <3>1. ASSUME NEW r \in Run PROVE RunOK(r)'
        BY <1>2, <2>3, AroundMoves, MovesAround DEF HarnessInv
      <3>2. FramesTyped'
        BY <1>2, <2>3 DEF HarnessInv, FramesTyped, Around
      <3> QED BY <2>1, <3>1, <3>2 DEF HarnessInv
    <2>4. ASSUME NEW r \in Run, NEW e \in 1..MaxEpoch, GraphStep(r, e) PROVE HarnessInv'
      <3>0. frame \in [Run -> [1..MaxEpoch -> FrameRow]]
              /\ published \in [Run -> PublishedResult \cup {None}]
        BY <1>2 DEF HarnessInv, FramesTyped
      <3>1. RunOK(r)'
        BY <1>2, <2>4, ExecutionKeeps
      <3>2. UNCHANGED frame \/ \E g : Become(r, e, g)
        BY <1>2, <2>4, ExecutionWrites
      <3>3. \/ UNCHANGED published
            \/ \E result \in PublishedResult : published' = [published EXCEPT ![r] = result]
        BY <1>2, <2>4, ExecutionWrites
      <3>4. ASSUME NEW q \in Run \ {r} PROVE RunOK(q)'
        <4>1. frame'[q] = frame[q] /\ published'[q] = published[q]
          BY <3>0, <3>2, <3>3 DEF Become
        <4> QED BY <1>2, <2>4, <4>1, OthersPass, PassedBy DEF HarnessInv
      <3>5. frame'[r][e] \in FrameRow
        BY <3>1 DEF RunOK, Sound
      <3>6. frame' \in [Run -> [1..MaxEpoch -> FrameRow]]
        <4>1. CASE UNCHANGED frame
          BY <3>0, <4>1
        <4>2. ASSUME NEW g, Become(r, e, g)
              PROVE  frame' \in [Run -> [1..MaxEpoch -> FrameRow]]
          <5>1. g = frame'[r][e]
            BY <3>0, <4>2 DEF Become
          <5>2. g \in FrameRow
            BY <3>5, <5>1
          <5> HIDE DEF FrameRow
          <5> QED BY <3>0, <4>2, <5>2 DEF Become
        <4> QED BY <3>2, <4>1, <4>2
      <3>7. published' \in [Run -> PublishedResult \cup {None}]
        BY <3>0, <3>3
      <3> QED BY <2>1, <3>1, <3>4, <3>6, <3>7 DEF HarnessInv, FramesTyped
    <2> QED BY <1>2, <2>2, <2>3, <2>4 DEF HarnessNext
  <1> QED BY <1>1, <1>2

-----------------------------------------------------------------------------
(* What is published *)

LEMMA HarnessRuns ==
  ASSUME TablesFit
  PROVE  HarnessSpec => []HarnessInv
  BY HarnessIsInductive, PTL DEF HarnessSpec

(* A run under the graph is a run of the service: whatever its executions   *)
(* call, in which order and from whichever lease, each call is one that     *)
(* RunService allows, so that every theorem about RunSpec holds here        *)
(* (harness/graph.py: execute_claimed; harness/nodes.py).                   *)
THEOREM HarnessedRunsAreRuns ==
  ASSUME TablesFit
  PROVE  HarnessSpec => RunSpec
  <1>1. HarnessInit => RunInit
    BY DEF HarnessInit
  <1>2. HarnessInv /\ [HarnessNext]_harnessVars => [RunNext]_runVars
    BY HarnessStepsAreRunSteps
  <1> QED BY <1>1, <1>2, HarnessRuns, PTL DEF HarnessSpec, RunSpec

LEMMA TrustedIsEarned ==
  ASSUME HarnessInv, NEW r \in Run,
         NEW result, result = published[r], result # None, result # LimitedResult
  PROVE  LET T == Resumed(r) IN
         /\ <<"verified_result", result>> = T.verified
         /\ Worthy(result, Retrieved(T))
         /\ runs[r].status = "succeeded" =>
              Retrieved(T).check # Nothing /\ Retrieved(T).check.sufficient
  <1> DEFINE T == Resumed(r)
  <1>1. /\ Trust(T, runs[r].status, published[r], artifacts[r], ledger[r].rounds)
    BY DEF HarnessInv, RunOK
  <1> HIDE DEF T
  <1>2. /\ T \in HarnessState /\ Coherent(T)
        /\ T.verified # None /\ result = Safe(T) /\ runs[r].status = T.status
    BY <1>1 DEF Trust, StateOK
  <1>3. T.verified = <<"verified_result", result>>
    BY <1>2, HarnessStates
  <1>4. T.last \in Late /\ Worthy(result, Retrieved(T))
    BY <1>2 DEF Coherent
  <1>5. runs[r].status = "succeeded" =>
          Retrieved(T).check # Nothing /\ Retrieved(T).check.sufficient
    BY <1>2, <1>4 DEF Coherent
  <1> QED BY <1>3, <1>4, <1>5 DEF T

LEMMA InvariantEarns ==
  ASSUME HarnessInv
  PROVE  AnswersAreEarned
  <1> SUFFICES ASSUME NEW r \in Run
               PROVE  LET result == published[r]
                          state == Trusted(r)
                      IN
                      /\ Loadable(r, state)
                      /\ result # None <=> runs[r].status \in Answered
                      /\ result = LimitedResult => runs[r].status = "completed_with_limits"
                      /\ result # None /\ result # LimitedResult =>
                           LET turn == Retrieved(state) IN
                           /\ <<"verified_result", result>> = state.verified
                           /\ result.sources = Cardinality(turn.results)
                           /\ result.cited \subseteq 1..result.sources
                           /\ result.mode = "evidence_answer" <=> result.text = "own"
                           /\ result.text = "own" => result.cited # {} /\ turn.check.sufficient
                           /\ runs[r].status = "succeeded" =>
                                turn.check # Nothing /\ turn.check.sufficient
                           /\ turn.terminal # Nothing => result.mode = turn.terminal.mode
                      /\ \A e \in 1..MaxEpoch :
                           LET f == frame[r][e] IN
                           /\ f.pc # "refused"
                           /\ f.pc = "save" /\ f.state.next = "generate" =>
                                GeneratedAccepted(f.turn.generated) /\ VerifiedAccepted(f.turn)
    BY DEF AnswersAreEarned
  <1> DEFINE T == Resumed(r)
             result == published[r]
  <1>1. Trust(T, runs[r].status, result, artifacts[r], ledger[r].rounds)
    BY DEF HarnessInv, RunOK
  <1>2. Loadable(r, T)
    BY <1>1 DEF Trust, StateOK, Backed, Loadable
  <1>3. /\ result # None <=> runs[r].status \in Answered
        /\ result = LimitedResult => runs[r].status = "completed_with_limits"
    BY <1>1 DEF Trust
  <1>4. ASSUME result # None, result # LimitedResult
        PROVE  /\ <<"verified_result", result>> = T.verified
               /\ Worthy(result, Retrieved(T))
               /\ runs[r].status = "succeeded" =>
                    Retrieved(T).check # Nothing /\ Retrieved(T).check.sufficient
    BY <1>4, TrustedIsEarned
  <1>5. ASSUME NEW e \in 1..MaxEpoch
        PROVE  LET f == frame[r][e] IN
               /\ f.pc # "refused"
               /\ f.pc = "save" /\ f.state.next = "generate" =>
                    GeneratedAccepted(f.turn.generated) /\ VerifiedAccepted(f.turn)
    <2>1. frame[r][e].pc \in Pc /\ Sound(frame[r][e], artifacts[r], ledger[r].rounds)
      BY Executions DEF FrameRow
    <2> QED BY <2>1 DEF Pc, Calls, Sound, Earned
  <1> QED BY <1>2, <1>3, <1>4, <1>5 DEF Trusted, Worthy

(* What is published has been earned, by whichever lease, whatever crashes  *)
(* and whatever threads outlive their lease (harness/nodes.py: generate,    *)
(* persist_result; chat/verification.py).                                   *)
THEOREM PublishedAnswersAreEarned ==
  ASSUME TablesFit
  PROVE  HarnessSpec => []AnswersAreEarned
  BY HarnessRuns, InvariantEarns, PTL

-----------------------------------------------------------------------------
(* The walk through the graph *)

(* Only a binding moves the trusted state. *)
LEMMA OnlyBindingsMove ==
  ASSUME HarnessInv, NEW r \in Run, NEW e \in 1..MaxEpoch, GraphStep(r, e), ~Bind(r, e)
  PROVE  Resumed(r)' = Resumed(r)
  <1>0. runs \in [Run -> RunRow]
    BY DEF HarnessInv, Typed, RunTypeOK
  <1>1. ASSUME checkpoints'[r] = checkpoints[r], runs'[r].trusted = runs[r].trusted
        PROVE  Resumed(r)' = Resumed(r)
    BY <1>1 DEF Resumed
  <1>2. ASSUME Local PROVE Resumed(r)' = Resumed(r)
    BY <1>1, <1>2 DEF Local, runVars
  <1>3. CASE Start(r, e) \/ Put(r, e) \/ Fenced(r, e) \/ Exhausted(r, e)
    BY <1>2, <1>3 DEF Start, Put, Fenced, Exhausted
  <1>4. CASE Limit(r, e) \/ PersistResult(r, e)
    <2>1. PICK status, result : Publish(r, e, status, result)
      BY <1>4 DEF Limit, PersistResult
    <2>2. SameLedger(r) /\ runs'[r].trusted = runs[r].trusted
      BY <2>1, PublishedRows
    <2> QED BY <1>1, <2>2 DEF SameLedger
  <1>5. CASE Raise(r, e) \/ TimeOut(r, e)
    <2>1. FailRun(r, leases[r][e], e)
      BY <1>5 DEF Raise, TimeOut
    <2>2. checkpoints' = checkpoints /\ runs'[r] = Released(r, "failed")
      BY <1>0, <2>1 DEF FailRun, Transition
    <2>3. runs'[r].trusted = runs[r].trusted
      BY <1>0, <2>2 DEF Released, RunRow
    <2> QED BY <1>1, <2>2, <2>3
  <1>6. CASE \/ AnalyzeQuery(r, e) \/ Route(r, e) \/ RefuseRetrieval(r, e) \/ MergeEvidence(r, e)
             \/ CheckEvidenceNode(r, e) \/ PlanFollowup(r, e) \/ GenerateLocally(r, e) \/ Verify(r, e)
    BY <1>2, <1>6 DEF AnalyzeQuery, Route, RefuseRetrieval, MergeEvidence, CheckEvidenceNode,
       PlanFollowup, GenerateLocally, Verify
  <1>7. CASE \/ BeginRound(r, e) \/ SaveRetrieved(r, e) \/ SaveVerified(r, e)
             \/ BeginGeneration(r, e) \/ Emit(r, e) \/ Reserve(r, e) \/ Dispatch(r, e)
    <2>1. UNCHANGED <<runs, checkpoints>>
      BY <1>7 DEF BeginRound, BeginRetrievalRound, SaveRetrieved, SaveVerified, SaveNodeArtifact,
         BeginGeneration, Emit, AppendStageEvent, Reserve, ReserveAttempt, Dispatch,
         MarkAttemptDispatched, runVars
    <2> QED BY <1>1, <2>1
  <1>8. ASSUME NEW status, CameBack(r, e, status) PROVE Resumed(r)' = Resumed(r)
    BY <1>1, <1>8 DEF CameBack, FinishAttempt
  <1>9. CASE External(r, e)
    <2>1. ASSUME NEW status, NEW retryable, CallFailed(r, e, status, retryable)
          PROVE  Resumed(r)' = Resumed(r)
      BY <1>8, <2>1 DEF CallFailed
    <2>2. ASSUME \/ \E more \in SUBSET Chunk : SearchAnswered(r, e, more)
                 \/ PlannerAnswered(r, e)
                 \/ \E raw \in Raw \cup {Nothing} : GeneratorAnswered(r, e, raw)
          PROVE  Resumed(r)' = Resumed(r)
      BY <1>8, <2>2 DEF SearchAnswered, PlannerAnswered, GeneratorAnswered
    <2> QED BY <1>7, <1>9, <2>1, <2>2 DEF External
  <1> QED BY <1>3, <1>4, <1>5, <1>6, <1>7, <1>9 DEF GraphStep, Node

(* Where the trusted state and the answer stay, the run may only close.     *)
StaysThere(r) == Resumed(r)' = Resumed(r) /\ published'[r] = published[r]

(* A binding is a step of the walk. *)
WalksOn(r) ==
  LET T == Resumed(r) IN
  /\ published'[r] = published[r] /\ runs'[r].status = runs[r].status
  /\ \E S \in HarnessState :
       /\ Resumed(r)' = S
       /\ S.last \in Successors[T.last] /\ T.rounds <= S.rounds /\ S.rounds <= MaxRounds
       /\ \/ /\ runs[r].status \notin Terminal /\ S.last # "persist_result"
             /\ IF S.last = "generate" THEN S.verified # None ELSE S.verified = T.verified
             /\ S.last = "retrieve" /\ T.last # "route" => T.rounds < S.rounds
          \/ /\ runs[r].status \in Terminal /\ S.last = "persist_result"
             /\ T.verified = <<"verified_result", published[r]>> /\ published[r] # None
             /\ S.rounds = T.rounds /\ S.verified = T.verified /\ T.verified # None

(* The draft of the trusted state is published, or the limit. *)
AnswersNow(r) ==
  LET T == Resumed(r) IN
  /\ Resumed(r)' = T /\ runs[r].status \notin Terminal /\ runs'[r].status \in Terminal
  /\ published[r] = None
  /\ \/ published'[r] = LimitedResult
     \/ /\ T.last = "verify" /\ published'[r] # None
        /\ T.verified = <<"verified_result", published'[r]>>

LEMMA BindingsWalk ==
  ASSUME HarnessInv, NEW r \in Run, NEW e \in 1..MaxEpoch, Bind(r, e)
  PROVE  StaysThere(r) \/ WalksOn(r)
  <1> DEFINE f == frame[r][e]
             S == f.state
             T == Resumed(r)
             paid == ledger[r].rounds
  <1>1. /\ e = runs[r].epoch /\ f.pc = "bind" /\ Resumed(r)' = S
        /\ runs'[r].status = runs[r].status /\ UNCHANGED published
    BY BoundStates
  <1>2. /\ Sound(f, artifacts[r], paid) /\ paid \in Nat /\ S \in HarnessState
        /\ Trust(T, runs[r].status, published[r], artifacts[r], paid)
        /\ Follows(f, T, runs[r].status, published[r], paid)
    BY <1>1, Executions
  <1> SUFFICES ASSUME S # T PROVE WalksOn(r)
    BY <1>1 DEF StaysThere
  <1>3. runs[r].status \in Answered \cup {"running"}
    BY DEF Bind, BindCheckpoint, LeaseOrPublished, WorkerLease
  <1> HIDE DEF T, S, f, paid
  <1>4. /\ Steps(T, S) /\ StateOK(S, artifacts[r], paid) /\ Coherent(S)
        /\ StateOK(T, artifacts[r], paid) /\ Coherent(T) /\ T \in HarnessState
        /\ S.last = "persist_result" => runs[r].status \in Answered /\ published[r] = Safe(S)
        /\ runs[r].status \in Answered => S.last = "persist_result"
        /\ T.next # "retrieve" => T.rounds = paid
    BY <1>1, <1>2 DEF Sound, StateOK, Follows, Trust, S, f
  <1>5. S.last = T.next /\ S.last \in Successors[T.last] /\ T.rounds <= S.rounds
          /\ S.rounds <= MaxRounds /\ S.rounds <= paid /\ S.rounds \in Nat /\ T.rounds \in Nat
    BY <1>2, <1>4, HarnessStates DEF Steps, Coherent, StateOK, Backed
  <1>6. CASE S.last # "persist_result"
    <2>1. runs[r].status \notin Terminal
      BY <1>3, <1>4, <1>6 DEF Terminal
    <2>2. IF S.last = "generate" THEN S.verified # None ELSE S.verified = T.verified
      BY <1>4 DEF Steps, Coherent, Late
    <2>3. S.last = "retrieve" /\ T.last # "route" => T.rounds < S.rounds
      BY <1>4 DEF Steps
    <2> QED BY <1>1, <1>2, <1>5, <1>6, <2>1, <2>2, <2>3 DEF WalksOn, T
  <1>7. CASE S.last = "persist_result"
    <2>1. runs[r].status \in Terminal /\ published[r] = Safe(S)
      BY <1>4, <1>7 DEF Terminal
    <2>2. S.verified # None /\ S.verified = T.verified
      BY <1>4, <1>7 DEF Coherent, Late, Steps
    <2>3. S.verified = <<"verified_result", published[r]>> /\ published[r] # None
      BY <1>2, <2>1, <2>2, HarnessStates, NullIsNoState
    <2>4. S.rounds = T.rounds
      BY <1>4, <1>5, <1>7
    <2> QED BY <1>1, <1>2, <1>5, <1>7, <2>1, <2>2, <2>3, <2>4 DEF WalksOn, T
  <1> QED BY <1>6, <1>7

LEMMA ResultsAnswer ==
  ASSUME HarnessInv, NEW r \in Run, NEW e \in 1..MaxEpoch, Limit(r, e) \/ PersistResult(r, e)
  PROVE  AnswersNow(r)
  <1> DEFINE T == Resumed(r)
             S == frame[r][e].state
  <1>1. ~Bind(r, e) /\ GraphStep(r, e)
    <2>1. frame[r][e].pc # "bind"
      BY DEF Limit, PersistResult, AtNode, At
    <2> QED BY <2>1 DEF Bind, At, GraphStep, Node
  <1>2. Resumed(r)' = T
    BY <1>1, OnlyBindingsMove
  <1>3. PICK status \in Answered :
          \/ Publish(r, e, status, LimitedResult)
          \/ PersistResult(r, e) /\ Publish(r, e, status, Safe(S))
    <2>1. CASE Limit(r, e)
      BY <2>1 DEF Limit, Answered
    <2>2. CASE PersistResult(r, e)
      <3>1. S.status \in Answered \cup {None} /\ "succeeded" \in Answered
        BY Executions, HarnessStates DEF Answered
      <3> QED BY <2>2, <3>1 DEF PersistResult
    <2> QED BY <2>1, <2>2
  <1>4. /\ e = runs[r].epoch /\ runs[r].status = "running" /\ runs'[r].status = status
        /\ \/ published'[r] = LimitedResult
           \/ PersistResult(r, e) /\ published'[r] = Safe(S)
    BY <1>3, PublishedRows
  <1>5. /\ Trust(T, runs[r].status, published[r], artifacts[r], ledger[r].rounds)
        /\ Follows(frame[r][e], T, runs[r].status, published[r], ledger[r].rounds)
    BY <1>4, Executions
  <1>6. published[r] = None
    BY <1>4, <1>5 DEF Trust, Answered
  <1>7. runs[r].status \notin Terminal /\ runs'[r].status \in Terminal
    BY <1>4 DEF Terminal, Answered
  <1>8. ASSUME PersistResult(r, e)
        PROVE  /\ T.last = "verify" /\ T.verified = <<"verified_result", Safe(S)>>
               /\ Safe(S) # None
    <2>1. S = T /\ T.next = "persist_result"
      BY <1>5, <1>8 DEF PersistResult, AtNode, At, Follows
    <2>2. T \in HarnessState /\ Coherent(T)
      BY <1>5 DEF Trust, StateOK
    <2> HIDE DEF T, S
    <2>3. T.last = "verify"
      BY <2>1, <2>2, HarnessStates, Nodes DEF Coherent
    <2>4. T.verified # None
      BY <2>2, <2>3 DEF Coherent, Late
    <2> QED BY <1>8, <2>1, <2>2, <2>3, <2>4, HarnessStates, NullIsNoState
  <1> QED BY <1>2, <1>4, <1>6, <1>7, <1>8 DEF AnswersNow

LEMMA StepsWalk ==
  ASSUME TablesFit, HarnessInv, [HarnessNext]_harnessVars, NEW r \in Run
  PROVE  StaysThere(r) \/ WalksOn(r) \/ AnswersNow(r)
  <1>1. CASE UNCHANGED harnessVars
    BY <1>1 DEF harnessVars, StaysThere, Resumed
  <1>2. CASE Around
    <2>1. MovedAround(r) /\ UNCHANGED <<frame, published>>
      BY <1>2, AroundMoves DEF HarnessInv
    <2> QED BY <2>1 DEF MovedAround, SameLedger, StaysThere, Resumed
  <1>3. ASSUME NEW q \in Run, NEW e \in 1..MaxEpoch, GraphStep(q, e)
        PROVE  StaysThere(r) \/ WalksOn(r) \/ AnswersNow(r)
    <2>0. published \in [Run -> PublishedResult \cup {None}]
      BY DEF HarnessInv, FramesTyped
    <2>1. CASE q # r
      <3>1. QuietStep(r)
        BY <1>3, <2>1, OthersPass
      <3>2. published'[r] = published[r]
        BY <1>3, <2>0, <2>1, ExecutionWrites
      <3> QED BY <3>1, <3>2 DEF QuietStep, SameRow, SameWork, StaysThere, Resumed
    <2>2. CASE q = r /\ Bind(r, e)
      BY <2>2, BindingsWalk
    <2>3. CASE q = r /\ (Limit(r, e) \/ PersistResult(r, e))
      BY <2>3, ResultsAnswer
    <2>4. CASE q = r /\ ~Bind(r, e) /\ ~(Limit(r, e) \/ PersistResult(r, e))
      <3>1. Resumed(r)' = Resumed(r)
        BY <1>3, <2>4, OnlyBindingsMove
      <3>2. published' = published
        BY <1>3, <2>4, ExecutionWrites
      <3> QED BY <3>1, <3>2 DEF StaysThere
    <2> QED BY <2>1, <2>2, <2>3, <2>4
  <1> QED BY <1>1, <1>2, <1>3 DEF HarnessNext

LEMMA WalkIsProgress ==
  ASSUME TablesFit, HarnessInv, [HarnessNext]_harnessVars, NEW r \in Run
  PROVE  [Progress(r)!Next]_(Progress(r)!progress)
  <1> DEFINE T == Resumed(r)
  <1>1. StaysThere(r) \/ WalksOn(r) \/ AnswersNow(r)
    BY StepsWalk
  <1>2. runs[r].status \in Terminal => runs'[r].status \in Terminal
    <2>1. EndsStay
      BY HarnessStepsAreRunSteps, RunSteps, StepsKeepEnds DEF HarnessInv
    <2> QED BY <2>1 DEF EndsStay
  <1>3. CASE StaysThere(r)
    <2>1. UNCHANGED <<Trusted(r).last, Trusted(r).rounds, Trusted(r).verified>>
      BY <1>3 DEF StaysThere, Trusted
    <2> QED BY <1>2, <1>3, <2>1 DEF Progress!Next, Progress!Close, Progress!progress, StaysThere
  <1>4. CASE WalksOn(r)
    <2>1. PICK S \in HarnessState :
            /\ Trusted(r)' = S /\ T = Trusted(r)
            /\ S.last \in Successors[T.last] /\ T.rounds <= S.rounds /\ S.rounds <= MaxRounds
            /\ \/ /\ runs[r].status \notin Terminal /\ S.last # "persist_result"
                  /\ IF S.last = "generate" THEN S.verified # None ELSE S.verified = T.verified
                  /\ S.last = "retrieve" /\ T.last # "route" => T.rounds < S.rounds
               \/ /\ runs[r].status \in Terminal /\ S.last = "persist_result"
                  /\ T.verified = <<"verified_result", published[r]>> /\ published[r] # None
                  /\ S.rounds = T.rounds /\ S.verified = T.verified /\ T.verified # None
      BY <1>4 DEF WalksOn, Trusted
    <2>2. published'[r] = published[r] /\ runs'[r].status = runs[r].status
      BY <1>4 DEF WalksOn
    <2>3. T.rounds \in Nat /\ S.rounds \in T.rounds..MaxRounds
      <3>1. T \in HarnessState
        BY DEF HarnessInv, RunOK, Trust, StateOK
      <3> QED BY <2>1, <3>1, HarnessStates, RunLimits
    <2> HIDE DEF T
    <2>4. CASE runs[r].status \notin Terminal
      <3>1. Progress(r)!Walk(S.last)
        BY <2>1, <2>2, <2>3, <2>4 DEF Progress!Walk
      <3> QED BY <2>1, <3>1 DEF Progress!Next
    <2>5. CASE runs[r].status \in Terminal
      <3>1. /\ S.last = "persist_result" /\ "persist_result" \in Successors[Trusted(r).last]
            /\ Trusted(r).verified = <<"verified_result", published[r]>> /\ published[r] # None
            /\ S.rounds = Trusted(r).rounds /\ S.verified = Trusted(r).verified
            /\ Trusted(r).verified # None
            /\ Trusted(r)' = S
        BY <2>1, <2>5
      <3>2. Progress(r)!Finish
        BY <2>2, <2>5, <3>1 DEF Progress!Finish
      <3> QED BY <3>2 DEF Progress!Next
    <2> QED BY <2>4, <2>5
  <1>5. CASE AnswersNow(r)
    <2>1. Progress(r)!Publish
      <3>1. /\ published[r] = None /\ published'[r] # None
            /\ runs[r].status \notin Terminal /\ runs'[r].status \in Terminal
            /\ Trusted(r)' = Trusted(r)
            /\ \/ published'[r] = LimitedResult
               \/ /\ Trusted(r).last = "verify"
                  /\ Trusted(r).verified = <<"verified_result", published'[r]>>
        BY <1>5, LimitedIsPublished DEF AnswersNow, Trusted
      <3> QED BY <3>1 DEF Progress!Publish
    <2> QED BY <2>1 DEF Progress!Next
  <1> QED BY <1>1, <1>3, <1>4, <1>5

(* The durable progress of a run is one walk through the graph, whatever    *)
(* leases it takes, crashes or threads that outlive their lease; what is    *)
(* published is the draft the walk ends with, or the limit, and only once   *)
(* (harness/graph.py: _SUCCESSORS, FencedPostgresSaver; run_service.py:     *)
(* bind_checkpoint, _publish_terminal_result).                              *)
THEOREM RunsWalkTheGraph ==
  ASSUME TablesFit
  PROVE  HarnessSpec => ImplementsProgress
  <1>1. HarnessInit => \A r \in Run : Progress(r)!Init
    <2> SUFFICES ASSUME HarnessInit, NEW r \in Run PROVE Progress(r)!Init
      OBVIOUS
    <2>1. runs[r] = NoRun /\ published[r] = None
      BY DEF HarnessInit, RunInit
    <2>2. Trusted(r) = NewState /\ runs[r].status \notin Terminal
      BY <2>1 DEF NoRun, Trusted, Resumed, Terminal, Answered
    <2> QED BY <2>1, <2>2 DEF NewState, Progress!Init
  <1>2. HarnessInv /\ [HarnessNext]_harnessVars =>
          [\A r \in Run : [Progress(r)!Next]_(Progress(r)!progress)]_harnessVars
    BY WalkIsProgress
  <1> QED BY <1>1, <1>2, HarnessRuns, PTL DEF HarnessSpec, ImplementsProgress

-----------------------------------------------------------------------------
(* The journal *)

Model(op) == op[1] # "search_laws"

(* A state is past what op was asked for. *)
Settles(S, op) ==
  \/ S.last \in Late
  \/ /\ op[1] = "plan_followup"
     /\ op[2] <= IF S.last = "plan_followup" THEN S.rounds + 1 ELSE S.rounds

(* An execution has had the answer to op. *)
Reached(f, op) ==
  \/ f.pc \in {"done", "limited", "raise"}
  \/ f.pc \in {"save", "emit"} /\ f.state.next = "generate"
  \/ f.pc \in {"put", "bind"} /\ Settles(f.state, op)

(* Where an attempt stands, given the latest execution and the trusted      *)
(* state: in flight, it is the one the execution is at; what was answered   *)
(* is behind it, and so is what may have been, or the execution repeats it. *)
Placed(f, T, status, epoch, n, attempt) ==
  /\ attempt.status = "reserved" =>
       f.pc \in {"limited", "done"} \/ (f.pc = "dispatch" /\ f.n = n)
  /\ attempt.status = "dispatched" =>
       f.pc \in {"limited", "done"} \/ (f.pc = "call" /\ f.n = n)
  /\ attempt.status = "succeeded" /\ Model(attempt.operation) =>
       \/ Settles(T, attempt.operation)
       \/ attempt.epoch = epoch /\ Reached(f, attempt.operation)
  /\ /\ attempt.status = "outcome_unknown" /\ status = "running"
     /\ f.pc \in Calls /\ Model(f.op) /\ attempt.operation[1] = f.op[1]
     => \/ attempt.epoch = epoch /\ attempt.operation = f.op
        \/ f.with.retry

Watched(f, T, status, epoch, journal) ==
  /\ \A n \in DOMAIN journal : Placed(f, T, status, epoch, n, journal[n])
  /\ f.pc \in {"dispatch", "call"} =>
       f.n \in DOMAIN journal /\ journal[f.n].operation = f.op /\ journal[f.n].epoch = epoch

(* A checkpoint is past the successes it was bound after. *)
Covers(rows, journal) ==
  \A c \in CheckpointKey : rows[c] # None =>
    \A n \in rows[c].after :
      /\ n \in DOMAIN journal
      /\ Model(journal[n].operation) => Settles(rows[c].state, journal[n].operation)

AsksOnce(r) ==
  /\ runs[r].status \in {"absent", "queued"} => runs[r].epoch = 0
  /\ runs[r].epoch = 0 => attempts[r] = <<>>
  /\ \A n \in DOMAIN attempts[r] : attempts[r][n].operation \in GraphOperation
  /\ Covers(checkpoints[r], attempts[r])
  /\ \A e \in 1..MaxEpoch : e = runs[r].epoch =>
       Watched(frame[r][e], Resumed(r), runs[r].status, runs[r].epoch, attempts[r])

(* The steps of an execution that leave its journal alone. *)
Calm(f, g) ==
  \/ g = f
  \/ g.pc \in {"limited", "done"}
  \/ f.pc \in {"none", "node", "generate"} /\ g.pc \notin {"dispatch", "call"}
  \/ f.pc = "put" /\ g.pc = "bind" /\ g.state = f.state
  \/ f.pc = "save" /\ g.pc = "emit" /\ g.state.next = f.state.next
  \/ f.pc = "emit" /\ g.pc = "put" /\ g.state.last = f.state.next

(* Nobody may have answered what g is about to ask, or it may be repeated.  *)
Unheard(g, journal) ==
  g.pc = "reserve" /\ Model(g.op) =>
    \A n \in DOMAIN journal :
      journal[n].status = "outcome_unknown" /\ journal[n].operation[1] = g.op[1] => g.with.retry

LEMMA ModelsOfOperations ==
  ASSUME NEW op \in GraphOperation
  PROVE  /\ Model(op) <=> KindOf[op] = "model"
         /\ Model(op) => op[1] = "plan_followup" \/ op = <<"generate_answer", 0, 0>>
         /\ op[1] = "plan_followup" => op[2] \in Nat
  BY OperationsAreKnown, RunLimits DEF GraphOperation, Model

LEMMA CalmKeepsWatch ==
  ASSUME NEW f, NEW g, NEW T, NEW status, NEW new, NEW epoch, NEW journal,
         Watched(f, T, status, epoch, journal), Calm(f, g),
         g = f \/ Unheard(g, journal), new = "running" => status = "running"
  PROVE  Watched(g, T, new, epoch, journal)
  <1>1. ASSUME NEW n \in DOMAIN journal
        PROVE  Placed(g, T, new, epoch, n, journal[n])
    <2> DEFINE a == journal[n]
    <2>1. Placed(f, T, status, epoch, n, a)
      BY DEF Watched
    <2>2. CASE g = f
      BY <2>1, <2>2 DEF Placed
    <2>3. CASE g.pc \in {"limited", "done"}
      BY <2>1, <2>3 DEF Placed, Reached, Calls
    <2>4. CASE /\ f.pc \in {"none", "node", "generate"} /\ g.pc \notin {"dispatch", "call"}
               /\ Unheard(g, journal)
      <3>1. a.status \notin {"reserved", "dispatched"}
        BY <2>1, <2>4 DEF Placed
      <3>2. a.status = "succeeded" /\ Model(a.operation) => Settles(T, a.operation)
        BY <2>1, <2>4 DEF Placed, Reached
      <3> QED BY <2>4, <3>1, <3>2 DEF Placed, Unheard, Calls
    <2>5. CASE \/ f.pc = "put" /\ g.pc = "bind" /\ g.state = f.state
               \/ f.pc = "save" /\ g.pc = "emit" /\ g.state.next = f.state.next
               \/ f.pc = "emit" /\ g.pc = "put" /\ g.state.last = f.state.next
      <3>1. a.status \notin {"reserved", "dispatched"} /\ g.pc \notin Calls
        BY <2>1, <2>5 DEF Placed, Calls
      <3>2. Reached(f, a.operation) => Reached(g, a.operation)
        BY <2>5 DEF Reached, Settles, Late
      <3> QED BY <2>1, <3>1, <3>2 DEF Placed
    <2> QED BY <2>2, <2>3, <2>4, <2>5 DEF Calm
  <1>2. g.pc \in {"dispatch", "call"} => g = f
    BY DEF Calm
  <1> QED BY <1>1, <1>2 DEF Watched

LEMMA ReservedIsWatched ==
  ASSUME NEW f, NEW g, NEW T, NEW status, NEW epoch, NEW journal \in Seq(AttemptRow),
         Watched(f, T, status, epoch, journal), f.pc = "reserve",
         g.pc = "dispatch", g.op = f.op, g.with = f.with, g.n = Len(journal) + 1,
         NEW new, new = [operation |-> f.op, epoch |-> epoch, status |-> "reserved"]
  PROVE  Watched(g, T, status, epoch, Append(journal, new))
  <1> DEFINE longer == Append(journal, new)
  <1>1. /\ DOMAIN longer = DOMAIN journal \cup {Len(journal) + 1}
        /\ longer[Len(journal) + 1] = new /\ \A n \in DOMAIN journal : longer[n] = journal[n]
    <2>1. longer \in Seq({new} \cup AttemptRow) /\ Len(longer) = Len(journal) + 1
      OBVIOUS
    <2>2. DOMAIN longer = 1..(Len(journal) + 1) /\ DOMAIN journal = 1..Len(journal)
            /\ Len(journal) \in Nat
      BY <2>1
    <2> QED BY <2>2
  <1> HIDE DEF longer
  <1>2. ASSUME NEW n \in DOMAIN longer PROVE Placed(g, T, status, epoch, n, longer[n])
    <2>1. CASE n = Len(journal) + 1
      <3>1. longer[n].status = "reserved"
        BY <1>1, <2>1
      <3> QED BY <2>1, <3>1 DEF Placed
    <2>2. CASE n \in DOMAIN journal
      <3>1. Placed(f, T, status, epoch, n, journal[n]) /\ longer[n] = journal[n]
        BY <1>1, <2>2 DEF Watched
      <3>2. ~Reached(f, longer[n].operation)
        BY DEF Reached
      <3> QED BY <3>1, <3>2 DEF Placed, Calls
    <2> QED BY <1>1, <2>1, <2>2
  <1>3. g.n \in DOMAIN longer /\ longer[g.n].operation = g.op /\ longer[g.n].epoch = epoch
    BY <1>1
  <1> QED BY <1>2, <1>3 DEF Watched, longer

(* One entry has another status. *)
Amended(journal, later, n, status) ==
  /\ DOMAIN later = DOMAIN journal
  /\ \A m \in DOMAIN journal \ {n} : later[m] = journal[m]
  /\ later[n].operation = journal[n].operation /\ later[n].epoch = journal[n].epoch
  /\ later[n].status = status

LEMMA AmendedAttempts ==
  ASSUME NEW r \in Run, Whole(r), NEW n \in DOMAIN attempts[r], NEW status, SetAttempt(r, n, status),
         attempts \in [Run -> Seq(AttemptRow)]
  PROVE  Amended(attempts[r], attempts'[r], n, status)
  <1>1. Rewritten(r, n, status)
    BY DEF SetAttempt, Rewritten
  <1>2. attempts[r] \in Seq(AttemptRow) /\ attempts[r][n] \in AttemptRow
    BY DEF Whole, TypedRun
  <1> QED BY <1>1, <1>2 DEF Rewritten, AttemptRow, Amended

LEMMA DispatchedIsWatched ==
  ASSUME NEW f, NEW g, NEW T, NEW status, NEW epoch, NEW journal \in Seq(AttemptRow),
         Watched(f, T, status, epoch, journal), f.pc = "dispatch",
         g.pc = "call", g.op = f.op, g.with = f.with, g.n = f.n,
         NEW later, Amended(journal, later, f.n, "dispatched")
  PROVE  Watched(g, T, status, epoch, later)
  <1>1. /\ DOMAIN later = DOMAIN journal /\ f.n \in DOMAIN journal
        /\ \A n \in DOMAIN journal \ {f.n} : later[n] = journal[n]
        /\ later[f.n].operation = f.op /\ later[f.n].epoch = epoch
        /\ later[f.n].status = "dispatched"
    BY DEF Watched, Amended
  <1>2. ASSUME NEW n \in DOMAIN later PROVE Placed(g, T, status, epoch, n, later[n])
    <2>1. CASE n = f.n
      BY <1>1, <2>1 DEF Placed
    <2>2. CASE n # f.n
      <3>1. Placed(f, T, status, epoch, n, journal[n]) /\ later[n] = journal[n]
        BY <1>1, <1>2, <2>2 DEF Watched
      <3>2. ~Reached(f, later[n].operation)
        BY DEF Reached
      <3> QED BY <2>2, <3>1, <3>2 DEF Placed, Calls
    <2> QED BY <2>1, <2>2
  <1> QED BY <1>1, <1>2 DEF Watched

(* The call came back. *)
LEMMA AnsweredIsWatched ==
  ASSUME NEW f, NEW g, NEW T, NEW epoch, NEW journal \in Seq(AttemptRow),
         Watched(f, T, "running", epoch, journal), f.pc = "call", f.op \in GraphOperation,
         g.pc \notin {"dispatch", "call"}, g.with = f.with,
         NEW status \in {"succeeded", "failed", "outcome_unknown"},
         g.pc = "reserve" =>
           g.op[1] = "search_laws" \/ (g.op = f.op /\ status # "succeeded"),
         status = "succeeded" /\ Model(f.op) => Reached(g, f.op),
         NEW later, Amended(journal, later, f.n, status)
  PROVE  Watched(g, T, "running", epoch, later)
  <1>1. /\ DOMAIN later = DOMAIN journal /\ f.n \in DOMAIN journal
        /\ \A n \in DOMAIN journal \ {f.n} : later[n] = journal[n]
        /\ later[f.n].operation = f.op /\ later[f.n].epoch = epoch
        /\ later[f.n].status = status
    BY DEF Watched, Amended
  <1>2. ASSUME NEW n \in DOMAIN later PROVE Placed(g, T, "running", epoch, n, later[n])
    <2>1. CASE n = f.n
      <3>1. g.pc \in Calls /\ Model(g.op) => g.op = f.op
        BY DEF Calls, Model
      <3> QED BY <1>1, <2>1, <3>1 DEF Placed
    <2>2. CASE n # f.n
      <3>1. Placed(f, T, "running", epoch, n, journal[n]) /\ later[n] = journal[n]
        BY <1>1, <1>2, <2>2 DEF Watched
      <3>2. ~Reached(f, later[n].operation)
        BY DEF Reached
      <3>3. later[n].status \notin {"reserved", "dispatched"}
        BY <2>2, <3>1 DEF Placed
      <3>4. g.pc \in Calls /\ Model(g.op) => g.op = f.op /\ f.pc \in Calls
        BY DEF Calls, Model
      <3> QED BY <3>1, <3>2, <3>3, <3>4 DEF Placed
    <2> QED BY <2>1, <2>2
  <1> QED BY <1>1, <1>2 DEF Watched

(* What the trusted state has settled stays settled. *)
LEMMA SettledStays ==
  ASSUME NEW T \in HarnessState, NEW S \in HarnessState, Coherent(T), Coherent(S),
         S = T \/ Steps(T, S), NEW op \in GraphOperation, Settles(T, op)
  PROVE  Settles(S, op)
  <1>1. CASE T.last \in Late /\ Steps(T, S)
    <2>1. S.last = T.next /\ T.next \in Successors[T.last]
      BY <1>1 DEF Steps, Coherent
    <2>2. S.last # None
      <3>1. (S.verified = T.verified /\ T.verified # None) \/ S.last = "generate"
        BY <1>1 DEF Steps, Coherent
      <3>2. S.last = None => S.verified = None
        BY NullIsNoState DEF Coherent, Late, NodeName
      <3> QED BY <3>1, <3>2, NullIsNoState DEF NodeName
    <2>3. S.last \in Late
      BY <1>1, <2>1, <2>2, HarnessStates, Nodes DEF Coherent, Late
    <2> QED BY <2>3 DEF Settles
  <1>2. CASE T.last \notin Late /\ Steps(T, S)
    <2>1. /\ op[1] = "plan_followup" /\ op[2] \in Nat /\ T.rounds \in Nat /\ S.rounds \in Nat
          /\ op[2] <= IF T.last = "plan_followup" THEN T.rounds + 1 ELSE T.rounds
      BY <1>2, ModelsOfOperations, HarnessStates DEF Settles
    <2>2. T.rounds <= S.rounds /\ S.last = T.next
      BY <1>2 DEF Steps
    <2>3. CASE T.last = "plan_followup"
      <3>1. S.last \in {"retrieve", "generate"}
        BY <2>2, <2>3 DEF Coherent, Successors, NodeName
      <3>2. S.last = "retrieve" => T.rounds < S.rounds
        BY <1>2, <2>3 DEF Steps
      <3> QED BY <2>1, <2>3, <3>1, <3>2 DEF Settles, Late
    <2>4. CASE T.last # "plan_followup"
      BY <2>1, <2>2, <2>4 DEF Settles
    <2> QED BY <2>3, <2>4
  <1> QED BY <1>1, <1>2

(* The state is bound, and what was answered is behind it.                  *)
LEMMA BoundIsPast ==
  ASSUME NEW f, NEW T \in HarnessState, NEW status, NEW epoch, NEW journal,
         Watched(f, T, status, epoch, journal), f.pc = "bind", f.state \in HarnessState,
         Coherent(T), Coherent(f.state), f.state = T \/ Steps(T, f.state),
         NEW n \in DOMAIN journal, journal[n].operation \in GraphOperation,
         journal[n].status = "succeeded", Model(journal[n].operation)
  PROVE  Settles(f.state, journal[n].operation)
  <1>1. Placed(f, T, status, epoch, n, journal[n])
    BY DEF Watched
  <1>2. CASE Settles(T, journal[n].operation)
    BY <1>2, SettledStays
  <1>3. CASE Reached(f, journal[n].operation)
    BY <1>3 DEF Reached
  <1> QED BY <1>1, <1>2, <1>3 DEF Placed

LEMMA BoundIsWatched ==
  ASSUME NEW f, NEW g, NEW T, NEW S, NEW status, NEW epoch, NEW journal,
         Watched(f, T, status, epoch, journal), f.pc = "bind", g.pc \in {"node", "done"},
         \A n \in DOMAIN journal :
           journal[n].status = "succeeded" /\ Model(journal[n].operation) =>
             Settles(S, journal[n].operation)
  PROVE  Watched(g, S, status, epoch, journal)
  <1>1. ASSUME NEW n \in DOMAIN journal PROVE Placed(g, S, status, epoch, n, journal[n])
    <2>1. Placed(f, T, status, epoch, n, journal[n])
      BY DEF Watched
    <2> QED BY <2>1 DEF Placed, Calls
  <1> QED BY <1>1 DEF Watched

(* A claim: nothing is in flight, and what counts as answered is behind the *)
(* trusted state.                                                           *)
LEMMA ClaimIsWatched ==
  ASSUME NEW f, NEW T, NEW old, NEW epoch, NEW before, NEW journal,
         Watched(f, T, old, before, journal),
         \A n \in DOMAIN journal :
           /\ journal[n].status \notin {"reserved", "dispatched"}
           /\ journal[n].status = "succeeded" /\ journal[n].epoch = before
                /\ Model(journal[n].operation) => Settles(T, journal[n].operation)
  PROVE  Watched(NoFrame, T, "running", epoch, journal)
  <1>0. NoFrame.pc = "none"
    BY DEF NoFrame
  <1> HIDE DEF NoFrame
  <1>1. ASSUME NEW n \in DOMAIN journal PROVE Placed(NoFrame, T, "running", epoch, n, journal[n])
    <2>1. Placed(f, T, old, before, n, journal[n])
      BY DEF Watched
    <2> QED BY <1>0, <2>1 DEF Placed, Calls
  <1> QED BY <1>0, <1>1 DEF Watched

(* Recovery writes statuses only, and brings none back into flight. *)
LEMMA RecoveredIsWatched ==
  ASSUME NEW f, NEW T, NEW old, NEW new, new # "running", NEW epoch, NEW journal, NEW later,
         Watched(f, T, old, epoch, journal), DOMAIN later = DOMAIN journal,
         \A n \in DOMAIN journal :
           /\ later[n].operation = journal[n].operation /\ later[n].epoch = journal[n].epoch
           /\ later[n].status = journal[n].status
                \/ later[n].status \in {"abandoned_before_dispatch", "outcome_unknown"}
  PROVE  Watched(f, T, new, epoch, later)
  <1>1. ASSUME NEW n \in DOMAIN later PROVE Placed(f, T, new, epoch, n, later[n])
    <2>1. Placed(f, T, old, epoch, n, journal[n])
      BY DEF Watched
    <2> QED BY <2>1 DEF Placed
  <1> QED BY <1>1 DEF Watched

LEMMA CoversStays ==
  ASSUME NEW rows, NEW journal, NEW later, Covers(rows, journal),
         DOMAIN journal \subseteq DOMAIN later,
         \A n \in DOMAIN journal : later[n].operation = journal[n].operation
  PROVE  Covers(rows, later)
  BY DEF Covers

(* The journal rests, and so does the trusted state. *)
LEMMA JournalRests ==
  ASSUME NEW r \in Run, AsksOnce(r), Resumed(r)' = Resumed(r), attempts'[r] = attempts[r],
         checkpoints'[r] = checkpoints[r], runs'[r].epoch = runs[r].epoch,
         runs'[r].status = "running" => runs[r].status = "running",
         runs'[r].status \in {"absent", "queued"} => runs[r].epoch = 0,
         \A e \in 1..MaxEpoch : e = runs[r].epoch =>
           /\ Calm(frame[r][e], frame'[r][e])
           /\ frame'[r][e] = frame[r][e] \/ Unheard(frame'[r][e], attempts[r])
  PROVE  AsksOnce(r)'
  <1>1. ASSUME NEW e \in 1..MaxEpoch, e = runs[r].epoch
        PROVE  Watched(frame'[r][e], Resumed(r), runs'[r].status, runs[r].epoch, attempts[r])
    <2>1. Watched(frame[r][e], Resumed(r), runs[r].status, runs[r].epoch, attempts[r])
      BY <1>1 DEF AsksOnce
    <2> QED BY <1>1, <2>1, CalmKeepsWatch
  <1> QED BY <1>1 DEF AsksOnce

-----------------------------------------------------------------------------
(* What the executions do to their frames *)

LEMMA FrameBecomes ==
  ASSUME HarnessInv, NEW r \in Run, NEW e \in 1..MaxEpoch, NEW g, Become(r, e, g)
  PROVE  /\ frame'[r][e] = g
         /\ \A d \in (1..MaxEpoch) \ {e} : frame'[r][d] = frame[r][d]
         /\ \A q \in Run \ {r} : frame'[q] = frame[q]
  <1>1. frame \in [Run -> [1..MaxEpoch -> FrameRow]]
    BY DEF HarnessInv, FramesTyped
  <1> HIDE DEF FrameRow
  <1> QED BY <1>1 DEF Become

LEMMA FrameProceeds ==
  ASSUME HarnessInv, NEW r \in Run, NEW e \in 1..MaxEpoch, NEW pc, Proceed(r, e, pc)
  PROVE  /\ frame'[r][e].pc = pc /\ frame'[r][e].state = frame[r][e].state
         /\ frame'[r][e].op = frame[r][e].op /\ frame'[r][e].n = frame[r][e].n
         /\ frame'[r][e].with = frame[r][e].with
  <1>1. frame'[r][e] = [frame[r][e] EXCEPT !.pc = pc]
    BY FrameBecomes DEF Proceed
  <1> QED BY <1>1, Executions DEF FrameRow

LEMMA FrameEnds ==
  ASSUME HarnessInv, NEW r \in Run, NEW e \in 1..MaxEpoch, End(r, e)
  PROVE  frame'[r][e].pc = "done"
  <1>1. frame'[r][e] = [NoFrame EXCEPT !.pc = "done", !.with = frame[r][e].with]
    BY FrameBecomes DEF End
  <1> QED BY <1>1 DEF NoFrame

LEMMA FrameCompletes ==
  ASSUME HarnessInv, NEW r \in Run, NEW e \in 1..MaxEpoch, NEW next, NEW state, Complete(r, e, next, state)
  PROVE  /\ frame'[r][e].pc = "put" /\ frame'[r][e].with = frame[r][e].with
         /\ state \in HarnessState =>
              /\ frame'[r][e].state.last = state.next
              /\ frame'[r][e].state.rounds = state.rounds
  <1>1. frame'[r][e] = [NoFrame EXCEPT !.pc = "put", !.with = frame[r][e].with,
                          !.state = [state EXCEPT !.last = state.next, !.next = next]]
    BY FrameBecomes DEF Complete
  <1>2. /\ frame'[r][e].pc = "put" /\ frame'[r][e].with = frame[r][e].with
        /\ frame'[r][e].state = [state EXCEPT !.last = state.next, !.next = next]
    BY <1>1 DEF NoFrame
  <1> QED BY <1>2 DEF HarnessState

LEMMA FrameInvokes ==
  ASSUME HarnessInv, NEW r \in Run, NEW e \in 1..MaxEpoch, NEW op, NEW found, Invoke(r, e, op, found)
  PROVE  /\ frame'[r][e].pc = "reserve" /\ frame'[r][e].with = frame[r][e].with
         /\ frame'[r][e].op = op /\ frame'[r][e].state = frame[r][e].state
  <1>1. frame'[r][e] = [frame[r][e] EXCEPT !.pc = "reserve", !.op = op, !.n = 0, !.tries = 0,
                                           !.found = found]
    BY FrameBecomes DEF Invoke
  <1> QED BY <1>1, Executions DEF FrameRow

LEMMA FrameVerified ==
  ASSUME HarnessInv, NEW r \in Run, NEW e \in 1..MaxEpoch, NEW turn, NEW status,
         Verified(r, e, turn, status)
  PROVE  /\ frame'[r][e].pc = "save" /\ frame'[r][e].with = frame[r][e].with
         /\ frame'[r][e].state.next = frame[r][e].state.next
  <1> DEFINE f == frame[r][e]
             S == [f.state EXCEPT !.status = status]
  <1>1. frame'[r][e] = [f EXCEPT !.pc = "save", !.op = None, !.n = 0, !.tries = 0,
                                 !.turn = VerifyTurn(turn), !.state = S]
    <2>1. Become(r, e, [f EXCEPT !.pc = "save", !.op = None, !.n = 0, !.tries = 0,
                                 !.turn = VerifyTurn(turn), !.state = S])
      BY DEF Verified
    <2> HIDE DEF f, S
    <2> QED BY <2>1, FrameBecomes
  <1>2. f \in FrameRow /\ f.state \in HarnessState
    BY Executions
  <1>3. S.next = f.state.next
    BY <1>2 DEF HarnessState
  <1> HIDE DEF f, S
  <1> QED BY <1>1, <1>2, <1>3 DEF FrameRow, f

-----------------------------------------------------------------------------
(* The steps that let the journal rest *)

Resting(r) ==
  /\ attempts'[r] = attempts[r] /\ checkpoints'[r] = checkpoints[r]
  /\ runs'[r].epoch = runs[r].epoch /\ runs'[r].status \in Terminal \cup {runs[r].status}

Calmly(r, e) ==
  /\ Calm(frame[r][e], frame'[r][e])
  /\ frame'[r][e] = frame[r][e] \/ Unheard(frame'[r][e], attempts[r])

LEMMA CalmSteps ==
  ASSUME NEW r, NEW e,
         \/ frame'[r][e].pc \in {"limited", "done"}
         \/ /\ frame[r][e].pc \in {"none", "node", "generate"}
            /\ frame'[r][e].pc \notin {"dispatch", "call"}
            /\ frame'[r][e].pc = "reserve" => Unheard(frame'[r][e], attempts[r])
  PROVE  Calmly(r, e)
  BY DEF Calmly, Calm, Unheard

LEMMA LocalRests ==
  ASSUME Local, NEW r \in Run PROVE Resting(r)
  BY DEF Local, runVars, Resting

LEMMA PassingRests ==
  ASSUME HarnessInv, NEW r \in Run, NEW e \in 1..MaxEpoch,
         \/ Start(r, e) \/ Put(r, e) \/ Fenced(r, e) \/ Exhausted(r, e)
         \/ AnalyzeQuery(r, e) \/ Route(r, e) \/ MergeEvidence(r, e) \/ CheckEvidenceNode(r, e)
         \/ Verify(r, e) \/ RefuseRetrieval(r, e)
  PROVE  Resting(r) /\ Calmly(r, e)
  <1>1. Resting(r)
    BY LocalRests DEF Start, Put, Fenced, Exhausted, AnalyzeQuery, Route, MergeEvidence,
       CheckEvidenceNode, Verify, RefuseRetrieval
  <1>2. CASE Start(r, e)
    <2>1. frame[r][e].pc = "none"
      BY <1>2 DEF Start, At
    <2>2. PICK pc \in {"put", "limited"}, with \in Settings :
            Become(r, e, [NoFrame EXCEPT !.pc = pc, !.with = with, !.state = Resumed(r)])
      BY <1>2 DEF Start
    <2>3. frame'[r][e] = [NoFrame EXCEPT !.pc = pc, !.with = with, !.state = Resumed(r)]
      BY <2>2, FrameBecomes
    <2>4. frame'[r][e].pc = pc
      BY <2>3 DEF NoFrame
    <2> QED BY <1>1, <2>1, <2>4, CalmSteps
  <1>3. CASE Put(r, e)
    <2>1. /\ frame[r][e].pc = "put" /\ frame'[r][e].pc = "bind"
          /\ frame'[r][e].state = frame[r][e].state
      BY <1>3, FrameProceeds DEF Put, At
    <2> QED BY <1>1, <2>1 DEF Calmly, Calm, Unheard
  <1>4. CASE Fenced(r, e)
    BY <1>1, <1>4, FrameEnds, CalmSteps DEF Fenced
  <1>5. CASE Exhausted(r, e)
    BY <1>1, <1>5, FrameProceeds, CalmSteps DEF Exhausted
  <1>6. ASSUME NEW next, NEW state, Complete(r, e, next, state), frame[r][e].pc = "node"
        PROVE  Calmly(r, e)
    BY <1>6, FrameCompletes, CalmSteps
  <1>7. CASE \/ AnalyzeQuery(r, e) \/ Route(r, e) \/ MergeEvidence(r, e) \/ CheckEvidenceNode(r, e)
             \/ Verify(r, e)
    BY <1>1, <1>6, <1>7 DEF AnalyzeQuery, Route, MergeEvidence, CheckEvidenceNode, Verify, AtNode, At
  <1>8. CASE RefuseRetrieval(r, e)
    <2> DEFINE g == [frame[r][e] EXCEPT !.pc = "save", !.turn = RetrieveTurn(TRUE, {}, {}, FALSE, 0)]
    <2>1. frame[r][e].pc = "node" /\ Become(r, e, g)
      BY <1>8 DEF RefuseRetrieval, AtNode, At
    <2>2. g.pc = "save"
      BY Executions DEF FrameRow
    <2> HIDE DEF g
    <2> QED BY <1>1, <2>1, <2>2, FrameBecomes, CalmSteps
  <1> QED BY <1>2, <1>3, <1>4, <1>5, <1>7, <1>8

LEMMA EndingRests ==
  ASSUME HarnessInv, NEW r \in Run, NEW e \in 1..MaxEpoch,
         Limit(r, e) \/ Raise(r, e) \/ TimeOut(r, e) \/ PersistResult(r, e)
  PROVE  Resting(r) /\ Calmly(r, e)
  <1>1. CASE Limit(r, e) \/ PersistResult(r, e)
    <2>1. PICK status, result : status \in Answered /\ Publish(r, e, status, result)
      <3>1. frame[r][e].state.status \in Answered \cup {None} /\ "succeeded" \in Answered
              /\ "completed_with_limits" \in Answered
        BY Executions, HarnessStates DEF Answered
      <3>2. CASE Limit(r, e)
        BY <3>1, <3>2 DEF Limit
      <3>3. CASE PersistResult(r, e)
        <4> DEFINE state == frame[r][e].state
        <4>1. /\ (IF state.status = None THEN "succeeded" ELSE state.status) \in Answered
              /\ Publish(r, e, IF state.status = None THEN "succeeded" ELSE state.status, Safe(state))
          BY <3>1, <3>3 DEF PersistResult
        <4> QED BY <4>1
      <3> QED BY <1>1, <3>2, <3>3
    <2>2. attempts' = attempts
      BY <2>1 DEF Publish, PublishTerminalResult
    <2>3. Resting(r)
      BY <2>1, <2>2, PublishedRows DEF Resting, SameLedger, Terminal
    <2>4. CASE Limit(r, e)
      BY <2>3, <2>4, FrameEnds, CalmSteps DEF Limit
    <2>5. CASE PersistResult(r, e)
      <3>1. frame[r][e].pc = "node" /\ frame'[r][e].pc = "put"
        BY <2>5, FrameCompletes DEF PersistResult, AtNode, At
      <3> QED BY <2>3, <3>1, CalmSteps
    <2> QED BY <1>1, <2>4, <2>5
  <1>2. CASE Raise(r, e) \/ TimeOut(r, e)
    <2>1. FailRun(r, leases[r][e], e)
      BY <1>2 DEF Raise, TimeOut
    <2>2. attempts' = attempts
      BY <2>1 DEF FailRun
    <2>3. Resting(r)
      BY <2>1, <2>2, FailedRows DEF Resting, MovedAround, SameLedger, Terminal
    <2>4. CASE Raise(r, e)
      BY <2>3, <2>4, FrameEnds, CalmSteps DEF Raise
    <2>5. CASE TimeOut(r, e)
      BY <2>3, <2>5 DEF TimeOut, Calmly, Calm
    <2> QED BY <1>2, <2>4, <2>5
  <1> QED BY <1>1, <1>2

LEMMA StoringRests ==
  ASSUME HarnessInv, NEW r \in Run, NEW e \in 1..MaxEpoch,
         SaveRetrieved(r, e) \/ SaveVerified(r, e) \/ Emit(r, e) \/ BeginGeneration(r, e)
  PROVE  Resting(r) /\ Calmly(r, e)
  <1> DEFINE f == frame[r][e]
             S == f.state
  <1>1. f \in FrameRow /\ S \in HarnessState
    BY Executions
  <1>2. CASE SaveRetrieved(r, e)
    <2> DEFINE artifact == RetrievedArtifact(f.turn)
               Z == [S EXCEPT !.retrieved = artifact, !.rounds = ledger[r].rounds, !.queries = 0]
               g == [f EXCEPT !.pc = "emit", !.turn = None, !.state = Z]
    <2>1. f.pc = "save" /\ S.next = "retrieve"
      BY <1>2 DEF SaveRetrieved, At
    <2>2. RetrievedAccepted(f.turn)
      BY <2>1, Executions DEF Sound, Accepted
    <2>3. SaveNodeArtifact(r, leases[r][e], e, artifact) /\ Become(r, e, g)
      BY <1>2, <2>2 DEF SaveRetrieved
    <2>4. Z.next = S.next
      BY <1>1 DEF HarnessState
    <2> HIDE DEF Z, S
    <2>5. g.pc = "emit" /\ g.state = Z
      BY <1>1 DEF FrameRow
    <2> HIDE DEF g
    <2>6. Resting(r)
      BY <2>3 DEF SaveNodeArtifact, Resting
    <2>7. frame'[r][e] = g
      BY <2>3, FrameBecomes
    <2> QED BY <2>1, <2>4, <2>5, <2>6, <2>7 DEF Calmly, Calm, Unheard, S
  <1>3. CASE SaveVerified(r, e)
    <2> DEFINE artifact == VerifiedArtifact(f.turn)
               Z == [S EXCEPT !.verified = artifact, !.rounds = ledger[r].rounds,
                              !.status = IF @ = None THEN "succeeded" ELSE @]
               g == [f EXCEPT !.pc = "emit", !.turn = None, !.state = Z]
    <2>1. f.pc = "save" /\ S.next = "generate"
      BY <1>3 DEF SaveVerified, At
    <2>2. Publishable(f.turn)
      BY <2>1, Executions DEF Sound, Earned, VerifiedAccepted
    <2>3. SaveNodeArtifact(r, leases[r][e], e, artifact)
      BY <1>3, <2>2 DEF SaveVerified
    <2>4. Become(r, e, g)
      BY <1>3, <2>2, Zenon DEF SaveVerified
    <2>5. Z.next = S.next
      BY <1>1 DEF HarnessState
    <2> HIDE DEF Z, S
    <2>6. g.pc = "emit" /\ g.state = Z
      BY <1>1 DEF FrameRow
    <2> HIDE DEF g
    <2>7. Resting(r)
      BY <2>3 DEF SaveNodeArtifact, Resting
    <2>8. frame'[r][e] = g
      BY <2>4, FrameBecomes
    <2> QED BY <2>1, <2>5, <2>6, <2>7, <2>8 DEF Calmly, Calm, Unheard, S
  <1>4. CASE Emit(r, e)
    <2>1. f.pc = "emit" /\ AppendStageEvent(r, leases[r][e], e)
      BY <1>4 DEF Emit, At
    <2>2. frame'[r][e].pc = "put" /\ frame'[r][e].state.last = S.next
      <3>1. PICK next, Z : Z = S /\ Complete(r, e, next, Z)
        BY <1>4 DEF Emit
      <3>2. Z \in HarnessState /\ Z.next = S.next
        BY <1>1, <3>1
      <3> QED BY <3>1, <3>2, FrameCompletes
    <2>3. Resting(r)
      BY <2>1 DEF AppendStageEvent, Resting
    <2> QED BY <2>1, <2>2, <2>3 DEF Calmly, Calm, Unheard
  <1>5. CASE BeginGeneration(r, e)
    <2>1. f.pc = "node" /\ AppendStageEvent(r, leases[r][e], e) /\ frame'[r][e].pc = "generate"
      BY <1>5, FrameProceeds DEF BeginGeneration, AtNode, At
    <2>2. Resting(r)
      BY <2>1 DEF AppendStageEvent, Resting
    <2> QED BY <2>1, <2>2, CalmSteps
  <1> QED BY <1>2, <1>3, <1>4, <1>5

(* A call is prepared where its answer is not behind, nor may be. *)
LEMMA PreparingRests ==
  ASSUME HarnessInv, NEW r \in Run, NEW e \in 1..MaxEpoch,
         BeginRound(r, e) \/ PlanFollowup(r, e) \/ GenerateLocally(r, e)
  PROVE  Resting(r) /\ Calmly(r, e)
  <1> DEFINE f == frame[r][e]
  <1>1. CASE BeginRound(r, e)
    <2>1. f.pc = "node"
      BY <1>1 DEF BeginRound, AtNode, At
    <2>2. PICK round, queries : /\ Invoke(r, e, <<"search_laws", round, 1>>, {})
                                /\ BeginRetrievalRound(r, leases[r][e], e, queries)
      BY <1>1 DEF BeginRound
    <2>3. Resting(r)
      BY <2>2 DEF BeginRetrievalRound, Resting
    <2>4. frame'[r][e].pc = "reserve" /\ frame'[r][e].op = <<"search_laws", round, 1>>
      BY <2>2, FrameInvokes
    <2>5. Unheard(frame'[r][e], attempts[r])
      BY <2>4 DEF Unheard, Model
    <2> QED BY <2>1, <2>3, <2>4, <2>5, CalmSteps
  <1>2. ASSUME NEW name, NEW op, op[1] = name, Invoke(r, e, op, {}), f.pc \in {"node", "generate"},
               ~(HasOutcomeUnknown(r, name) /\ ~f.with.retry)
        PROVE  Calmly(r, e)
    <2>1. /\ frame'[r][e].pc = "reserve" /\ frame'[r][e].op = op
          /\ frame'[r][e].with = f.with
      BY <1>2, FrameInvokes
    <2>2. Unheard(frame'[r][e], attempts[r])
      BY <1>2, <2>1 DEF Unheard, HasOutcomeUnknown, Attempts
    <2> QED BY <1>2, <2>1, <2>2, CalmSteps
  <1>3. CASE PlanFollowup(r, e)
    <2>1. f.pc = "node" /\ Resting(r)
      BY <1>3, LocalRests DEF PlanFollowup, AtNode, At
    <2>2. \/ \E queries : Plan(r, e, queries)
          \/ /\ ~(HasOutcomeUnknown(r, "plan_followup") /\ ~f.with.retry)
             /\ Invoke(r, e, <<"plan_followup", ledger[r].rounds + 1, 0>>, {})
      BY <1>3, Zenon DEF PlanFollowup
    <2>3. ASSUME NEW queries, Plan(r, e, queries) PROVE Calmly(r, e)
      <3>1. \E next, state : Complete(r, e, next, state)
        BY <2>3, Zenon DEF Plan
      <3>2. frame'[r][e].pc = "put"
        BY <3>1, FrameCompletes
      <3> QED BY <2>1, <3>2, CalmSteps
    <2>4. CASE /\ ~(HasOutcomeUnknown(r, "plan_followup") /\ ~f.with.retry)
               /\ Invoke(r, e, <<"plan_followup", ledger[r].rounds + 1, 0>>, {})
      <3> DEFINE op == <<"plan_followup", ledger[r].rounds + 1, 0>>
      <3>1. op[1] = "plan_followup" /\ Invoke(r, e, op, {})
        BY <2>4
      <3> HIDE DEF op
      <3> QED BY <1>2, <2>1, <2>4, <3>1
    <2> QED BY <2>1, <2>2, <2>3, <2>4
  <1>4. CASE GenerateLocally(r, e)
    <2>1. f.pc = "generate" /\ Resting(r)
      BY <1>4, LocalRests DEF GenerateLocally, At
    <2>2. \/ \E turn, status : Verified(r, e, turn, status)
          \/ /\ ~(HasOutcomeUnknown(r, "generate_answer") /\ ~f.with.retry)
             /\ Invoke(r, e, <<"generate_answer", 0, 0>>, {})
      BY <1>4, Zenon DEF GenerateLocally
    <2>3. ASSUME NEW turn, NEW status, Verified(r, e, turn, status) PROVE Calmly(r, e)
      BY <2>1, <2>3, FrameVerified, CalmSteps
    <2>4. CASE /\ ~(HasOutcomeUnknown(r, "generate_answer") /\ ~f.with.retry)
               /\ Invoke(r, e, <<"generate_answer", 0, 0>>, {})
      <3> DEFINE op == <<"generate_answer", 0, 0>>
      <3>1. op[1] = "generate_answer" /\ Invoke(r, e, op, {})
        BY <2>4
      <3> HIDE DEF op
      <3> QED BY <1>2, <2>1, <2>4, <3>1
    <2> QED BY <2>1, <2>2, <2>3, <2>4
  <1> QED BY <1>1, <1>3, <1>4

-----------------------------------------------------------------------------
(* The steps that write the journal *)

(* Only where the execution is and its journal change. *)
LEMMA AskedOnceBy ==
  ASSUME NEW r \in Run, NEW e \in 1..MaxEpoch, AsksOnce(r), e = runs[r].epoch,
         runs'[r] = runs[r], checkpoints'[r] = checkpoints[r],
         DOMAIN attempts[r] \subseteq DOMAIN attempts'[r],
         \A n \in DOMAIN attempts[r] : attempts'[r][n].operation = attempts[r][n].operation,
         \A n \in DOMAIN attempts'[r] : attempts'[r][n].operation \in GraphOperation,
         Watched(frame'[r][e], Resumed(r), runs[r].status, runs[r].epoch, attempts'[r])
  PROVE  AsksOnce(r)'
  <1>1. Resumed(r)' = Resumed(r)
    BY DEF Resumed
  <1>2. Covers(checkpoints[r], attempts'[r])
    BY CoversStays DEF AsksOnce
  <1>3. runs[r].epoch # 0 /\ (runs[r].status \in {"absent", "queued"} => runs[r].epoch = 0)
    BY DEF AsksOnce
  <1> QED BY <1>1, <1>2, <1>3 DEF AsksOnce

(* What an execution finds of its journal. *)
LEMMA Journals ==
  ASSUME HarnessInv, NEW r \in Run, NEW e \in 1..MaxEpoch, AsksOnce(r), e = runs[r].epoch
  PROVE  /\ attempts \in [Run -> Seq(AttemptRow)] /\ attempts[r] \in Seq(AttemptRow) /\ Whole(r)
         /\ Watched(frame[r][e], Resumed(r), runs[r].status, runs[r].epoch, attempts[r])
         /\ frame[r][e].pc \in Calls => frame[r][e].op \in GraphOperation
  <1>1. Whole(r) /\ attempts \in [Run -> Seq(AttemptRow)]
    BY TypedByRun DEF HarnessInv, Typed, RunTypeOK
  <1> QED BY <1>1, OperationIsKnown DEF AsksOnce

LEMMA ReserveAsksOnce ==
  ASSUME HarnessInv, NEW r \in Run, NEW e \in 1..MaxEpoch, AsksOnce(r), e = runs[r].epoch,
         Reserve(r, e)
  PROVE  AsksOnce(r)'
  <1> DEFINE f == frame[r][e]
             g == frame'[r][e]
             new == [operation |-> f.op, epoch |-> runs[r].epoch, status |-> "reserved"]
             journal == attempts[r]
  <1>1. /\ f.pc = "reserve" /\ f.op \in GraphOperation /\ journal \in Seq(AttemptRow) /\ f \in FrameRow
        /\ attempts \in [Run -> Seq(AttemptRow)]
        /\ Watched(f, Resumed(r), runs[r].status, runs[r].epoch, journal)
    BY Journals, Executions DEF Reserve, At, Calls
  <1>2. /\ runs' = runs /\ checkpoints' = checkpoints
        /\ attempts' = [attempts EXCEPT ![r] = Append(@, new)]
        /\ Become(r, e, [f EXCEPT !.pc = "dispatch", !.n = Len(attempts[r]) + 1, !.tries = @ + 1])
    BY DEF Reserve, ReserveAttempt
  <1>3. attempts'[r] = Append(journal, new)
    BY <1>1, <1>2
  <1>4. g = [f EXCEPT !.pc = "dispatch", !.n = Len(journal) + 1, !.tries = @ + 1]
    <2> HIDE DEF f
    <2> QED BY <1>2, FrameBecomes
  <1>5. g.pc = "dispatch" /\ g.op = f.op /\ g.with = f.with /\ g.n = Len(journal) + 1
    <2> HIDE DEF f, g, journal
    <2> QED BY <1>1, <1>4 DEF FrameRow
  <1>6. Watched(g, Resumed(r), runs[r].status, runs[r].epoch, Append(journal, new))
    <2> HIDE DEF f, g, journal
    <2> QED BY <1>1, <1>5, ReservedIsWatched
  <1>7. /\ DOMAIN Append(journal, new) = DOMAIN journal \cup {Len(journal) + 1}
        /\ Append(journal, new)[Len(journal) + 1] = new
        /\ \A n \in DOMAIN journal : Append(journal, new)[n] = journal[n]
    <2> HIDE DEF f, g, journal, new
    <2>1. /\ Append(journal, new) \in Seq({new} \cup AttemptRow)
          /\ Len(Append(journal, new)) = Len(journal) + 1
      BY <1>1
    <2>2. /\ DOMAIN Append(journal, new) = 1..(Len(journal) + 1) /\ DOMAIN journal = 1..Len(journal)
          /\ Len(journal) \in Nat
      BY <1>1, <2>1
    <2> QED BY <1>1, <2>2
  <1>8. new.operation \in GraphOperation /\ \A n \in DOMAIN journal : journal[n].operation \in GraphOperation
    BY <1>1 DEF AsksOnce
  <1> HIDE DEF f, g, journal, new
  <1>9. /\ DOMAIN journal \subseteq DOMAIN attempts'[r]
        /\ \A n \in DOMAIN journal : attempts'[r][n].operation = journal[n].operation
        /\ \A n \in DOMAIN attempts'[r] : attempts'[r][n].operation \in GraphOperation
    BY <1>3, <1>7, <1>8
  <1> QED BY <1>2, <1>3, <1>6, <1>9, AskedOnceBy DEF g, journal

LEMMA AmendedAsksOnce ==
  ASSUME HarnessInv, NEW r \in Run, NEW e \in 1..MaxEpoch, AsksOnce(r), e = runs[r].epoch,
         runs' = runs, checkpoints' = checkpoints, NEW n \in DOMAIN attempts[r], NEW status,
         Amended(attempts[r], attempts'[r], n, status),
         Watched(frame'[r][e], Resumed(r), runs[r].status, runs[r].epoch, attempts'[r])
  PROVE  AsksOnce(r)'
  <1>1. /\ DOMAIN attempts'[r] = DOMAIN attempts[r]
        /\ \A m \in DOMAIN attempts[r] : attempts'[r][m].operation = attempts[r][m].operation
    BY DEF Amended
  <1>2. \A m \in DOMAIN attempts[r] : attempts[r][m].operation \in GraphOperation
    BY DEF AsksOnce
  <1> QED BY <1>1, <1>2, AskedOnceBy

LEMMA DispatchAsksOnce ==
  ASSUME HarnessInv, NEW r \in Run, NEW e \in 1..MaxEpoch, AsksOnce(r), e = runs[r].epoch,
         Dispatch(r, e)
  PROVE  /\ AsksOnce(r)' /\ runs[r].status = "running"
         /\ Amended(attempts[r], attempts'[r], frame[r][e].n, "dispatched")
  <1> DEFINE f == frame[r][e]
             g == frame'[r][e]
  <1>1. /\ f.pc = "dispatch" /\ f.n \in DOMAIN attempts[r] /\ runs[r].status = "running"
        /\ SetAttempt(r, f.n, "dispatched") /\ runs' = runs /\ checkpoints' = checkpoints
    BY DEF Dispatch, At, MarkAttemptDispatched, WorkerLease
  <1>2. /\ attempts \in [Run -> Seq(AttemptRow)] /\ attempts[r] \in Seq(AttemptRow) /\ Whole(r)
        /\ Watched(f, Resumed(r), runs[r].status, runs[r].epoch, attempts[r])
    BY Journals
  <1>3. Amended(attempts[r], attempts'[r], f.n, "dispatched")
    BY <1>1, <1>2, AmendedAttempts
  <1>4. g.pc = "call" /\ g.op = f.op /\ g.with = f.with /\ g.n = f.n
    BY FrameProceeds DEF Dispatch
  <1> HIDE DEF f, g
  <1>5. Watched(g, Resumed(r), runs[r].status, runs[r].epoch, attempts'[r])
    BY <1>1, <1>2, <1>3, <1>4, DispatchedIsWatched
  <1> QED BY <1>1, <1>3, <1>5, AmendedAsksOnce DEF f, g

LEMMA AnswerAsksOnce ==
  ASSUME HarnessInv, NEW r \in Run, NEW e \in 1..MaxEpoch, AsksOnce(r), e = runs[r].epoch,
         At(r, e, "call"), NEW status \in {"succeeded", "failed", "outcome_unknown"},
         CameBack(r, e, status),
         NEW f, f = frame[r][e], NEW g, g = frame'[r][e],
         g.pc \notin {"dispatch", "call"}, g.with = f.with,
         g.pc = "reserve" =>
           g.op[1] = "search_laws" \/ (g.op = f.op /\ status # "succeeded"),
         status = "succeeded" /\ Model(f.op) => Reached(g, f.op)
  PROVE  AsksOnce(r)' /\ Amended(attempts[r], attempts'[r], f.n, status)
  <1>1. /\ f.pc = "call" /\ f.n \in DOMAIN attempts[r] /\ runs[r].status = "running"
        /\ SetAttempt(r, f.n, status) /\ runs' = runs /\ checkpoints' = checkpoints
    BY DEF At, CameBack, FinishAttempt, WorkerLease
  <1>2. /\ attempts \in [Run -> Seq(AttemptRow)] /\ attempts[r] \in Seq(AttemptRow) /\ Whole(r)
        /\ Watched(f, Resumed(r), "running", runs[r].epoch, attempts[r])
        /\ f.op \in GraphOperation
    BY <1>1, Journals DEF Calls
  <1>3. Amended(attempts[r], attempts'[r], f.n, status)
    BY <1>1, <1>2, AmendedAttempts
  <1>4. Watched(g, Resumed(r), "running", runs[r].epoch, attempts'[r])
    BY <1>1, <1>2, <1>3, AnsweredIsWatched
  <1> QED BY <1>1, <1>3, <1>4, AmendedAsksOnce

LEMMA FailedCallAsksOnce ==
  ASSUME HarnessInv, NEW r \in Run, NEW e \in 1..MaxEpoch, AsksOnce(r), e = runs[r].epoch,
         NEW status \in {"failed", "outcome_unknown"}, NEW retryable,
         CallFailed(r, e, status, retryable)
  PROVE  AsksOnce(r)' /\ Amended(attempts[r], attempts'[r], frame[r][e].n, status)
  <1>1. At(r, e, "call") /\ CameBack(r, e, status)
    BY DEF CallFailed
  <1>2. PICK pc \in {"reserve", "raise"} : Proceed(r, e, pc)
    BY Zenon DEF CallFailed
  <1>3. /\ frame'[r][e].pc = pc /\ frame'[r][e].op = frame[r][e].op
        /\ frame'[r][e].with = frame[r][e].with
    BY <1>2, FrameProceeds
  <1> QED BY <1>1, <1>3, AnswerAsksOnce

LEMMA SearchAsksOnce ==
  ASSUME HarnessInv, NEW r \in Run, NEW e \in 1..MaxEpoch, AsksOnce(r), e = runs[r].epoch,
         NEW more \in SUBSET Chunk, SearchAnswered(r, e, more)
  PROVE  AsksOnce(r)' /\ Amended(attempts[r], attempts'[r], frame[r][e].n, "succeeded")
  <1> DEFINE f == frame[r][e]
  <1>1. At(r, e, "call") /\ CameBack(r, e, "succeeded") /\ f.op[1] = "search_laws" /\ f \in FrameRow
    BY Executions DEF SearchAnswered, Calling, At
  <1>2. \/ \E round, query, found : Invoke(r, e, <<"search_laws", round, query>>, found)
        \/ \E turn : Become(r, e, [f EXCEPT !.pc = "save", !.op = None, !.n = 0, !.tries = 0,
                                            !.found = {}, !.turn = turn])
    BY <1>1, Zenon DEF SearchAnswered
  <1>3. ASSUME NEW round, NEW query, NEW found, Invoke(r, e, <<"search_laws", round, query>>, found)
        PROVE  /\ frame'[r][e].pc = "reserve" /\ frame'[r][e].with = f.with
               /\ frame'[r][e].op[1] = "search_laws"
    BY <1>3, FrameInvokes
  <1>4. ASSUME NEW turn, Become(r, e, [f EXCEPT !.pc = "save", !.op = None, !.n = 0, !.tries = 0,
                                                !.found = {}, !.turn = turn])
        PROVE  frame'[r][e].pc = "save" /\ frame'[r][e].with = f.with
    <2> DEFINE g == [f EXCEPT !.pc = "save", !.op = None, !.n = 0, !.tries = 0,
                              !.found = {}, !.turn = turn]
    <2>1. g.pc = "save" /\ g.with = f.with
      BY <1>1 DEF FrameRow
    <2>2. Become(r, e, g)
      BY <1>4
    <2> HIDE DEF g
    <2> QED BY <2>1, <2>2, FrameBecomes
  <1>5. /\ frame'[r][e].pc \in {"reserve", "save"} /\ frame'[r][e].with = f.with
        /\ frame'[r][e].pc = "reserve" => frame'[r][e].op[1] = "search_laws"
    BY <1>2, <1>3, <1>4
  <1>6. ~Model(f.op)
    BY <1>1 DEF Model
  <1> QED BY <1>1, <1>5, <1>6, AnswerAsksOnce

(* A plan settles the round it was made for. *)
LEMMA PlannerAsksOnce ==
  ASSUME HarnessInv, NEW r \in Run, NEW e \in 1..MaxEpoch, AsksOnce(r), e = runs[r].epoch,
         PlannerAnswered(r, e)
  PROVE  AsksOnce(r)' /\ Amended(attempts[r], attempts'[r], frame[r][e].n, "succeeded")
  <1> DEFINE f == frame[r][e]
             S == f.state
             paid == ledger[r].rounds
  <1>1. /\ At(r, e, "call") /\ CameBack(r, e, "succeeded") /\ f.op[1] = "plan_followup"
        /\ f.pc = "call" /\ S \in HarnessState /\ paid \in 0..MaxRounds /\ paid \in Nat
    BY Executions, RunLimits DEF PlannerAnswered, Calling, At
  <1>2. S.next = "plan_followup" /\ f.op[2] = paid + 1
    <2>1. Sound(f, artifacts[r], paid) /\ Follows(f, Resumed(r), runs[r].status, published[r], paid)
      BY Executions
    <2> HIDE DEF f, S, paid
    <2>2. f.state.next = "plan_followup"
      BY <1>1, <2>1 DEF Sound, Calls
    <2>3. f.op[2] = paid + 1
      BY <1>1, <2>1 DEF Follows, Calls
    <2> QED BY <2>2, <2>3 DEF S
  <1>3. CASE Proceed(r, e, "raise")
    <2>1. frame'[r][e].pc = "raise" /\ frame'[r][e].with = f.with
      BY <1>3, FrameProceeds
    <2>2. Reached(frame'[r][e], f.op)
      BY <2>1 DEF Reached
    <2> QED BY <1>1, <2>1, <2>2, AnswerAsksOnce
  <1>4. ASSUME NEW queries \in 0..MaxQueries, Plan(r, e, queries)
        PROVE  AsksOnce(r)' /\ Amended(attempts[r], attempts'[r], frame[r][e].n, "succeeded")
    <2> DEFINE base == [S EXCEPT !.rounds = paid]
    <2>1. base \in HarnessState /\ base.next = S.next /\ base.rounds = paid
      BY <1>1 DEF HarnessState
    <2>2. PICK next, state : /\ Complete(r, e, next, state) /\ state \in HarnessState
                             /\ state.next = S.next /\ state.rounds = paid
      <3>1. \/ Complete(r, e, "generate", [base EXCEPT !.status = "completed_with_limits"])
            \/ Complete(r, e, "retrieve", [base EXCEPT !.queries = queries])
        BY <1>4, Zenon DEF Plan
      <3>2. LET state == [base EXCEPT !.status = "completed_with_limits"] IN
            state \in HarnessState /\ state.next = S.next /\ state.rounds = paid
        <4> HIDE DEF base, S, paid
        <4> QED BY <2>1 DEF HarnessState, Answered
      <3>3. LET state == [base EXCEPT !.queries = queries] IN
            state \in HarnessState /\ state.next = S.next /\ state.rounds = paid
        <4> HIDE DEF base, S, paid
        <4> QED BY <2>1 DEF HarnessState
      <3> HIDE DEF base, S, paid
      <3> QED BY <3>1, <3>2, <3>3, Zenon
    <2>3. /\ frame'[r][e].pc = "put" /\ frame'[r][e].with = f.with
          /\ frame'[r][e].state.last = "plan_followup" /\ frame'[r][e].state.rounds = paid
      BY <1>2, <2>2, FrameCompletes
    <2>4. Reached(frame'[r][e], f.op)
      <3> HIDE DEF f, S, paid
      <3> QED BY <1>1, <1>2, <2>3 DEF Reached, Settles
    <2> QED BY <1>1, <2>3, <2>4, AnswerAsksOnce
  <1> QED BY <1>3, <1>4 DEF PlannerAnswered

LEMMA GeneratorAsksOnce ==
  ASSUME HarnessInv, NEW r \in Run, NEW e \in 1..MaxEpoch, AsksOnce(r), e = runs[r].epoch,
         NEW raw, GeneratorAnswered(r, e, raw)
  PROVE  AsksOnce(r)' /\ Amended(attempts[r], attempts'[r], frame[r][e].n, "succeeded")
  <1> DEFINE f == frame[r][e]
  <1>1. /\ At(r, e, "call") /\ CameBack(r, e, "succeeded") /\ f.op[1] = "generate_answer"
        /\ f.pc = "call" /\ \E turn, status : Verified(r, e, turn, status)
    BY DEF GeneratorAnswered, Calling, At
  <1>2. f.state.next = "generate"
    BY <1>1, Executions DEF Sound, Calls
  <1>3. /\ frame'[r][e].pc = "save" /\ frame'[r][e].with = f.with
        /\ frame'[r][e].state.next = "generate"
    BY <1>1, <1>2, FrameVerified
  <1>4. Reached(frame'[r][e], f.op)
    BY <1>3 DEF Reached
  <1> QED BY <1>1, <1>3, <1>4, AnswerAsksOnce

(* What is bound is bound after what it is past. *)
LEMMA BindAsksOnce ==
  ASSUME HarnessInv, NEW r \in Run, NEW e \in 1..MaxEpoch, AsksOnce(r), e = runs[r].epoch,
         Bind(r, e)
  PROVE  AsksOnce(r)' /\ attempts'[r] = attempts[r]
  <1> DEFINE f == frame[r][e]
             S == f.state
             T == Resumed(r)
             journal == attempts[r]
             c == <<e, NextCheckpoint(r, e)>>
  <1>1. /\ f.pc = "bind" /\ T' = S /\ runs'[r].status = runs[r].status /\ runs'[r].epoch = runs[r].epoch
        /\ S \in HarnessState
    BY BoundStates, Executions
  <1>2. BindCheckpoint(r, leases[r][e], e, NextCheckpoint(r, e), S) /\ c \in CheckpointKey
    BY DEF Bind, CheckpointKey
  <1>3. attempts' = attempts
    BY <1>2 DEF BindCheckpoint
  <1>4. Watched(f, T, runs[r].status, runs[r].epoch, journal)
    BY Journals
  <1>5. T \in HarnessState /\ Coherent(T) /\ Coherent(S) /\ (S = T \/ Steps(T, S))
    <2>1. /\ Sound(f, artifacts[r], ledger[r].rounds)
          /\ Follows(f, T, runs[r].status, published[r], ledger[r].rounds)
          /\ Trust(T, runs[r].status, published[r], artifacts[r], ledger[r].rounds)
      BY Executions
    <2> HIDE DEF f, S, T
    <2>2. T \in HarnessState /\ Coherent(T)
      BY <2>1 DEF Trust, StateOK
    <2>3. Coherent(f.state) /\ (f.state = T \/ Steps(T, f.state))
      BY <1>1, <2>1 DEF Sound, Follows, StateOK
    <2> QED BY <2>2, <2>3 DEF S
  <1>11. /\ f.pc = "bind" /\ f.state \in HarnessState /\ T \in HarnessState
         /\ Coherent(T) /\ Coherent(f.state) /\ (f.state = T \/ Steps(T, f.state))
    BY <1>1, <1>5
  <1>6. ASSUME NEW n \in DOMAIN journal, journal[n].status = "succeeded", Model(journal[n].operation)
        PROVE  Settles(f.state, journal[n].operation)
    <2>1. journal[n].operation \in GraphOperation
      BY DEF AsksOnce
    <2> HIDE DEF f, S, T, journal
    <2> QED BY <1>4, <1>6, <1>11, <2>1, BoundIsPast
  <1>7. frame'[r][e].pc \in {"node", "done"}
    <2>1. CASE End(r, e)
      BY <2>1, FrameEnds
    <2>2. CASE Proceed(r, e, "node")
      BY <2>2, FrameProceeds
    <2> QED BY <2>1, <2>2 DEF Bind
  <1>8. Watched(frame'[r][e], S, runs[r].status, runs[r].epoch, journal)
    <2> HIDE DEF f, S, T, journal
    <2>1. Watched(frame'[r][e], f.state, runs[r].status, runs[r].epoch, journal)
      BY <1>4, <1>6, <1>7, <1>11, BoundIsWatched
    <2> QED BY <2>1 DEF S
  <1>9. Covers(checkpoints'[r], journal)
    <2>1. Covers(checkpoints[r], journal)
      BY DEF AsksOnce
    <2>2. CASE checkpoints' = checkpoints
      BY <2>1, <2>2
    <2>3. ASSUME NEW after \in CompletedBefore(r),
                 checkpoints' = [checkpoints EXCEPT ![r][c] = [state |-> S, after |-> after]]
          PROVE  Covers(checkpoints'[r], journal)
      <3> DEFINE row == [state |-> S, after |-> after]
      <3>1. after \subseteq Attempts(r, {"succeeded"})
        BY DEF CompletedBefore
      <3>2. \A n \in after : n \in DOMAIN journal /\ (Model(journal[n].operation) =>
              Settles(S, journal[n].operation))
        BY <1>6, <3>1 DEF Attempts
      <3>3. row.state = S /\ row.after = after
        OBVIOUS
      <3> HIDE DEF row
      <3>4. \A d \in CheckpointKey : checkpoints'[r][d] = IF d = c THEN row ELSE checkpoints[r][d]
        <4>1. checkpoints \in [Run -> [CheckpointKey -> CheckpointRow \cup {None}]]
          BY DEF HarnessInv, Typed, RunTypeOK
        <4>2. checkpoints' = [checkpoints EXCEPT ![r] = [@ EXCEPT ![c] = row]]
          BY <2>3 DEF row
        <4> HIDE DEF c
        <4> QED BY <4>1, <4>2
      <3> HIDE DEF S, journal, c
      <3> QED BY <2>1, <3>2, <3>3, <3>4 DEF Covers
    <2> QED BY <1>2, <2>2, <2>3, Zenon DEF BindCheckpoint
  <1>10. /\ runs[r].status \in {"absent", "queued"} => runs[r].epoch = 0
         /\ runs[r].epoch = 0 => attempts[r] = <<>>
         /\ \A n \in DOMAIN attempts[r] : attempts[r][n].operation \in GraphOperation
    BY DEF AsksOnce
  <1> HIDE DEF f, S, T, c
  <1> QED BY <1>1, <1>3, <1>8, <1>9, <1>10 DEF AsksOnce, T

-----------------------------------------------------------------------------
(* Every step *)

(* An execution whose lease is gone writes nothing of the service. *)
LEMMA StaleExecutions ==
  ASSUME HarnessInv, TablesFit, NEW r \in Run, NEW e \in 1..MaxEpoch, GraphStep(r, e),
         e # runs[r].epoch
  PROVE  UNCHANGED runVars
  <1>1. ASSUME NEW w, Leased(r, w, e) PROVE FALSE
    BY <1>1 DEF Leased, Work, HeartbeatRun, FailRun, AppendStageEvent, BeginRetrievalRound,
       ReserveAttempt, MarkAttemptDispatched, FinishAttempt, SaveNodeArtifact, BindCheckpoint,
       PublishTerminalResult, LeaseOrPublished, WorkerLease
  <1> QED BY <1>1, ExecutionsCall DEF ServiceCall

(* What a step of an execution does to the journal of its run. *)
LEMMA ExecutionAsksOnce ==
  ASSUME HarnessInv, TablesFit, NEW r \in Run, NEW e \in 1..MaxEpoch, AsksOnce(r), GraphStep(r, e)
  PROVE  /\ AsksOnce(r)'
         /\ \/ \A n \in DOMAIN attempts[r] :
                 attempts[r][n].status = "reserved" => attempts'[r][n].status # "dispatched"
            \/ Dispatch(r, e) /\ e = runs[r].epoch
  <1> DEFINE Silent == \A n \in DOMAIN attempts[r] :
                         attempts[r][n].status = "reserved" => attempts'[r][n].status # "dispatched"
  <1>1. CASE e # runs[r].epoch
    <2>1. UNCHANGED runVars
      BY <1>1, StaleExecutions
    <2>2. \A d \in 1..MaxEpoch : d = runs[r].epoch => frame'[r][d] = frame[r][d]
      <3>1. UNCHANGED frame \/ \E g : Become(r, e, g)
        BY ExecutionWrites
      <3> QED BY <1>1, <3>1, FrameBecomes
    <2>3. Resumed(r)' = Resumed(r)
      BY <2>1 DEF runVars, Resumed
    <2>4. runs[r].status \in {"absent", "queued"} => runs[r].epoch = 0
      BY DEF AsksOnce
    <2>5. AsksOnce(r)'
      BY <2>1, <2>2, <2>3, <2>4, JournalRests DEF runVars, Calm
    <2>6. Silent
      BY <2>1 DEF runVars
    <2> QED BY <2>5, <2>6
  <1>2. ASSUME e = runs[r].epoch, Resting(r), Calmly(r, e), ~Bind(r, e) PROVE AsksOnce(r)' /\ Silent
    <2>1. Resumed(r)' = Resumed(r)
      BY <1>2, OnlyBindingsMove
    <2>2. runs'[r].status \in {"absent", "queued", "running"} => runs'[r].status = runs[r].status
      BY <1>2 DEF Resting, Terminal, Answered
    <2>3. runs[r].status \in {"absent", "queued"} => runs[r].epoch = 0
      BY DEF AsksOnce
    <2>4. AsksOnce(r)'
      BY <1>2, <2>1, <2>2, <2>3, JournalRests DEF Resting, Calmly
    <2>5. Silent
      BY <1>2 DEF Resting
    <2> QED BY <2>4, <2>5
  <1>3. CASE e = runs[r].epoch /\ Bind(r, e)
    BY <1>3, BindAsksOnce
  <1>4. CASE e = runs[r].epoch /\ ~Bind(r, e) /\ ~External(r, e)
    <2>1. Resting(r) /\ Calmly(r, e)
      BY <1>4, PassingRests, EndingRests, StoringRests, PreparingRests DEF GraphStep, Node
    <2> QED BY <1>2, <1>4, <2>1
  <1>5. ASSUME e = runs[r].epoch, NEW status \in {"succeeded", "failed", "outcome_unknown"},
               NEW n, Amended(attempts[r], attempts'[r], n, status)
        PROVE  Silent
    BY <1>5 DEF Amended
  <1>6. CASE e = runs[r].epoch /\ Reserve(r, e)
    <2>1. AsksOnce(r)'
      BY <1>6, ReserveAsksOnce
    <2>2. Silent
      <3>1. attempts \in [Run -> Seq(AttemptRow)] /\ attempts[r] \in Seq(AttemptRow)
        BY Journals, <1>6
      <3>2. PICK new : attempts'[r] = Append(attempts[r], new)
        BY <1>6, <3>1 DEF Reserve, ReserveAttempt
      <3>3. \A n \in DOMAIN attempts[r] : attempts'[r][n] = attempts[r][n]
        BY <3>1, <3>2
      <3> QED BY <3>3
    <2> QED BY <2>1, <2>2
  <1>7. CASE e = runs[r].epoch /\ Dispatch(r, e)
    BY <1>7, DispatchAsksOnce
  <1>8. CASE e = runs[r].epoch /\ External(r, e) /\ ~Reserve(r, e) /\ ~Dispatch(r, e)
    <2> DEFINE n == frame[r][e].n
    <2>1. CASE \E status \in {"failed", "outcome_unknown"}, retryable \in BOOLEAN :
                 CallFailed(r, e, status, retryable)
      BY <1>5, <1>8, <2>1, FailedCallAsksOnce
    <2>2. CASE \E more \in SUBSET Chunk : SearchAnswered(r, e, more)
      BY <1>5, <1>8, <2>2, SearchAsksOnce
    <2>3. CASE PlannerAnswered(r, e)
      BY <1>5, <1>8, <2>3, PlannerAsksOnce
    <2>4. CASE \E raw \in Raw \cup {Nothing} : GeneratorAnswered(r, e, raw)
      BY <1>5, <1>8, <2>4, GeneratorAsksOnce
    <2> QED BY <1>8, <2>1, <2>2, <2>3, <2>4 DEF External
  <1> QED BY <1>1, <1>3, <1>4, <1>6, <1>7, <1>8

(* The owner, the supervisor and the clock ask nothing. *)
LEMMA AroundAsksOnce ==
  ASSUME HarnessInv, Around, NEW q \in Run, AsksOnce(q), Remembers(q), Trusts(q)
  PROVE  /\ AsksOnce(q)'
         /\ \A n \in DOMAIN attempts[q] :
              attempts[q][n].status = "reserved" => attempts'[q][n].status # "dispatched"
  <1> DEFINE T == Resumed(q)
             journal == attempts[q]
             Silent == \A n \in DOMAIN attempts[q] :
                         attempts[q][n].status = "reserved" => attempts'[q][n].status # "dispatched"
  <1>1. /\ checkpoints'[q] = checkpoints[q] /\ runs'[q].trusted = runs[q].trusted
        /\ frame' = frame /\ Resumed(q)' = T
    BY AroundMoves DEF HarnessInv, MovedAround, SameLedger, Resumed
  <1>2. /\ runs \in [Run -> RunRow] /\ attempts \in [Run -> Seq(AttemptRow)] /\ Whole(q)
        /\ RunOK(q) /\ runs[q].epoch \in Nat /\ MaxEpoch \in Nat
    BY TypedByRun, RunLimits DEF HarnessInv, Typed, RunTypeOK, RunRow
  <1>3. /\ runs[q].status \in {"absent", "queued"} => runs[q].epoch = 0
        /\ runs[q].epoch = 0 => journal = <<>>
        /\ \A n \in DOMAIN journal : journal[n].operation \in GraphOperation
        /\ Covers(checkpoints[q], journal)
        /\ \A e \in 1..MaxEpoch : e = runs[q].epoch =>
             Watched(frame[q][e], T, runs[q].status, runs[q].epoch, journal)
    BY DEF AsksOnce
  <1>4. ASSUME attempts'[q] = attempts[q], runs'[q].epoch = runs[q].epoch,
               runs'[q].status = "running" => runs[q].status = "running",
               runs'[q].status \in {"absent", "queued"} => runs[q].epoch = 0
        PROVE  AsksOnce(q)' /\ Silent
    <2>1. AsksOnce(q)'
      BY <1>1, <1>4, JournalRests DEF Calm
    <2> QED BY <1>4, <2>1
  <1>5. CASE \E r \in Run, s \in Session, k \in Key, body \in Body : CreateRun(r, s, k, body, None)
    <2> PICK r \in Run, s \in Session, k \in Key, body \in Body : CreateRun(r, s, k, body, None)
      BY <1>5
    <2>1. attempts' = attempts
      BY DEF CreateRun
    <2>2. CASE q = r
      <3>1. runs[q].status = "absent"
              /\ runs'[q] = [NoRun EXCEPT !.status = "queued", !.session = s,
                                          !.parent = None, !.body = body]
        BY <1>2, <2>2 DEF CreateRun, Transition
      <3>2. runs'[q].status = "queued" /\ runs'[q].epoch = 0
        BY <3>1 DEF NoRun
      <3> QED BY <1>3, <1>4, <2>1, <3>1, <3>2
    <2>3. CASE q # r
      <3>1. runs'[q] = runs[q]
        BY <1>2, <2>3 DEF CreateRun, Transition
      <3> QED BY <1>3, <1>4, <2>1, <3>1
    <2> QED BY <2>2, <2>3
  <1>6. CASE \/ \E r \in Run : CancelRun(r) \/ ResumeRun(r) \/ Tick(r) \/ PassDeadline(r)
             \/ \E r \in Run : \E e \in DOMAIN leases[r] : HeartbeatRun(r, leases[r][e], e)
    <2>1. attempts' = attempts
      BY <1>6 DEF CancelRun, ResumeRun, Tick, PassDeadline, HeartbeatRun
    <2>2. runs'[q].epoch = runs[q].epoch /\ runs'[q].status \in {runs[q].status, "cancelled"}
      <3>1. CASE \E r \in Run : CancelRun(r)
        BY <1>2, <3>1 DEF CancelRun, Transition, Released, RunRow
      <3>2. CASE \E r \in Run : ResumeRun(r)
        BY <1>2, <3>2 DEF ResumeRun, Transition, RunRow
      <3>3. CASE \E r \in Run : Tick(r) \/ PassDeadline(r)
        BY <1>2, <3>3 DEF Tick, PassDeadline, RunRow
      <3>4. CASE \E r \in Run : \E e \in DOMAIN leases[r] : HeartbeatRun(r, leases[r][e], e)
        BY <1>2, <3>4 DEF HeartbeatRun, RunRow
      <3> QED BY <1>6, <3>1, <3>2, <3>3, <3>4
    <2> QED BY <1>3, <1>4, <2>1, <2>2
  <1>7. ASSUME NEW r \in Run, NEW w \in Worker, ClaimNextRun(r, w) PROVE AsksOnce(q)' /\ Silent
    <2>1. attempts' = attempts
      BY <1>7 DEF ClaimNextRun
    <2>2. CASE q # r
      <3>1. runs'[q] = runs[q]
        BY <1>2, <1>7, <2>2 DEF ClaimNextRun, Transition
      <3> QED BY <1>3, <1>4, <2>1, <3>1
    <2>3. CASE q = r
      <3>1. /\ runs'[q].epoch = runs[q].epoch + 1 /\ runs'[q].status = "running"
            /\ runs[q].status \in {"queued", "interrupted"}
        BY <1>2, <1>7, <2>3 DEF ClaimNextRun, Claimable, Transition, RunRow
      <3>2. ASSUME NEW e \in 1..MaxEpoch, e = runs'[q].epoch
            PROVE  Watched(frame'[q][e], T, "running", runs'[q].epoch, journal)
        <4>1. frame'[q][e] = NoFrame
          BY <1>1, <1>2, <3>1, <3>2 DEF RunOK
        <4>2. CASE runs[q].epoch = 0
          <5>1. journal = <<>> /\ NoFrame.pc = "none"
            BY <1>3, <4>2 DEF NoFrame
          <5> HIDE DEF NoFrame, journal
          <5> QED BY <4>1, <5>1 DEF Watched
        <4>3. CASE runs[q].epoch # 0
          <5>1. runs[q].epoch \in 1..MaxEpoch /\ runs[q].status = "interrupted"
            BY <1>2, <1>3, <3>1, <3>2, <4>3
          <5>2. Watched(frame[q][runs[q].epoch], T, runs[q].status, runs[q].epoch, journal)
            BY <1>3, <5>1
          <5>3. ASSUME NEW n \in DOMAIN journal
                PROVE  /\ journal[n].status \notin {"reserved", "dispatched"}
                       /\ journal[n].status = "succeeded" /\ journal[n].epoch = runs[q].epoch
                            /\ Model(journal[n].operation) => Settles(T, journal[n].operation)
            <6>1. journal[n].status \notin {"reserved", "dispatched"}
              BY <5>1 DEF Remembers, Attempts
            <6>2. ASSUME journal[n].status = "succeeded", journal[n].epoch = runs[q].epoch,
                         Model(journal[n].operation)
                  PROVE  Settles(T, journal[n].operation)
              <7>1. KindOf[journal[n].operation] = "model"
                BY <1>3, <6>2, ModelsOfOperations
              <7>2. Durable(q, n)
                BY <5>1, <6>2, <7>1 DEF Remembers, Attempts
              <7> DEFINE c == runs[q].trusted
              <7>3. c # None /\ c \in CheckpointKey /\ n \in checkpoints[q][c].after
                      /\ T = checkpoints[q][c].state
                BY <1>2, <7>2 DEF Durable, Resumed, RunRow
              <7>4. checkpoints[q][c] # None
                BY <7>3 DEF Trusts
              <7> QED BY <1>3, <6>2, <7>3, <7>4 DEF Covers
            <6> QED BY <6>1, <6>2
          <5> HIDE DEF T, journal
          <5> QED BY <3>1, <4>1, <5>2, <5>3, ClaimIsWatched
        <4> QED BY <4>2, <4>3
      <3>3. AsksOnce(q)'
        BY <1>1, <1>2, <1>3, <2>1, <3>1, <3>2 DEF AsksOnce
      <3> QED BY <2>1, <3>3
    <2> QED BY <2>2, <2>3
  <1>8. ASSUME NEW batch \in SUBSET Stale, RecoverStaleRuns(batch) PROVE AsksOnce(q)' /\ Silent
    <2>1. CASE q \notin batch
      <3>1. runs'[q] = runs[q] /\ attempts'[q] = attempts[q]
        BY <1>8, <2>1 DEF RecoverStaleRuns
      <3> QED BY <1>3, <1>4, <3>1
    <2>2. CASE q \in batch
      <3>1. /\ runs'[q] = Released(q, "interrupted")
            /\ attempts'[q] = [n \in DOMAIN journal |->
                                 [journal[n] EXCEPT !.status = Reconciled(q, n)]]
        BY <1>8, <2>2 DEF RecoverStaleRuns
      <3>2. runs'[q].status = "interrupted" /\ runs'[q].epoch = runs[q].epoch
        BY <1>2, <3>1 DEF Released, RunRow
      <3>3. /\ DOMAIN attempts'[q] = DOMAIN journal
            /\ \A n \in DOMAIN journal :
                 /\ attempts'[q][n].operation = journal[n].operation
                 /\ attempts'[q][n].epoch = journal[n].epoch
                 /\ attempts'[q][n].status = Reconciled(q, n)
        <4>1. \A n \in DOMAIN journal : journal[n] \in AttemptRow
          BY <1>2
        <4> QED BY <3>1, <4>1 DEF AttemptRow
      <3>4. \A n \in DOMAIN journal :
              \/ Reconciled(q, n) = journal[n].status
              \/ Reconciled(q, n) \in {"abandoned_before_dispatch", "outcome_unknown"}
        BY DEF Reconciled
      <3>5. ASSUME NEW e \in 1..MaxEpoch, e = runs'[q].epoch
            PROVE  Watched(frame'[q][e], T, "interrupted", runs[q].epoch, attempts'[q])
        <4>1. Watched(frame[q][e], T, runs[q].status, runs[q].epoch, journal)
          BY <1>3, <3>2, <3>5
        <4> HIDE DEF T, journal
        <4> QED BY <1>1, <3>3, <3>4, <4>1, RecoveredIsWatched
      <3>6. Covers(checkpoints[q], attempts'[q])
        BY <1>3, <3>3, CoversStays
      <3>7. runs[q].epoch = 0 => attempts'[q] = <<>>
        BY <1>3, <3>1
      <3>8. AsksOnce(q)'
        BY <1>1, <1>3, <3>2, <3>3, <3>5, <3>6, <3>7 DEF AsksOnce
      <3>9. Silent
        BY <3>3, <3>4
      <3> QED BY <3>8, <3>9
    <2> QED BY <2>1, <2>2
  <1> QED BY <1>5, <1>6, <1>7, <1>8 DEF Around

-----------------------------------------------------------------------------
(* No model is asked twice *)

(* No step of the run's puts a model call in flight. *)
Silent(r) ==
  \A n \in DOMAIN attempts[r] :
    attempts[r][n].status = "reserved" => attempts'[r][n].status # "dispatched"

AllAskOnce == \A r \in Run : AsksOnce(r)

LEMMA UntouchedAsksOnce ==
  ASSUME NEW q \in Run, AsksOnce(q), QuietStep(q), frame'[q] = frame[q]
  PROVE  AsksOnce(q)' /\ Silent(q)
  <1>1. /\ attempts'[q] = attempts[q] /\ checkpoints'[q] = checkpoints[q] /\ runs'[q] = runs[q]
        /\ Resumed(q)' = Resumed(q)
    BY DEF QuietStep, SameRow, SameWork, Resumed
  <1>2. runs[q].status \in {"absent", "queued"} => runs[q].epoch = 0
    BY DEF AsksOnce
  <1>3. AsksOnce(q)'
    BY <1>1, <1>2, JournalRests DEF Calm
  <1> QED BY <1>1, <1>3 DEF Silent

LEMMA StepAsksOnce ==
  ASSUME TablesFit, HarnessInv, JournalIsComplete, TrustedIsNewest, AllAskOnce,
         [HarnessNext]_harnessVars, NEW q \in Run
  PROVE  /\ AsksOnce(q)'
         /\ Silent(q) \/ \E e \in 1..MaxEpoch : Dispatch(q, e) /\ e = runs[q].epoch
  <1>1. AsksOnce(q) /\ Remembers(q) /\ Trusts(q)
    BY JournalByRun, TrustsByRun DEF AllAskOnce
  <1>2. CASE UNCHANGED harnessVars
    <2>1. QuietStep(q) /\ frame'[q] = frame[q]
      BY <1>2 DEF harnessVars, QuietStep, SameRow, SameWork, Untold
    <2> QED BY <1>1, <2>1, UntouchedAsksOnce
  <1>3. CASE Around
    BY <1>1, <1>3, AroundAsksOnce DEF Silent
  <1>4. ASSUME NEW r \in Run, NEW e \in 1..MaxEpoch, GraphStep(r, e), q # r
        PROVE  AsksOnce(q)' /\ Silent(q)
    <2>1. QuietStep(q)
      BY <1>4, OthersPass
    <2>2. frame'[q] = frame[q]
      <3>1. UNCHANGED frame \/ \E g : Become(r, e, g)
        BY <1>4, ExecutionWrites
      <3> QED BY <1>4, <3>1, FrameBecomes
    <2> QED BY <1>1, <2>1, <2>2, UntouchedAsksOnce
  <1>5. ASSUME NEW e \in 1..MaxEpoch, GraphStep(q, e)
        PROVE  /\ AsksOnce(q)'
               /\ Silent(q) \/ (Dispatch(q, e) /\ e = runs[q].epoch)
    BY <1>1, <1>5, ExecutionAsksOnce DEF Silent
  <1> QED BY <1>2, <1>3, <1>4, <1>5 DEF HarnessNext

(* What an execution puts in flight is neither in flight nor answered, and  *)
(* if nobody knows its outcome the retry is its own or has been asked for.  *)
LEMMA DispatchedIsNoRepeat ==
  ASSUME TablesFit, HarnessInv, NEW r \in Run, AsksOnce(r), NEW e \in 1..MaxEpoch,
         e = runs[r].epoch, Dispatch(r, e),
         NEW n \in DOMAIN attempts[r], NEW new, new = attempts[r][n],
         new.status = "reserved", KindOf[new.operation] = "model",
         NEW m \in DOMAIN attempts[r] \ {n}, NEW old, old = attempts[r][m],
         old.operation[1] = new.operation[1]
  PROVE  /\ old.status # "dispatched"
         /\ old.status = "succeeded" => old.operation # new.operation
         /\ old.status = "outcome_unknown" =>
              \/ old.epoch = new.epoch /\ old.operation = new.operation
              \/ frame[r][new.epoch].with.retry
  <1> DEFINE f == frame[r][e]
             T == Resumed(r)
             paid == ledger[r].rounds
  <1>1. f.pc = "dispatch" /\ runs[r].status = "running"
    BY DispatchAsksOnce DEF Dispatch, At
  <1>2. Watched(f, T, runs[r].status, e, attempts[r])
    BY DEF AsksOnce
  <1>3. n = f.n /\ new.operation = f.op /\ new.epoch = e
    BY <1>1, <1>2 DEF Watched, Placed
  <1>4. Placed(f, T, "running", e, m, old)
    BY <1>1, <1>2 DEF Watched
  <1>5. f.op \in GraphOperation /\ Model(f.op)
    BY <1>1, <1>3, OperationIsKnown, ModelsOfOperations DEF Calls
  <1>6. old.status # "dispatched"
    BY <1>1, <1>4 DEF Placed
  <1>7. old.status = "outcome_unknown" =>
          \/ old.epoch = new.epoch /\ old.operation = new.operation
          \/ frame[r][new.epoch].with.retry
    <2> HIDE DEF T
    <2> QED BY <1>1, <1>3, <1>4, <1>5 DEF Placed, Calls
  <1>8. ~Settles(T, f.op)
    <2>1. /\ Sound(f, artifacts[r], paid) /\ Follows(f, T, runs[r].status, published[r], paid)
          /\ Trust(T, runs[r].status, published[r], artifacts[r], paid) /\ paid \in Nat
      BY Executions
    <2>2. /\ f.op[1] = "plan_followup" => f.state.next = "plan_followup" /\ f.op[2] = paid + 1
          /\ f.op[1] = "generate_answer" => f.state.next = "generate"
          /\ f.state.next = T.next
      BY <1>1, <2>1 DEF Sound, Follows, Calls
    <2>3. T \in HarnessState /\ Coherent(T) /\ (T.next # "retrieve" => T.rounds = paid)
      BY <2>1 DEF Trust, StateOK
    <2>4. f.op[1] \in {"plan_followup", "generate_answer"}
      BY <1>5, ModelsOfOperations
    <2> HIDE DEF T, f, paid
    <2>5. T.last \in NodeName \cup {None} /\ T.next \in Successors[T.last]
      BY <2>3, HarnessStates DEF Coherent
    <2>6. T.last \notin Late /\ (T.next = "plan_followup" => T.last # "plan_followup")
      BY <2>2, <2>4, <2>5, Nodes DEF Late
    <2> QED BY <2>1, <2>2, <2>3, <2>4, <2>6 DEF Settles
  <1>9. old.status = "succeeded" => old.operation # new.operation
    <2>1. ~Reached(f, f.op)
      BY <1>1 DEF Reached
    <2> HIDE DEF T, f
    <2> QED BY <1>3, <1>4, <1>5, <1>8, <2>1 DEF Placed
  <1> QED BY <1>6, <1>7, <1>9

LEMMA AsksOnceIsInductive ==
  /\ HarnessInit => AllAskOnce
  /\ /\ TablesFit /\ HarnessInv /\ JournalIsComplete /\ TrustedIsNewest /\ AllAskOnce
     /\ [HarnessNext]_harnessVars
     => AllAskOnce'
  <1>1. ASSUME HarnessInit, NEW r \in Run PROVE AsksOnce(r)
    <2>1. runs[r].epoch = 0 /\ attempts[r] = <<>> /\ \A c \in CheckpointKey : checkpoints[r][c] = None
      BY <1>1 DEF HarnessInit, RunInit, NoRun
    <2> QED BY <2>1 DEF AsksOnce, Covers
  <1>2. /\ TablesFit /\ HarnessInv /\ JournalIsComplete /\ TrustedIsNewest /\ AllAskOnce
        /\ [HarnessNext]_harnessVars
        => AllAskOnce'
    BY StepAsksOnce DEF AllAskOnce
  <1> QED BY <1>1, <1>2 DEF AllAskOnce

(* No model call is put in flight while another of its kind is, none that   *)
(* has been answered is asked again, and one whose outcome nobody knows is  *)
(* repeated only by the execution that made it or when its settings say so: *)
(* the reservations, the ledger and the checkpoint are enough to tell,      *)
(* whichever of them a crash cuts short (harness/nodes.py: _invoke_planner, *)
(* _invoke_generator; run_service.py: has_outcome_unknown,                  *)
(* recover_stale_runs, bind_checkpoint).                                    *)
THEOREM NoModelIsAskedTwice ==
  ASSUME TablesFit
  PROVE  HarnessSpec => NoSilentRepeat
  <1> DEFINE Inv == HarnessInv /\ JournalIsComplete /\ TrustedIsNewest
  <1>1. HarnessSpec => []Inv
    BY HarnessRuns, HarnessedRunsAreRuns, JournalStaysComplete, TrustedStaysNewest, PTL
  <1>2. Inv /\ AllAskOnce /\ [HarnessNext]_harnessVars =>
          [\A r \in Run : \A n \in DOMAIN attempts[r] :
             LET new == attempts[r][n] IN
             /\ new.status = "reserved" /\ attempts'[r][n].status = "dispatched"
             /\ KindOf[new.operation] = "model"
             => \A m \in DOMAIN attempts[r] \ {n} :
                  LET old == attempts[r][m] IN
                  old.operation[1] = new.operation[1] =>
                    /\ old.status # "dispatched"
                    /\ old.status = "succeeded" => old.operation # new.operation
                    /\ old.status = "outcome_unknown" =>
                         \/ old.epoch = new.epoch /\ old.operation = new.operation
                         \/ frame[r][new.epoch].with.retry]_harnessVars
    <2> SUFFICES ASSUME Inv, AllAskOnce, [HarnessNext]_harnessVars, NEW r \in Run,
                        NEW n \in DOMAIN attempts[r], attempts[r][n].status = "reserved",
                        attempts'[r][n].status = "dispatched",
                        KindOf[attempts[r][n].operation] = "model",
                        NEW m \in DOMAIN attempts[r] \ {n},
                        attempts[r][m].operation[1] = attempts[r][n].operation[1]
                 PROVE  LET old == attempts[r][m]
                            new == attempts[r][n]
                        IN
                        /\ old.status # "dispatched"
                        /\ old.status = "succeeded" => old.operation # new.operation
                        /\ old.status = "outcome_unknown" =>
                             \/ old.epoch = new.epoch /\ old.operation = new.operation
                             \/ frame[r][new.epoch].with.retry
      OBVIOUS
    <2>1. Silent(r) \/ \E e \in 1..MaxEpoch : Dispatch(r, e) /\ e = runs[r].epoch
      BY StepAsksOnce
    <2>2. PICK e \in 1..MaxEpoch : Dispatch(r, e) /\ e = runs[r].epoch
      BY <2>1 DEF Silent
    <2> QED BY <2>2, DispatchedIsNoRepeat DEF AllAskOnce
  <1> HIDE DEF Inv
  <1>3. Inv /\ AllAskOnce /\ [HarnessNext]_harnessVars => AllAskOnce'
    BY AsksOnceIsInductive DEF Inv
  <1>4. HarnessInit => AllAskOnce
    BY AsksOnceIsInductive
  <1> QED BY <1>1, <1>2, <1>3, <1>4, PTL DEF HarnessSpec, NoSilentRepeat

-----------------------------------------------------------------------------
(* The supervisor: what it does to runs is what RunService allows; the      *)
(* executions it knows of are bounded; a run it fails has failed for a      *)
(* reason.                                                                  *)

HostTyped ==
  /\ process \in Worker \cup {None} /\ spare \in SUBSET Worker
  /\ recovered \in BOOLEAN /\ stopping \in BOOLEAN
  /\ stopper \in {"idle", "called", "stopped", "incomplete"}
  /\ stops \in 0..MaxStops /\ faults \in 0..MaxFaults

ThreadsTyped ==
  /\ current \in Execution \cup {None}
  /\ token \in SUBSET Execution
  /\ quarantined \in SUBSET Execution
  /\ thread \in [Execution -> {"none", "running", "ended", "failed"}]

LoopTyped ==
  /\ loop \in [pc: {"none", "top", "claim", "load", "watch", "fail"},
               x: Execution \cup {None}, expired: BOOLEAN]
  /\ loop.x # None <=> loop.pc \in {"load", "watch", "fail"}

(* The execution of the loop is one of its own process. *)
LoopOwns == loop.x # None => Holder(loop.x) = process

(* What the loop watches is the current thread; before, it has none. *)
LoopWatches ==
  /\ loop.pc = "load" => thread[loop.x] = "none" /\ loop.x \notin quarantined
  /\ loop.pc = "watch" => current = loop.x /\ thread[loop.x] # "none"
  /\ current \notin quarantined

(* An absent process executes nothing. *)
Absent ==
  process = None => loop = NotRunning /\ ~stopping /\ \A x \in Execution : ~Alive(x)

(* No execution is known before its lease is granted. *)
Past ==
  \A x \in Execution :
    thread[x] # "none" \/ x \in quarantined \/ loop.x = x => x[2] <= runs[x[1]].epoch

Known == {x \in quarantined \cup {current} : x # None /\ Alive(x)}

(* There is room for an execution that is about to start. *)
Room ==
  /\ IsFiniteSet(quarantined)
  /\ Cardinality(Known) <= MaxQuarantined
  /\ loop.pc = "load" => Cardinality(Draining) < MaxQuarantined

(* What is about to be failed has a reason. *)
Blamed ==
  loop.pc = "fail" => loop.expired \/ thread[loop.x] = "failed" \/ faults > 0

Places == HostTyped /\ ThreadsTyped /\ LoopTyped /\ LoopOwns /\ LoopWatches /\ Absent /\ Past

Supervised == Typed /\ Places /\ Room /\ Blamed

-----------------------------------------------------------------------------
(* What it does to the runs *)

(* Leases are granted and never taken back: the history of a run grows. *)
LeasesGrow ==
  \A r \in Run :
    /\ runs[r].epoch \in Nat /\ runs'[r].epoch \in Nat
    /\ runs[r].epoch <= runs'[r].epoch
    /\ \A e \in 1..runs[r].epoch : leases'[r][e] = leases[r][e]

LEMMA LeasesOnlyGrow ==
  ASSUME Typed, [RunNext]_runVars
  PROVE  LeasesGrow
  <1> SUFFICES ASSUME NEW r \in Run
               PROVE  /\ runs[r].epoch \in Nat /\ runs'[r].epoch \in Nat
                      /\ runs[r].epoch <= runs'[r].epoch
                      /\ \A e \in 1..runs[r].epoch : leases'[r][e] = leases[r][e]
    BY DEF LeasesGrow
  <1>1. Whole(r) /\ StepOf(r)
    BY TypedByRun, RunSteps DEF StepKeeps
  <1>2. Typed'
    BY TypedIsInductive
  <1>3. /\ runs[r].epoch = Len(leases[r]) /\ leases[r] \in Seq(Worker) /\ runs[r].epoch \in Nat
        /\ runs'[r].epoch = Len(leases'[r]) /\ leases'[r] \in Seq(Worker) /\ runs'[r].epoch \in Nat
    BY <1>1, <1>2 DEF Whole, TypedRun, KeptRun, RunRow, Typed, RunTypeOK
  <1>4. leases'[r] = leases[r] \/ \E w \in Worker : leases'[r] = Append(leases[r], w)
    BY <1>1 DEF StepOf, CreateStep, EndStep, ResumeStep, ClaimStep, RecoverStep, AgeStep,
                OverdueStep, SearchStep, ReserveStep, DispatchStep, FinishStep, SaveStep,
                BindStep, StageStep, QuietStep, SameRow
  <1> QED BY <1>3, <1>4

(* A call that presents a lease of the history is one RunService serves. *)
LEMMA LeasesAreOfTheHistory ==
  ASSUME Typed, NEW r \in Run, NEW w, NEW e, e \in 1..MaxEpoch, WorkerLease(r, w, e)
  PROVE  e \in DOMAIN leases[r]
  <1>1. Whole(r)
    BY TypedByRun
  <1>2. e = Len(leases[r]) /\ leases[r] \in Seq(Worker)
    BY <1>1 DEF Whole, TypedRun, KeptRun, WorkerLease
  <1> QED BY <1>2

LEMMA FailIsARunStep ==
  ASSUME Supervised, loop.pc \in {"watch", "fail"},
         \/ FailRun(loop.x[1], process, loop.x[2])
         \/ HeartbeatRun(loop.x[1], process, loop.x[2])
  PROVE  RunNext
  <1>1. loop.x \in Execution /\ Holder(loop.x) = process
    BY DEF Supervised, Places, LoopTyped, LoopOwns
  <1>2. loop.x[1] \in Run /\ loop.x[2] \in 1..MaxEpoch
    BY <1>1 DEF Execution
  <1>3. WorkerLease(loop.x[1], process, loop.x[2])
    BY DEF FailRun, HeartbeatRun
  <1>4. loop.x[2] \in DOMAIN leases[loop.x[1]]
    BY <1>2, <1>3, LeasesAreOfTheHistory DEF Supervised
  <1>5. Leased(loop.x[1], leases[loop.x[1]][loop.x[2]], loop.x[2])
    BY <1>1 DEF Holder, Leased
  <1> QED BY <1>2, <1>4, <1>5 DEF RunNext, Serve

LEMMA ExecutorIsARunStep ==
  ASSUME Supervised, NEW x \in Execution,
         \/ AppendStageEvent(x[1], Holder(x), x[2])
         \/ PublishTerminalResult(x[1], Holder(x), x[2], "succeeded")
  PROVE  RunNext
  <1>1. x[1] \in Run /\ x[2] \in 1..MaxEpoch
    BY DEF Execution
  <1>2. WorkerLease(x[1], Holder(x), x[2])
    BY DEF AppendStageEvent, PublishTerminalResult
  <1>3. x[2] \in DOMAIN leases[x[1]]
    BY <1>1, <1>2, LeasesAreOfTheHistory DEF Supervised
  <1>4. Leased(x[1], leases[x[1]][x[2]], x[2])
    BY DEF Holder, Leased, Work, Answered
  <1> QED BY <1>1, <1>3, <1>4 DEF RunNext, Serve

(* While the loop is up its process is. *)
LEMMA LoopIsHosted ==
  ASSUME Supervised, loop.pc # "none"
  PROVE  process \in Worker
  BY DEF Supervised, Places, HostTyped, Absent, NotRunning

LEMMA RecoveryIsARunStep ==
  ASSUME NEW batch \in SUBSET Stale, RecoveryPass(batch) \/ RecoverStaleRuns(batch)
  PROVE  [RunNext]_runVars
  BY DEF RecoveryPass, RunNext, Serve

(* Whatever the supervisor does, to the runs it is a step of RunService or  *)
(* nothing.                                                                 *)
LEMMA StepsAreRunSteps ==
  ASSUME Supervised, [SupervisorNext]_vars
  PROVE  [RunNext]_runVars
  <1>1. CASE UNCHANGED vars
    BY <1>1 DEF vars
  <1>2. CASE Host
    <2>1. CASE StartSupervisor
      BY <2>1, RecoveryIsARunStep DEF StartSupervisor
    <2>2. CASE ProcessExit \/ Crash
      BY <2>2 DEF ProcessExit, Crash, ProcessGone
    <2> QED BY <1>2, <2>1, <2>2 DEF Host, NewProcess, StopCalled, StopReturns
  <1>3. CASE LoopStep
    <2>1. CASE LoopFault
      <3>1. ASSUME NEW r \in Run, loop.pc = "claim", ClaimNextRun(r, process) PROVE RunNext
        BY <3>1, LoopIsHosted DEF RunNext, Serve
      <3>2. ASSUME loop.pc = "fail", FailRun(loop.x[1], process, loop.x[2]) PROVE RunNext
        BY <3>2, FailIsARunStep
      <3> QED BY <2>1, <3>1, <3>2, RecoveryIsARunStep DEF LoopFault
    <2>2. ASSUME NEW batch \in SUBSET Stale, Recover(batch) PROVE [RunNext]_runVars
      BY <2>2, RecoveryIsARunStep DEF Recover
    <2>3. ASSUME NEW r \in Run, Claim(r) PROVE RunNext
      BY <2>3, LoopIsHosted DEF Claim, RunNext, Serve
    <2>4. CASE Heartbeat
      BY <2>4, FailIsARunStep DEF Heartbeat
    <2>5. CASE SafeFail
      BY <2>5, FailIsARunStep DEF SafeFail
    <2>6. CASE LoopExit \/ RecoveryNotDue \/ ClaimNothing
      BY <2>6 DEF LoopExit, RecoveryNotDue, ClaimNothing
    <2>7. CASE Load \/ LoadFault \/ ExecutionDone \/ StopSeen \/ ExecutionTimeout
      BY <2>7 DEF Load, LoadFault, ExecutionDone, StopSeen, ExecutionTimeout
    <2> QED BY <1>3, <2>1, <2>2, <2>3, <2>4, <2>5, <2>6, <2>7 DEF LoopStep
  <1>4. ASSUME NEW x \in Execution, Deliver(x) PROVE RunNext
    BY <1>4, ExecutorIsARunStep DEF Deliver
  <1>5. ASSUME NEW x \in Execution, PublishAnswer(x) PROVE RunNext
    BY <1>5, ExecutorIsARunStep DEF PublishAnswer
  <1>6. ASSUME NEW x \in Execution, NEW how, ThreadEnds(x, how) PROVE UNCHANGED runVars
    BY <1>6 DEF ThreadEnds
  <1>7. CASE ExecutionExpires
    BY <1>7 DEF ExecutionExpires
  <1>8. ASSUME NEW r \in Run, Elapse(Own(r) \/ Tick(r)) PROVE RunNext
    BY <1>8 DEF Elapse, RunNext, Clock
  <1> QED BY <1>1, <1>2, <1>3, <1>4, <1>5, <1>6, <1>7, <1>8 DEF SupervisorNext, Executor

-----------------------------------------------------------------------------
(* What it knows of its executions *)

(* How far the runs are, as the supervisor sees it, only grows.             *)
LEMMA PastStays ==
  ASSUME LeasesGrow, NEW x \in Execution, x[2] <= runs[x[1]].epoch
  PROVE  x[2] <= runs'[x[1]].epoch /\ Holder(x)' = Holder(x)
  <1>1. x[1] \in Run /\ x[2] \in 1..MaxEpoch /\ x[2] \in Nat
    BY DEF Execution
  <1>2. x[2] \in 1..runs[x[1]].epoch
    BY <1>1 DEF LeasesGrow
  <1> QED BY <1>1, <1>2 DEF LeasesGrow, Holder

(* Steps after which nothing new is known: the threads that were known and  *)
(* run are still the same ones or fewer.                                    *)
LEMMA NothingNewIsKnown ==
  ASSUME Supervised, IsFiniteSet(quarantined'), Known' \subseteq Known,
         loop'.pc = "load" => loop.pc = "load" /\ Draining' \subseteq Draining
  PROVE  Room'
  <1>1. IsFiniteSet(quarantined) /\ Cardinality(Known) <= MaxQuarantined
        /\ (loop.pc = "load" => Cardinality(Draining) < MaxQuarantined)
    BY DEF Supervised, Room
  <1>2. IsFiniteSet(quarantined \cup {current})
    BY <1>1, FS_AddElement
  <1>3. IsFiniteSet(Known) /\ IsFiniteSet(Draining)
    BY <1>1, <1>2, FS_Subset DEF Known, Draining
  <1>4. Cardinality(Known') <= Cardinality(Known)
    BY <1>3, FS_Subset
  <1>5. Cardinality(Known) \in Nat /\ Cardinality(Known') \in Nat
    BY <1>3, FS_Subset, FS_CardinalityType
  <1>6. Cardinality(Known') <= MaxQuarantined
    BY <1>1, <1>4, <1>5, SupervisorLimits
  <1>7. ASSUME loop'.pc = "load" PROVE Cardinality(Draining') < MaxQuarantined
    <2>1. Cardinality(Draining') <= Cardinality(Draining)
      BY <1>3, <1>7, FS_Subset
    <2>2. Cardinality(Draining) \in Nat /\ Cardinality(Draining') \in Nat
      BY <1>3, <1>7, FS_Subset, FS_CardinalityType
    <2> QED BY <1>1, <1>7, <2>1, <2>2, SupervisorLimits
  <1> QED BY <1>6, <1>7 DEF Room

(* The parts of the state that an action moves, for those that grant no     *)
(* lease and start no thread.                                               *)
Fewer ==
  /\ loop'.x \in {loop.x, None} /\ process' = process
  /\ \A x \in Execution :
       /\ thread'[x] # "none" => thread[x] # "none"
       /\ x \in quarantined' => x \in quarantined \/ loop.x = x

LEMMA FewerKeeps ==
  ASSUME Supervised, LeasesGrow, Fewer
  PROVE  LoopOwns' /\ Past'
  <1>1. Places
    BY DEF Supervised
  <1>2. ASSUME NEW x \in Execution, thread'[x] # "none" \/ x \in quarantined' \/ loop'.x = x
        PROVE  x[2] <= runs'[x[1]].epoch
    <2>1. x[2] <= runs[x[1]].epoch
      BY <1>1, <1>2, NullIsNoExecution DEF Fewer, Places, Past
    <2> QED BY <2>1, PastStays
  <1>3. ASSUME loop'.x # None PROVE leases'[loop'.x[1]][loop'.x[2]] = process'
    <2>1. loop'.x = loop.x /\ loop.x \in Execution /\ Holder(loop.x) = process
      BY <1>1, <1>3 DEF Fewer, Places, LoopTyped, LoopOwns
    <2>2. PICK x \in Execution : x = loop.x
      BY <2>1
    <2>3. x[2] <= runs[x[1]].epoch
      BY <1>1, <2>2 DEF Places, Past
    <2>4. Holder(x)' = Holder(x)
      BY <2>3, PastStays
    <2> QED BY <2>1, <2>2, <2>4 DEF Fewer, Holder
  <1> QED BY <1>2, <1>3 DEF LoopOwns, Past, Holder

-----------------------------------------------------------------------------
(* The steps of the host *)

LEMMA HostKeeps ==
  ASSUME Supervised, LeasesGrow, Host
  PROVE  Places' /\ Room' /\ Blamed'
  <1> USE DEF Places, HostTyped, ThreadsTyped, LoopTyped, LoopWatches, Absent
  <1>0. Places /\ IsFiniteSet(quarantined)
    BY DEF Supervised, Room
  <1>1. CASE NewProcess
    <2> USE <1>1 DEF NewProcess, threadVars
    <2>1. process' \in Worker
      BY <1>0
    <2>2. HostTyped' /\ ThreadsTyped' /\ LoopTyped' /\ LoopWatches' /\ Absent' /\ Blamed'
      BY <1>0, <2>1, NullIsNoRow DEF Alive, NotRunning, Blamed, Supervised
    <2>3. Past' /\ LoopOwns'
      BY <1>0 DEF NotRunning, Past, LoopOwns, runVars
    <2>4. Room'
      BY <1>0, NothingNewIsKnown DEF Known, Draining, Alive
    <2> QED BY <2>2, <2>3, <2>4
  <1>2. CASE ProcessGone
    <2> USE <1>2 DEF ProcessGone
    <2>1. HostTyped' /\ ThreadsTyped' /\ LoopTyped' /\ LoopWatches' /\ Absent'
      BY <1>0, NullIsNoExecution DEF Alive, NotRunning
    <2>2. Past' /\ LoopOwns' /\ Blamed'
      BY NullIsNoExecution DEF NotRunning, Past, LoopOwns, Blamed
    <2>3. Room'
      <3>1. Known' = {} /\ Draining' = {}
        BY DEF Known, Draining
      <3> QED BY <3>1, FS_EmptySet, NothingNewIsKnown DEF NotRunning
    <2> QED BY <2>1, <2>2, <2>3
  <1>3. CASE StartSupervisor
    <2>0. /\ process # None /\ loop' = Top /\ quarantined' = {} /\ stopping' = FALSE
          /\ stopper' = "idle" /\ recovered' \in BOOLEAN
          /\ UNCHANGED <<process, spare, stops, current, token, thread>>
          /\ UNCHANGED faults \/ Fault
      BY <1>3 DEF StartSupervisor
    <2>1. HostTyped' /\ ThreadsTyped' /\ LoopTyped' /\ LoopWatches' /\ Absent'
      <3>1. faults' \in 0..MaxFaults
        BY <1>0, <2>0, SupervisorLimits DEF Fault
      <3> QED BY <1>0, <2>0, <3>1 DEF Top
    <2>2. Fewer
      BY <2>0 DEF Fewer, Top
    <2>3. Blamed'
      BY <2>0 DEF Blamed, Top
    <2>4. Room'
      <3>1. Known' \subseteq Known
        BY <2>0 DEF Known, Alive
      <3> QED BY <2>0, <3>1, FS_EmptySet, NothingNewIsKnown DEF Top
    <2> QED BY <2>1, <2>2, <2>3, <2>4, FewerKeeps
  <1>4. CASE StopCalled
    <2> USE <1>4 DEF StopCalled
    <2>1. HostTyped' /\ ThreadsTyped' /\ LoopTyped' /\ LoopWatches' /\ Absent'
      BY <1>0, SupervisorLimits DEF Alive
    <2>2. Fewer
      BY DEF Fewer
    <2>3. Blamed'
      BY DEF Blamed, Supervised
    <2>4. Room'
      BY <1>0, NothingNewIsKnown DEF Known, Draining, Alive
    <2> QED BY <2>1, <2>2, <2>3, <2>4, FewerKeeps
  <1>5. CASE StopReturns
    <2> USE <1>5 DEF StopReturns
    <2>0. quarantined' \subseteq quarantined
      BY DEF Draining
    <2>1. HostTyped' /\ ThreadsTyped' /\ LoopTyped' /\ LoopWatches' /\ Absent'
      BY <1>0, <2>0 DEF StopAnswer, Alive
    <2>2. Fewer
      BY <2>0 DEF Fewer
    <2>3. Blamed'
      BY DEF Blamed, Supervised
    <2>4. Room'
      <3>1. IsFiniteSet(quarantined')
        BY <1>0, <2>0, FS_Subset
      <3>2. Known' \subseteq Known /\ Draining' \subseteq Draining
        BY <2>0 DEF Known, Draining, Alive
      <3> QED BY <3>1, <3>2, NothingNewIsKnown
    <2> QED BY <2>1, <2>2, <2>3, <2>4, FewerKeeps
  <1> QED BY <1>1, <1>2, <1>3, <1>4, <1>5 DEF Host, ProcessExit, Crash

-----------------------------------------------------------------------------
(* The steps of the loop *)

LoopRow ==
  [pc: {"none", "top", "claim", "load", "watch", "fail"}, x: Execution \cup {None},
   expired: BOOLEAN]

(* Where the loop goes, it takes its execution along. *)
LEMMA LoopMoves ==
  ASSUME loop \in LoopRow, NEW pc \in {"claim", "watch", "fail"}, Goto(pc)
  PROVE  /\ loop' \in LoopRow
         /\ loop'.pc = pc /\ loop'.x = loop.x /\ loop'.expired = loop.expired
  BY DEF LoopRow, Goto

LEMMA LoopRests ==
  /\ NotRunning \in LoopRow /\ NotRunning.pc = "none" /\ NotRunning.x = None
  /\ Top \in LoopRow /\ Top.pc = "top" /\ Top.x = None
  BY DEF LoopRow, NotRunning, Top

(* The steps that change neither a thread nor what is known.                *)
LEMMA LoopTurns ==
  ASSUME Supervised, LeasesGrow,
         \/ LoopExit \/ RecoveryNotDue \/ ClaimNothing \/ LoopFault
         \/ \E batch \in SUBSET Stale : Recover(batch)
         \/ Heartbeat \/ LoadFault \/ SafeFail \/ ExecutionDone
  PROVE  Places' /\ Room' /\ Blamed'
  <1>0. Places /\ IsFiniteSet(quarantined) /\ Blamed
    BY DEF Supervised, Room
  <1>1. /\ UNCHANGED <<hostVars, thread>>
        /\ current' \in {current, None} /\ token' \subseteq token
        /\ quarantined' \in {quarantined, Draining}
        /\ recovered' \in BOOLEAN /\ faults' \in 0..MaxFaults /\ faults <= faults'
        /\ UNCHANGED stopping
    <2>1. faults \in 0..MaxFaults /\ recovered \in BOOLEAN
      BY <1>0 DEF Places, HostTyped
    <2>2. UNCHANGED faults \/ Fault => faults' \in 0..MaxFaults /\ faults <= faults'
      BY <2>1, SupervisorLimits DEF Fault
    <2>3. CASE LoopExit \/ RecoveryNotDue \/ LoopFault
      BY <2>1, <2>2, <2>3 DEF LoopExit, RecoveryNotDue, LoopFault, threadVars
    <2>4. CASE ClaimNothing
      BY <2>1, <2>2, <2>4 DEF ClaimNothing
    <2>5. ASSUME NEW batch \in SUBSET Stale, Recover(batch)
          PROVE  UNCHANGED <<hostVars, stopping, threadVars, faults>> /\ recovered' = TRUE
      BY <2>5 DEF Recover
    <2>6. CASE Heartbeat \/ LoadFault \/ SafeFail
      BY <2>1, <2>2, <2>6 DEF Heartbeat, LoadFault, SafeFail, threadVars
    <2>7. CASE ExecutionDone
      BY <2>1, <2>2, <2>7 DEF ExecutionDone, Forget
    <2> QED BY <2>2, <2>3, <2>4, <2>5, <2>6, <2>7 DEF threadVars
  <1>2. /\ loop.pc # "none"
        /\ \/ loop' \in {NotRunning, Top}
           \/ Goto("claim") /\ loop.x = None
           \/ loop' = loop /\ loop.pc = "watch" /\ current' = current
           \/ Goto("fail") /\ loop.pc \in {"load", "watch"}
              /\ (thread[loop.x] = "failed" \/ faults' > 0)
    <2>1. loop.pc \notin {"load", "watch", "fail"} => loop.x = None
      BY <1>0 DEF Places, LoopTyped
    <2>2. faults \in Nat
      BY <1>0 DEF Places, HostTyped
    <2>3. CASE LoopExit \/ RecoveryNotDue \/ ClaimNothing \/ LoopFault
      BY <2>3, <2>1 DEF LoopExit, RecoveryNotDue, ClaimNothing, LoopFault
    <2>4. ASSUME NEW batch \in SUBSET Stale, Recover(batch)
          PROVE  Goto("claim") /\ loop.pc = "top"
      BY <2>4 DEF Recover
    <2>5. CASE Heartbeat
      BY <2>5, <2>2 DEF Heartbeat, Fault, threadVars
    <2>6. CASE LoadFault \/ SafeFail
      BY <2>6, <2>2 DEF LoadFault, SafeFail, Fault
    <2>7. CASE ExecutionDone
      BY <2>7 DEF ExecutionDone
    <2> QED BY <2>1, <2>3, <2>4, <2>5, <2>6, <2>7
  <1>3. quarantined' \subseteq quarantined /\ process # None
    BY <1>0, <1>1, <1>2, LoopIsHosted, NullIsNoRow DEF Draining
  <1>4. HostTyped' /\ ThreadsTyped'
    BY <1>0, <1>1, <1>3 DEF Places, HostTyped, ThreadsTyped, hostVars
  <1>5. loop.x = None \/ loop.x \in Execution
    BY <1>0 DEF Places, LoopTyped
  <1>6. /\ loop' \in LoopRow
        /\ \/ loop'.pc \in {"none", "top", "claim"} /\ loop'.x = None
           \/ loop' = loop /\ loop.pc = "watch" /\ current' = current
           \/ loop'.pc = "fail" /\ loop'.x = loop.x /\ loop'.x # None
              /\ (thread[loop.x] = "failed" \/ faults' > 0)
    <2>1. loop \in LoopRow /\ (loop.pc \in {"load", "watch"} => loop.x # None)
      BY <1>0 DEF Places, LoopTyped, LoopRow
    <2> QED BY <1>2, <2>1, LoopMoves, LoopRests
  <1>7. LoopTyped' /\ LoopWatches'
    <2>1. LoopTyped'
      BY <1>0, <1>6 DEF Places, LoopTyped, LoopRow
    <2>2. current \in Execution \cup {None} /\ quarantined \subseteq Execution
      BY <1>0 DEF Places, ThreadsTyped
    <2> QED BY <1>0, <1>1, <1>3, <1>6, <2>1, <2>2, NullIsNoExecution DEF Places, LoopWatches
  <1>8. Absent'
    BY <1>1, <1>3 DEF Absent, hostVars
  <1>9. Fewer
    <2>1. loop'.x \in {loop.x, None}
      BY <1>6
    <2> QED BY <1>1, <1>3, <2>1 DEF Fewer, hostVars
  <1>10. Room'
    <2>1. IsFiniteSet(quarantined')
      BY <1>0, <1>3, FS_Subset
    <2>2. Known' \subseteq Known
      BY <1>1, <1>3 DEF Known, Alive
    <2>3. loop'.pc # "load"
      BY <1>6
    <2> QED BY <2>1, <2>2, <2>3, NothingNewIsKnown
  <1>11. Blamed'
    BY <1>1, <1>6 DEF Blamed
  <1> QED BY <1>4, <1>7, <1>8, <1>9, <1>10, <1>11, FewerKeeps DEF Places

(* The execution that is watched is given up: it joins the quarantine.      *)
LEMMA WatchIsLeft ==
  ASSUME Supervised, LeasesGrow, StopSeen \/ ExecutionTimeout
  PROVE  Places' /\ Room' /\ Blamed'
  <1>0. Places /\ IsFiniteSet(quarantined)
    BY DEF Supervised, Room
  <1>1. /\ UNCHANGED <<hostVars, thread, recovered, stopping, faults>>
        /\ loop.pc = "watch" /\ current' = None /\ token' \subseteq token
        /\ quarantined' = quarantined \cup {loop.x}
        /\ loop' = Top \/ (Goto("fail") /\ loop.expired)
    BY DEF StopSeen, ExecutionTimeout, Forget, AfterStop, TimedOut
  <1>2. loop.x \in Execution /\ current = loop.x /\ process # None
    BY <1>0, <1>1, LoopIsHosted, NullIsNoRow DEF Places, LoopTyped, LoopWatches
  <1>3. /\ loop' \in LoopRow
        /\ \/ loop'.pc = "top" /\ loop'.x = None
           \/ loop'.pc = "fail" /\ loop'.x = loop.x /\ loop'.expired
    <2>1. loop \in LoopRow
      BY <1>0 DEF Places, LoopTyped, LoopRow
    <2> QED BY <1>1, <2>1, LoopMoves, LoopRests
  <1>4. /\ HostTyped' /\ ThreadsTyped' /\ LoopTyped' /\ LoopWatches' /\ Absent'
        /\ Fewer
    <2>1. HostTyped' /\ ThreadsTyped'
      BY <1>0, <1>1, <1>2 DEF Places, HostTyped, ThreadsTyped, hostVars
    <2>2. LoopTyped'
      BY <1>2, <1>3, NullIsNoExecution DEF LoopTyped, LoopRow
    <2>3. LoopWatches'
      BY <1>0, <1>1, <1>2, <1>3, NullIsNoExecution DEF Places, ThreadsTyped, LoopWatches
    <2>4. Absent' /\ Fewer
      BY <1>1, <1>2, <1>3 DEF Absent, Fewer, hostVars
    <2> QED BY <2>1, <2>2, <2>3, <2>4
  <1>5. Room'
    <2>1. IsFiniteSet(quarantined')
      BY <1>0, <1>1, FS_AddElement
    <2>2. Known' \subseteq Known
      BY <1>1, <1>2 DEF Known, Alive
    <2> QED BY <1>3, <2>1, <2>2, NothingNewIsKnown
  <1>6. Blamed'
    BY <1>3 DEF Blamed
  <1> QED BY <1>4, <1>5, <1>6, FewerKeeps DEF Places

(* A claim is a lease nobody has had: the execution is new, and there is    *)
(* room for it.                                                             *)
LEMMA ClaimKeeps ==
  ASSUME Supervised, LeasesGrow, NEW r \in Run, Claim(r)
  PROVE  Places' /\ Room' /\ Blamed'
  <1>x. PICK x : x = <<r, runs[r].epoch + 1>>
    OBVIOUS
  <1>0. Places /\ IsFiniteSet(quarantined) /\ Typed /\ loop.pc = "claim"
        /\ process \in Worker
    BY LoopIsHosted DEF Supervised, Room, Claim
  <1>1. /\ UNCHANGED <<hostVars, thread, current, token, recovered, stopping, faults>>
        /\ loop' = [Top EXCEPT !.pc = "load", !.x = x]
        /\ quarantined' = Draining /\ HasCapacity /\ ClaimNextRun(r, process)
    BY <1>x DEF Claim
  <1>2. /\ runs[r].epoch \in 0..(MaxEpoch - 1) /\ runs'[r].epoch = runs[r].epoch + 1
        /\ Holder(x)' = process
    <2>1. Whole(r) /\ runs \in [Run -> RunRow] /\ leases \in [Run -> Seq(Worker)]
      BY <1>0, TypedByRun DEF Typed, RunTypeOK
    <2>2. runs[r].epoch \in Nat /\ runs[r].epoch = Len(leases[r]) /\ leases[r] \in Seq(Worker)
      BY <2>1 DEF Whole, KeptRun, RunRow
    <2>3. runs[r].epoch < MaxEpoch /\ leases'[r] = Append(leases[r], process)
      BY <1>1, <2>1 DEF ClaimNextRun
    <2>4. runs'[r].epoch = runs[r].epoch + 1
      BY <1>1, <2>1 DEF ClaimNextRun, Transition, RunRow
    <2>5. leases'[x[1]][x[2]] = process
      BY <1>0, <1>x, <2>2, <2>3
    <2> QED BY <2>2, <2>3, <2>4, <2>5, RunLimits DEF Holder
  <1>3. x \in Execution /\ x # None
    BY <1>x, <1>2, RunLimits, NullIsNoExecution DEF Execution
  <1>4. thread[x] = "none" /\ x \notin quarantined
    <2>1. ~(x[2] <= runs[x[1]].epoch)
      BY <1>x, <1>2
    <2> QED BY <1>0, <1>3, <2>1 DEF Places, Past
  <1>5. loop' \in LoopRow /\ loop'.pc = "load" /\ loop'.x = x
    BY <1>1, <1>3 DEF LoopRow, Top
  <1>6. /\ HostTyped' /\ ThreadsTyped' /\ LoopTyped' /\ LoopWatches' /\ Absent'
    <2>1. HostTyped' /\ ThreadsTyped'
      BY <1>0, <1>1 DEF Places, HostTyped, ThreadsTyped, hostVars, Draining
    <2>2. LoopTyped'
      BY <1>3, <1>5 DEF LoopTyped, LoopRow
    <2>3. LoopWatches'
      BY <1>0, <1>1, <1>4, <1>5 DEF Places, LoopWatches, Draining
    <2>4. Absent'
      BY <1>0, <1>1, NullIsNoRow DEF Absent, hostVars
    <2> QED BY <2>1, <2>2, <2>3, <2>4
  <1>7. LoopOwns' /\ Past'
    <2>1. LoopOwns'
      BY <1>1, <1>2, <1>5 DEF LoopOwns, Holder, hostVars
    <2>2. ASSUME NEW y \in Execution, thread'[y] # "none" \/ y \in quarantined' \/ loop'.x = y
          PROVE  y[2] <= runs'[y[1]].epoch
      <3>1. CASE y = x
        BY <1>x, <1>2, <3>1
      <3>2. CASE y # x
        <4>1. y[2] <= runs[y[1]].epoch
          BY <1>0, <1>1, <1>5, <2>2, <3>2 DEF Places, Past, Draining
        <4> QED BY <4>1, PastStays
      <3> QED BY <3>1, <3>2
    <2> QED BY <2>1, <2>2 DEF Past
  <1>8. Room'
    <2>1. IsFiniteSet(Draining) /\ IsFiniteSet(quarantined \cup {current})
      BY <1>0, FS_Subset, FS_AddElement DEF Draining
    <2>2. Draining' = Draining /\ Known' \subseteq Known /\ IsFiniteSet(Known)
      BY <1>1, <2>1, FS_Subset DEF Draining, Known, Alive
    <2>3. Cardinality(Known) <= MaxQuarantined
      BY DEF Supervised, Room
    <2>4. Cardinality(Known') <= Cardinality(Known) /\ Cardinality(Known) \in Nat
          /\ Cardinality(Known') \in Nat
      BY <2>2, FS_Subset, FS_CardinalityType
    <2>5. Cardinality(Known') <= MaxQuarantined
      BY <2>3, <2>4, SupervisorLimits
    <2>6. IsFiniteSet(quarantined') /\ Cardinality(Draining') < MaxQuarantined
      BY <1>1, <2>1, <2>2 DEF HasCapacity
    <2> QED BY <2>5, <2>6 DEF Room
  <1>9. Blamed'
    BY <1>5 DEF Blamed
  <1> QED BY <1>6, <1>7, <1>8, <1>9 DEF Places

(* The execution starts: it is known from now on, beside those that drain.  *)
LEMMA LoadKeeps ==
  ASSUME Supervised, LeasesGrow, Load
  PROVE  Places' /\ Room' /\ Blamed'
  <1>0. Places /\ IsFiniteSet(quarantined) /\ loop.pc = "load" /\ process # None
    BY LoopIsHosted, NullIsNoRow DEF Supervised, Room, Load
  <1>1. UNCHANGED <<hostVars, recovered, stopping, quarantined, faults>>
    BY DEF Load
  <1>2. loop \in LoopRow /\ loop.x \in Execution /\ loop.x \notin quarantined
    BY <1>0 DEF Places, LoopTyped, LoopWatches, LoopRow
  <1>3. CASE loop' = Top /\ UNCHANGED <<current, token, thread>>
    <2>1. HostTyped' /\ ThreadsTyped' /\ LoopTyped' /\ LoopWatches' /\ Absent'
      <3>1. HostTyped' /\ ThreadsTyped'
        BY <1>0, <1>1, <1>3 DEF Places, HostTyped, ThreadsTyped, hostVars
      <3>2. loop' \in LoopRow /\ loop'.pc = "top" /\ loop'.x = None
        BY <1>3, LoopRests
      <3>3. LoopTyped' /\ LoopWatches' /\ Absent'
        BY <1>0, <1>1, <1>3, <3>2 DEF Places, LoopTyped, LoopRow, LoopWatches, Absent, hostVars
      <3> QED BY <3>1, <3>3
    <2>2. Fewer
      BY <1>1, <1>3 DEF Fewer, hostVars, Top
    <2>3. Known' = Known
      BY <1>1, <1>3 DEF Known, Alive
    <2>4. Room' /\ Blamed'
      BY <1>0, <1>1, <1>3, <2>3, NothingNewIsKnown DEF Top, Blamed
    <2> QED BY <2>1, <2>2, <2>4, FewerKeeps DEF Places
  <1>4. CASE /\ Goto("watch") /\ current' = loop.x /\ token' = token \cup {loop.x}
             /\ thread' = [thread EXCEPT ![loop.x] = "running"]
    <2>0. loop' \in LoopRow /\ loop'.pc = "watch" /\ loop'.x = loop.x
      BY <1>2, <1>4, LoopMoves
    <2>1. thread \in [Execution -> {"none", "running", "ended", "failed"}]
      BY <1>0 DEF Places, ThreadsTyped
    <2>2. /\ thread'[loop.x] = "running"
          /\ \A x \in Execution : x # loop.x => thread'[x] = thread[x]
      BY <1>2, <1>4, <2>1
    <2>3. HostTyped' /\ ThreadsTyped'
      BY <1>0, <1>1, <1>2, <1>4 DEF Places, HostTyped, ThreadsTyped, hostVars
    <2>4. LoopTyped'
      BY <1>2, <2>0, NullIsNoExecution DEF LoopTyped, LoopRow
    <2>5. LoopWatches'
      BY <1>1, <1>2, <1>4, <2>0, <2>2 DEF LoopWatches
    <2>6. Absent'
      BY <1>0, <1>1 DEF Absent, hostVars
    <2>7. LoopOwns' /\ Past'
      <3>1. loop.x[2] <= runs[loop.x[1]].epoch /\ Holder(loop.x) = process
        BY <1>0, <1>2, NullIsNoExecution DEF Places, Past, LoopOwns
      <3>2. LoopOwns'
        <4>1. PICK x \in Execution : x = loop.x
          BY <1>2
        <4>2. Holder(x)' = Holder(x)
          BY <3>1, <4>1, PastStays
        <4> QED BY <1>1, <2>0, <3>1, <4>1, <4>2 DEF LoopOwns, Holder, hostVars
      <3>3. ASSUME NEW x \in Execution, thread'[x] # "none" \/ x \in quarantined' \/ loop'.x = x
            PROVE  x[2] <= runs'[x[1]].epoch
        <4>1. x[2] <= runs[x[1]].epoch
          BY <1>0, <1>1, <2>0, <2>2, <3>1, <3>3 DEF Places, Past
        <4> QED BY <4>1, PastStays
      <3> QED BY <3>2, <3>3 DEF Past
    <2>8. Room'
      <3>1. Known' = Draining \cup {loop.x} /\ loop.x \notin Draining
        <4>1. quarantined \subseteq Execution
          BY <1>0 DEF Places, ThreadsTyped
        <4>2. Known' = {x \in quarantined \cup {loop.x} : x # None /\ thread'[x] = "running"}
          BY <1>1, <1>4 DEF Known, Alive
        <4>3. ASSUME NEW x
              PROVE  x \in Known' <=> x \in Draining \cup {loop.x}
          BY <1>2, <2>2, <4>1, <4>2, NullIsNoExecution DEF Draining, Alive
        <4> QED BY <1>2, <4>3 DEF Draining
      <3>2. IsFiniteSet(Draining) /\ Cardinality(Draining) < MaxQuarantined
        BY <1>0, FS_Subset DEF Draining, Supervised, Room
      <3>3. Cardinality(Known') = Cardinality(Draining) + 1 /\ Cardinality(Draining) \in Nat
        BY <3>1, <3>2, FS_AddElement, FS_CardinalityType
      <3>4. Cardinality(Known') <= MaxQuarantined
        BY <3>2, <3>3, SupervisorLimits
      <3> QED BY <1>0, <1>1, <2>0, <3>4 DEF Room
    <2>9. Blamed'
      BY <2>0 DEF Blamed
    <2> QED BY <2>3, <2>4, <2>5, <2>6, <2>7, <2>8, <2>9 DEF Places
  <1> QED BY <1>3, <1>4 DEF Load

-----------------------------------------------------------------------------
(* The executor threads, and time *)

LEMMA OthersKeep ==
  ASSUME Supervised, LeasesGrow,
         \/ Executor \/ ExecutionExpires \/ \E r \in Run : Elapse(Own(r) \/ Tick(r))
         \/ UNCHANGED vars
  PROVE  Places' /\ Room' /\ Blamed'
  <1>0. Places /\ IsFiniteSet(quarantined) /\ Blamed
    BY DEF Supervised, Room
  <1>1. /\ UNCHANGED <<hostVars, current, token, quarantined, recovered, stopping, faults>>
        /\ loop' \in {loop, [loop EXCEPT !.expired = TRUE]}
        /\ \/ thread' = thread
           \/ \E x \in Execution, how \in {"ended", "failed"} :
                Alive(x) /\ thread' = [thread EXCEPT ![x] = how]
    <2>1. CASE Executor
      BY <2>1 DEF Executor, Deliver, PublishAnswer, ThreadEnds, threadVars
    <2>2. CASE ExecutionExpires
      BY <2>2 DEF ExecutionExpires, threadVars
    <2>3. ASSUME NEW r \in Run, Elapse(Own(r) \/ Tick(r))
          PROVE  UNCHANGED <<hostVars, loop, recovered, stopping, threadVars, faults>>
      BY <2>3 DEF Elapse
    <2> QED BY <2>1, <2>2, <2>3 DEF vars, threadVars
  <1>2. /\ loop' \in LoopRow /\ loop'.pc = loop.pc /\ loop'.x = loop.x
        /\ loop.expired => loop'.expired
    <2>1. loop \in LoopRow
      BY <1>0 DEF Places, LoopTyped, LoopRow
    <2> QED BY <1>1, <2>1 DEF LoopRow
  <1>3. /\ thread' \in [Execution -> {"none", "running", "ended", "failed"}]
        /\ \A x \in Execution :
             /\ thread'[x] = "none" <=> thread[x] = "none"
             /\ thread'[x] = "running" => thread[x] = "running"
             /\ thread[x] = "failed" => thread'[x] = "failed"
    <2>1. thread \in [Execution -> {"none", "running", "ended", "failed"}]
      BY <1>0 DEF Places, ThreadsTyped
    <2>2. CASE thread' = thread
      BY <2>1, <2>2
    <2>3. ASSUME NEW x \in Execution, NEW how \in {"ended", "failed"}, thread[x] = "running",
                 thread' = [thread EXCEPT ![x] = how]
          PROVE  <1>3!1 /\ <1>3!2
      BY <2>1, <2>3
    <2> QED BY <1>1, <2>2, <2>3 DEF Alive
  <1>4. /\ loop.x \in Execution \cup {None} /\ current \in Execution \cup {None}
        /\ quarantined \subseteq Execution
    BY <1>0 DEF Places, LoopTyped, ThreadsTyped
  <1>5. HostTyped' /\ ThreadsTyped' /\ LoopTyped'
    <2>1. HostTyped' /\ ThreadsTyped'
      BY <1>0, <1>1, <1>3 DEF Places, HostTyped, ThreadsTyped, hostVars
    <2> QED BY <1>0, <1>2, <2>1 DEF Places, LoopTyped, LoopRow
  <1>6. LoopWatches'
    BY <1>0, <1>1, <1>2, <1>3, <1>4, NullIsNoExecution DEF Places, LoopTyped, LoopWatches
  <1>7. Absent'
    <2> SUFFICES ASSUME process' = None
                 PROVE  loop' = NotRunning /\ ~stopping' /\ \A x \in Execution : ~Alive(x)'
      BY DEF Absent
    <2>1. loop = NotRunning /\ ~stopping /\ \A x \in Execution : ~Alive(x)
      BY <1>0, <1>1 DEF Places, Absent, hostVars
    <2>2. loop' = loop
      <3>1. ~ExecutionExpires
        BY <2>1 DEF ExecutionExpires, NotRunning
      <3>2. CASE Executor
        BY <3>2 DEF Executor, Deliver, PublishAnswer, ThreadEnds
      <3>3. ASSUME NEW r \in Run, Elapse(Own(r) \/ Tick(r)) PROVE loop' = loop
        BY <3>3 DEF Elapse
      <3> QED BY <3>1, <3>2, <3>3 DEF vars
    <2> QED BY <1>1, <1>3, <2>1, <2>2 DEF Alive
  <1>8. Fewer
    BY <1>1, <1>2, <1>3 DEF Fewer, hostVars
  <1>9. Room'
    <2>1. Known' \subseteq Known /\ Draining' \subseteq Draining
      BY <1>1, <1>3, <1>4 DEF Known, Draining, Alive
    <2> QED BY <1>0, <1>1, <1>2, <2>1, NothingNewIsKnown
  <1>10. Blamed'
    <2>1. loop.pc = "fail" => loop.x \in Execution
      BY <1>0, <1>4 DEF Places, LoopTyped
    <2> QED BY <1>0, <1>1, <1>2, <1>3, <2>1 DEF Blamed
  <1> QED BY <1>5, <1>6, <1>7, <1>8, <1>9, <1>10, FewerKeeps DEF Places

-----------------------------------------------------------------------------
(* The theorems *)

LEMMA SupervisedAtFirst == SupervisorInit => Supervised
  <1> SUFFICES ASSUME SupervisorInit PROVE Supervised
    OBVIOUS
  <1>1. Typed
    BY TypedIsInductive DEF SupervisorInit
  <1>2. \A x \in Execution : thread[x] = "none"
    BY DEF SupervisorInit
  <1>3. HostTyped /\ ThreadsTyped
    <2>1. HostTyped
      <3>1. stops \in 0..MaxStops /\ faults \in 0..MaxFaults
        BY SupervisorLimits DEF SupervisorInit
      <3>2. recovered \in BOOLEAN /\ stopping \in BOOLEAN
        BY Zenon DEF SupervisorInit
      <3>3. process \in Worker \cup {None} /\ spare \in SUBSET Worker
            /\ stopper \in {"idle", "called", "stopped", "incomplete"}
        BY Zenon DEF SupervisorInit
      <3> QED BY <3>1, <3>2, <3>3 DEF HostTyped
    <2>2. ThreadsTyped
      BY DEF SupervisorInit, ThreadsTyped
    <2> QED BY <2>1, <2>2
  <1>4. LoopTyped /\ LoopOwns /\ LoopWatches /\ Absent /\ Past /\ Blamed
    BY <1>2, NullIsNoExecution
    DEF SupervisorInit, LoopTyped, LoopOwns, LoopWatches, Absent, Past, Blamed, NotRunning, Alive
  <1>5. Room
    <2>1. Known = {} /\ quarantined = {}
      BY DEF SupervisorInit, Known
    <2> QED BY <2>1, FS_EmptySet, SupervisorLimits DEF Room, SupervisorInit, NotRunning
  <1> QED BY <1>1, <1>3, <1>4, <1>5 DEF Supervised, Places

LEMMA StepsKeepSupervised == Supervised /\ [SupervisorNext]_vars => Supervised'
  <1> SUFFICES ASSUME Supervised, [SupervisorNext]_vars PROVE Supervised'
    OBVIOUS
  <1>1. [RunNext]_runVars
    BY StepsAreRunSteps
  <1>2. Typed /\ Typed'
    BY <1>1, TypedIsInductive DEF Supervised
  <1>3. LeasesGrow
    BY <1>1, <1>2, LeasesOnlyGrow
  <1>4. CASE LoopStep
    <2>1. CASE Load
      BY <1>2, <1>3, <2>1, LoadKeeps DEF Supervised
    <2>2. ASSUME NEW r \in Run, Claim(r) PROVE Places' /\ Room' /\ Blamed'
      BY <1>3, <2>2, ClaimKeeps
    <2>3. CASE StopSeen \/ ExecutionTimeout
      BY <1>2, <1>3, <2>3, WatchIsLeft DEF Supervised
    <2>4. CASE \/ LoopExit \/ RecoveryNotDue \/ ClaimNothing \/ LoopFault
               \/ \E batch \in SUBSET Stale : Recover(batch)
               \/ Heartbeat \/ LoadFault \/ SafeFail \/ ExecutionDone
      BY <1>2, <1>3, <2>4, LoopTurns DEF Supervised
    <2> QED BY <1>2, <1>4, <2>1, <2>2, <2>3, <2>4 DEF LoopStep, Supervised
  <1>5. CASE Host
    BY <1>2, <1>3, <1>5, HostKeeps DEF Supervised
  <1>6. CASE \/ Executor \/ ExecutionExpires \/ \E r \in Run : Elapse(Own(r) \/ Tick(r))
             \/ UNCHANGED vars
    BY <1>2, <1>3, <1>6, OthersKeep DEF Supervised
  <1> QED BY <1>4, <1>5, <1>6 DEF SupervisorNext

(* What the supervisor knows of its executions stays true of them, whoever  *)
(* stops, crashes or is late (supervisor.py: _loop, stop, _reap_            *)
(* quarantined_threads).                                                    *)
THEOREM SupervisionHolds == SupervisorSafety => []Supervised
  BY SupervisedAtFirst, StepsKeepSupervised, PTL DEF SupervisorSafety

(* Everything proved of runs holds of supervised runs: each transaction of  *)
(* the supervisor and of an executor it has lost is one of the run service, *)
(* under a lease of the history of the run (supervisor.py: run_once,        *)
(* _safe_fail, _execute_with_timeout).                                      *)
THEOREM SupervisedRunsAreRuns == SupervisorSafety => RunSpec
  <1>1. SupervisorInit => RunInit
    BY DEF SupervisorInit
  <1>2. Supervised /\ [SupervisorNext]_vars => [RunNext]_runVars
    BY StepsAreRunSteps
  <1> QED BY <1>1, <1>2, SupervisionHolds, PTL DEF SupervisorSafety, RunSpec

(* The executions the supervisor knows of never exceed the capacity of its  *)
(* quarantine (supervisor.py: MAX_QUARANTINED_EXECUTIONS).                  *)
THEOREM KnownExecutionsStayBounded == SupervisorSafety => []KnownExecutionsBounded
  <1>1. ASSUME Supervised PROVE KnownExecutionsBounded
    <2>1. Cardinality({x \in quarantined \cup {current} : x # None /\ Alive(x)}) <= MaxQuarantined
      BY <1>1 DEF Supervised, Room, Known
    <2>2. SupervisorTypeOK
      BY <1>1
      DEF Supervised, Places, HostTyped, ThreadsTyped, LoopTyped, LoopOwns, LoopWatches, Absent,
          SupervisorTypeOK
    <2> QED BY <2>1, <2>2 DEF KnownExecutionsBounded
  <1> QED BY <1>1, SupervisionHolds, PTL

(* Who fails a run has watched it fail, or time out, or lost a call.        *)
LEMMA FailuresAreBlamed ==
  ASSUME Supervised, [SupervisorNext]_vars, NEW r \in Run,
         runs[r].status # "failed", runs'[r].status = "failed"
  PROVE  LET x == <<r, runs[r].epoch>> IN
         (loop.x = x /\ loop.expired) \/ thread[x] = "failed" \/ faults > 0
  <1>0. runs \in [Run -> RunRow]
    BY DEF Supervised, Typed, RunTypeOK
  <1>1. ASSUME NEW q \in Run, NEW row, row.status # "failed", runs' = [runs EXCEPT ![q] = row]
        PROVE  FALSE
    BY <1>0, <1>1
  <1>2. ASSUME \E batch \in SUBSET Stale : RecoveryPass(batch) \/ RecoverStaleRuns(batch)
        PROVE  FALSE
    <2>1. PICK batch \in SUBSET Stale : UNCHANGED runVars \/ RecoverStaleRuns(batch)
      BY <1>2 DEF RecoveryPass
    <2>2. RecoverStaleRuns(batch)
      BY <2>1 DEF runVars
    <2>3. runs'[r] = IF r \in batch THEN Released(r, "interrupted") ELSE runs[r]
      BY <2>2 DEF RecoverStaleRuns
    <2>4. Released(r, "interrupted").status = "interrupted"
      BY <1>0 DEF Released, RunRow
    <2> QED BY <2>3, <2>4
  <1>3. ASSUME NEW q \in Run, NEW w, ClaimNextRun(q, w) PROVE FALSE
    BY <1>0, <1>3 DEF ClaimNextRun, Transition, RunRow
  <1>4. ASSUME UNCHANGED runs PROVE FALSE
    BY <1>4
  <1>5. ASSUME NEW q \in Run, NEW w, NEW e, HeartbeatRun(q, w, e) PROVE FALSE
    BY <1>0, <1>5 DEF HeartbeatRun, RunRow
  <1>6. ASSUME NEW q \in Run, NEW w, NEW e, PublishTerminalResult(q, w, e, "succeeded")
        PROVE  FALSE
    BY <1>0, <1>6 DEF PublishTerminalResult, Transition, Released, RunRow
  <1>7. ASSUME NEW q \in Run, Own(q) \/ Tick(q) PROVE FALSE
    <2>1. ASSUME NEW s \in Session, NEW k \in Key, NEW body \in Body,
                 NEW parent \in Run \cup {None}, CreateRun(q, s, k, body, parent)
          PROVE  FALSE
      BY <1>0, <2>1 DEF CreateRun, Transition, NoRun, RunRow
    <2>2. CASE CancelRun(q)
      BY <1>0, <2>2 DEF CancelRun, Transition, Released, RunRow
    <2>3. CASE ResumeRun(q)
      BY <1>0, <2>3 DEF ResumeRun, Transition, RunRow
    <2>4. CASE Tick(q)
      BY <1>0, <2>4 DEF Tick, RunRow
    <2> QED BY <1>7, <2>1, <2>2, <2>3, <2>4 DEF Own
  <1>8. ASSUME loop.pc = "fail", FailRun(loop.x[1], process, loop.x[2])
        PROVE  LET x == <<r, runs[r].epoch>> IN
               (loop.x = x /\ loop.expired) \/ thread[x] = "failed" \/ faults > 0
    <2>1. loop.x \in Execution
      BY <1>8 DEF Supervised, Places, LoopTyped
    <2>2. loop.x[1] \in Run /\ loop.x = <<loop.x[1], loop.x[2]>>
      BY <2>1 DEF Execution
    <2>3. runs[loop.x[1]].epoch = loop.x[2]
      BY <1>8 DEF FailRun, WorkerLease
    <2>4. r = loop.x[1]
      BY <1>0, <1>8, <2>2 DEF FailRun, Transition
    <2> QED BY <1>8, <2>2, <2>3, <2>4 DEF Supervised, Blamed
  <1>9. CASE Host
    <2>1. CASE StartSupervisor
      BY <1>2, <2>1 DEF StartSupervisor
    <2> QED BY <1>4, <1>9, <2>1
        DEF Host, NewProcess, ProcessExit, Crash, ProcessGone, StopCalled, StopReturns, runVars
  <1>10. CASE LoopStep
    <2>1. CASE LoopFault
      BY <1>2, <1>3, <1>4, <1>8, <2>1 DEF LoopFault, runVars
    <2>2. ASSUME NEW batch \in SUBSET Stale, Recover(batch) PROVE FALSE
      BY <1>2, <2>2 DEF Recover
    <2>3. ASSUME NEW q \in Run, Claim(q) PROVE FALSE
      BY <1>3, <2>3 DEF Claim
    <2>4. CASE Heartbeat
      <3>1. ~UNCHANGED runVars
        BY <1>4 DEF runVars
      <3>2. HeartbeatRun(loop.x[1], process, loop.x[2]) /\ loop.pc = "watch"
        BY <2>4, <3>1 DEF Heartbeat
      <3>3. loop.x[1] \in Run
        BY <3>2 DEF Supervised, Places, LoopTyped, Execution
      <3> QED BY <1>5, <3>2, <3>3
    <2>5. CASE SafeFail
      BY <1>4, <1>8, <2>5 DEF SafeFail, runVars
    <2>6. CASE LoopExit \/ RecoveryNotDue \/ ClaimNothing
      BY <1>4, <2>6 DEF LoopExit, RecoveryNotDue, ClaimNothing, runVars
    <2>7. CASE Load \/ LoadFault \/ ExecutionDone \/ StopSeen \/ ExecutionTimeout
      BY <1>4, <2>7 DEF Load, LoadFault, ExecutionDone, StopSeen, ExecutionTimeout, runVars
    <2> QED BY <1>10, <2>1, <2>2, <2>3, <2>4, <2>5, <2>6, <2>7 DEF LoopStep
  <1>11. ASSUME NEW x \in Execution, NEW how, Deliver(x) \/ PublishAnswer(x) \/ ThreadEnds(x, how)
         PROVE  FALSE
    <2>1. x[1] \in Run
      BY DEF Execution
    <2>2. CASE Deliver(x)
      BY <1>4, <2>2 DEF Deliver, AppendStageEvent
    <2>3. CASE PublishAnswer(x)
      BY <1>6, <2>1, <2>3 DEF PublishAnswer
    <2>4. CASE ThreadEnds(x, how)
      BY <1>4, <2>4 DEF ThreadEnds, runVars
    <2> QED BY <1>11, <2>2, <2>3, <2>4
  <1>12. CASE ExecutionExpires
    BY <1>4, <1>12 DEF ExecutionExpires, runVars
  <1>13. ASSUME NEW q \in Run, Elapse(Own(q) \/ Tick(q)) PROVE FALSE
    BY <1>7, <1>13 DEF Elapse
  <1>14. CASE UNCHANGED vars
    BY <1>4, <1>14 DEF vars, runVars
  <1> QED BY <1>9, <1>10, <1>11, <1>12, <1>13, <1>14 DEF SupervisorNext, Executor

(* A run fails for a reason of its own; a shutdown or a crash of the        *)
(* process that hosts it is none (supervisor.py: _execute_claimed,          *)
(* _SupervisorStopping, _safe_fail).                                        *)
THEOREM FailuresAlwaysHaveACause == SupervisorSafety => FailuresHaveACause
  <1>1. ASSUME Supervised, [SupervisorNext]_vars
        PROVE  [\A r \in Run :
                  runs[r].status # "failed" /\ runs'[r].status = "failed" =>
                    LET x == <<r, runs[r].epoch>> IN
                    (loop.x = x /\ loop.expired) \/ thread[x] = "failed" \/ faults > 0]_vars
    BY <1>1, FailuresAreBlamed
  <1> QED BY <1>1, SupervisionHolds, PTL DEF SupervisorSafety, FailuresHaveACause
=============================================================================
