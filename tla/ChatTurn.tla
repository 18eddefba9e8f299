------------------------------- MODULE ChatTurn -------------------------------
(***************************************************************************)
(* One question and its answer, as the staged turns of legal_rag/chat.py:  *)
(* retrieval, generation and verification, with the evidence check of      *)
(* evidence.py, the checks of verifier.py, and the relations between the   *)
(* stages that chat_artifacts.py validates whenever a turn is stored or    *)
(* read back.  These are functions: who calls them, and when a stage is    *)
(* stored, is told in RunHarness.                                          *)
(*                                                                         *)
(* Texts are abstracted to their kind, scores to strong or not, and source *)
(* Sn is the number n.  Every answer ends with the disclaimer before it is *)
(* verified (append_disclaimer), and every result lies inside the captured *)
(* retrieval boundary (BoundaryBoundRetriever), so that neither check is   *)
(* modelled.                                                               *)
(***************************************************************************)
EXTENDS Integers, FiniteSets

CONSTANTS
  Chunk,      (* The chunks of the corpus.                                 *)
  Covering,   (* Those of the laws and articles the question names.        *)
  Strong,     (* Those that score above LOW_SCORE_THRESHOLD.               *)
  InScope,    (* Those inside the verification context.                    *)
  TopK,       (* top_k of the assistant.                                   *)
  Nothing     (* Python's None.                                            *)

ASSUME ChunksAreKnown == IsFiniteSet(Chunk) /\ Covering \cup Strong \cup InScope \subseteq Chunk
ASSUME TopKIsANumber == TopK \in Nat

(* The kinds of text an answer may be. *)
AnswerText == {"own", "risk_refusal", "safe_refusal", "safe_clarification",
               "safe_insufficient", "limited", "generation_error", "low_confidence", ""}

StopReason == {"needs_clarification", "sufficient", "needs_followup", "max_rounds_reached",
               "no_followup_query", "sufficient_after_followup", "max_retrieval_rounds",
               "followup_evidence_insufficient", "evidence_scope_filtered"}

AnswerMode == {"evidence_answer", "insufficient_evidence", "needs_clarification",
               "out_of_scope"}

-----------------------------------------------------------------------------
(* Answers: the kind of the text, the sources each claim cites, the sources *)
(* the text shows, whether each claim stands next to its sources.           *)

StructuredAnswer ==
  [text: AnswerText, mode: AnswerMode \cup {"invalid"}, claims: SUBSET (SUBSET Nat),
   shown: SUBSET Nat, aligned: BOOLEAN, malformed: BOOLEAN, asks: BOOLEAN,
   refuses: BOOLEAN, schema: BOOLEAN]

EvidenceCheck ==
  [facts: BOOLEAN, sufficient: BOOLEAN, followups: BOOLEAN, stop: StopReason]

(* programmatic_answer: no claims, and no token that reads as a citation. *)
Programmatic(text, mode) ==
  [text |-> text, mode |-> mode, claims |-> {}, shown |-> {}, aligned |-> TRUE,
   malformed |-> FALSE, asks |-> mode = "needs_clarification",
   refuses |-> mode = "out_of_scope", schema |-> TRUE]

(* safe_terminal_answer *)
SafeTerminal(mode) ==
  CASE mode = "out_of_scope" -> Programmatic("safe_refusal", mode)
    [] mode = "needs_clarification" -> Programmatic("safe_clarification", mode)
    [] OTHER -> Programmatic("safe_insufficient", "insufficient_evidence")

GenerationError == Programmatic("generation_error", "insufficient_evidence")

(* build_limited_structured_answer, expected_limited_answer_mode *)
LimitedAnswer(check) ==
  IF check.facts THEN Programmatic("safe_clarification", "needs_clarification")
  ELSE Programmatic("limited", "insufficient_evidence")

(* The texts an answer of a limited mode may show: the bounded_* checks. *)
Allowed ==
  [insufficient_evidence |-> {"safe_insufficient", "limited"},
   needs_clarification |-> {"safe_clarification"},
   out_of_scope |-> {"risk_refusal", "safe_refusal"}]

(* parse_structured_answer, of what a model may say: an envelope, JSON that *)
(* is one, text whose markers suggest a mode, or nothing of use.            *)
ParseAnswer(raw) ==
  LET said == [text |-> "own", mode |-> raw.mode, claims |-> raw.claims,
               shown |-> raw.shown, aligned |-> raw.aligned,
               malformed |-> raw.malformed, asks |-> raw.mode = "needs_clarification",
               refuses |-> raw.refuses, schema |-> raw.form = "envelope"]
  IN
  CASE raw.form = "envelope" -> said
    [] raw.form = "text" ->
         [said EXCEPT !.mode = IF raw.refuses THEN "out_of_scope" ELSE raw.mode,
                      !.claims = IF raw.shown = {} THEN {} ELSE {raw.shown}]
    [] OTHER -> [Programmatic("", "invalid") EXCEPT !.schema = FALSE]

-----------------------------------------------------------------------------
(* verify_answer *)

Cited(answer) == answer.shown \cup UNION answer.claims

(* Results are ranked without gaps once they are filtered. *)
CitationsValid(answer, results) ==
  /\ Cited(answer) \subseteq 1..Cardinality(results)
  /\ ~answer.malformed
  /\ answer.claims # {} => answer.aligned
  /\ answer.mode = "evidence_answer" =>
       results # {} /\ answer.shown # {} /\ UNION answer.claims # {}

(* find_out_of_scope_citations; which source is which chunk is left out. *)
ScopeValid(answer, results) == Cited(answer) # {} => results \subseteq InScope

(* _resolve_expected_mode *)
ExpectedMode(expected, check, risky) ==
  CASE expected # Nothing -> expected
    [] risky -> "out_of_scope"
    [] check = Nothing -> Nothing
    [] check.facts \/ check.stop = "needs_clarification" -> "needs_clarification"
    [] ~check.sufficient -> "insufficient_evidence"
    [] OTHER -> Nothing

(* validate_response_mode *)
ModeValid(answer, expected) ==
  /\ answer.mode \in AnswerMode
  /\ expected # Nothing => answer.mode = expected
  /\ answer.asks <=> answer.mode = "needs_clarification"
  /\ answer.refuses <=> answer.mode = "out_of_scope"
  /\ IF answer.mode = "evidence_answer" THEN answer.claims # {}
     ELSE Cited(answer) = {} /\ answer.text \in Allowed[answer.mode]

(* Mutant: a citation is not compared with the evidence. *)
Passes_AnyCitation(answer, results, expected) ==
  /\ answer.schema
  /\ ScopeValid(answer, results)
  /\ ModeValid(answer, expected)

Passes(answer, results, expected) ==
  /\ answer.schema
  /\ CitationsValid(answer, results)
  /\ ScopeValid(answer, results)
  /\ ModeValid(answer, expected)

(* _verify_programmatic_answer *)
Checked(answer, results, expected) ==
  IF Passes(answer, results, expected) THEN answer ELSE SafeTerminal(expected)

-----------------------------------------------------------------------------
(* Retrieval *)

(* check_evidence_sufficiency.  Missing facts are known only where the      *)
(* question was normalized, that is with adaptive retrieval.                *)
CheckEvidence(results, facts) ==
  LET law == results \cap Covering = {}
      low == results \cap Strong = {}
      sufficient == ~facts /\ ~law /\ ~low
  IN [facts |-> facts, sufficient |-> sufficient, followups |-> law,
      stop |-> IF facts THEN "needs_clarification"
               ELSE IF sufficient THEN "sufficient" ELSE "needs_followup"]

(* merge_followup_results: the best top_k. *)
Merge(results, more) ==
  LET all == results \cup more
      size == IF Cardinality(all) < TopK THEN Cardinality(all) ELSE TopK
  IN CHOOSE best \in SUBSET all :
       /\ Cardinality(best) = size
       /\ \A c \in all \ best : c \in Strong => best \subseteq Strong

(* retrieve_adaptive with run_bounded_followup: `more` is what the          *)
(* follow-up queries would find.                                            *)
Gather(found, more, facts, rounds) ==
  LET first == CheckEvidence(found, facts)
      merged == Merge(found, more)
      again == CheckEvidence(merged, facts)
  IN
  IF first.stop # "needs_followup" THEN [results |-> found, check |-> first]
  ELSE IF rounds = 0
  THEN [results |-> found, check |-> [first EXCEPT !.stop = "max_rounds_reached"]]
  ELSE IF ~first.followups
  THEN [results |-> found, check |-> [first EXCEPT !.stop = "no_followup_query"]]
  ELSE [results |-> merged,
        check |-> [again EXCEPT !.stop = IF again.sufficient THEN "sufficient_after_followup"
                                         ELSE "max_rounds_reached"]]

(* filter_results_to_context *)
Filtered(results) == results \cap InScope
Rejected(results) == results \ InScope

(* The answer a turn without sufficient evidence ends with. *)
TerminalAnswer(results, check) ==
  IF results # {} /\ check.sufficient THEN Nothing
  ELSE [kind |-> "evidence_limited", answer |-> LimitedAnswer(check),
        mode |-> LimitedAnswer(check).mode]

(* build_risk_refusal_answer *)
Refusal ==
  [kind |-> "pre_retrieval_refusal", answer |-> Programmatic("risk_refusal", "out_of_scope"),
   mode |-> "out_of_scope"]

(* retrieve_turn *)
RetrieveTurn(risky, found, more, facts, rounds) ==
  IF risky
  THEN [risky |-> TRUE, results |-> {}, rejected |-> {}, check |-> Nothing,
        trace |-> Nothing, terminal |-> Refusal]
  ELSE LET gathered == Gather(found, more, facts, rounds)
           results == Filtered(gathered.results)
           rejected == Rejected(gathered.results)
           check == IF rejected = {} THEN gathered.check
                    ELSE [CheckEvidence(results, facts) EXCEPT !.stop = "evidence_scope_filtered"]
       IN [risky |-> FALSE, results |-> results, rejected |-> rejected, check |-> check,
           trace |-> IF rejected = {} THEN Nothing ELSE <<rejected, results>>,
           terminal |-> TerminalAnswer(results, check)]

(* Mutant: the terminal answer of the round before stays. *)
MergeFollowupTurn_KeepsTerminal(turn, more, exhausted) ==
  LET merged == Merge(turn.results, more)
      results == Filtered(merged)
      check == CheckEvidence(results, turn.check.facts)
      stop == IF check.sufficient THEN "sufficient_after_followup" ELSE exhausted
  IN [turn EXCEPT !.results = results, !.rejected = Rejected(merged),
                  !.check = [check EXCEPT !.stop = stop]]

(* merge_followup_turn: the filter's trace is that of the round before. *)
MergeFollowupTurn(turn, more, exhausted) ==
  LET merged == Merge(turn.results, more)
      results == Filtered(merged)
      check == CheckEvidence(results, turn.check.facts)
      stop == IF check.sufficient THEN "sufficient_after_followup" ELSE exhausted
  IN [turn EXCEPT !.results = results, !.rejected = Rejected(merged),
                  !.check = [check EXCEPT !.stop = stop],
                  !.terminal = TerminalAnswer(results, check)]

(* _validate_scope_filtered_retrieval_mapping, _validate_unfiltered_...:    *)
(* where something was rejected, the trace of the filter tells it.          *)
FilterFits(turn) ==
  turn.rejected # {} => turn.trace = <<turn.rejected, turn.results>>

(* _validate_retrieved_relationships, on the way into an artifact and out. *)
RetrievedAccepted(turn) ==
  IF turn.check = Nothing
  THEN turn.risky /\ turn.results = {} /\ turn.rejected = {} /\ turn.terminal = Refusal
  ELSE /\ ~turn.risky
       /\ turn.check \in EvidenceCheck
       /\ turn.results \subseteq Chunk
       /\ FilterFits(turn)
       /\ turn.terminal = TerminalAnswer(turn.results, turn.check)

-----------------------------------------------------------------------------
(* Generation *)

(* generate_turn: a terminal answer is passed on; without a model the       *)
(* sources are shown; an error of the model becomes an answer that says so. *)
GenerateTurn(turn, generate, raw) ==
  LET Turn(kind, answer, expected) ==
        [retrieved |-> turn, kind |-> kind, answer |-> answer, expected |-> expected,
         raw |-> IF kind = "model" THEN raw ELSE Nothing]
  IN
  IF turn.terminal # Nothing
  THEN Turn(turn.terminal.kind, turn.terminal.answer, turn.terminal.mode)
  ELSE IF ~generate THEN Turn("retrieval_only", Nothing, Nothing)
  ELSE IF raw = Nothing THEN Turn("generation_error", GenerationError, "insufficient_evidence")
  ELSE Turn("model", ParseAnswer(raw), "evidence_answer")

(* The contract of a generated turn, as verify_turn and                     *)
(* _validate_generated_relationships state it.                              *)
GeneratedAccepted(turn) ==
  LET terminal == turn.retrieved.terminal IN
  CASE turn.kind \in {"pre_retrieval_refusal", "evidence_limited"} ->
         /\ terminal = [kind |-> turn.kind, answer |-> turn.answer, mode |-> turn.expected]
         /\ turn.kind = "pre_retrieval_refusal" <=> turn.retrieved.check = Nothing
         /\ turn.kind = "evidence_limited" => ~turn.retrieved.check.sufficient
    [] turn.kind = "retrieval_only" -> terminal = Nothing /\ turn.answer = Nothing
    [] turn.kind = "generation_error" ->
         /\ terminal = Nothing /\ turn.retrieved.check # Nothing
         /\ turn.answer = GenerationError /\ turn.expected = "insufficient_evidence"
    [] turn.kind = "model" ->
         /\ terminal = Nothing /\ turn.retrieved.check # Nothing
         /\ turn.answer = ParseAnswer(turn.raw) /\ turn.expected = "evidence_answer"

-----------------------------------------------------------------------------
(* Verification *)

(* verify_turn: a model's answer that fails is replaced by one that says    *)
(* the evidence does not suffice.                                           *)
VerifyTurn(turn) ==
  LET results == turn.retrieved.results
      Verified(final, fallback) == [generated |-> turn, final |-> final, fallback |-> fallback]
  IN
  CASE turn.kind = "retrieval_only" -> Verified(Nothing, FALSE)
    [] turn.kind = "model" ->
         IF Passes(turn.answer, results, turn.expected) THEN Verified(turn.answer, FALSE)
         ELSE Verified(Checked(Programmatic("low_confidence", "insufficient_evidence"),
                               results, "insufficient_evidence"), TRUE)
    [] OTHER -> Verified(Checked(turn.answer, results, turn.expected), FALSE)

(* What _verified_payloads demands of a turn before any of it is published. *)
Publishable(turn) ==
  IF turn.final = Nothing THEN turn.generated.kind = "retrieval_only" /\ ~turn.fallback
  ELSE Passes(turn.final, turn.generated.retrieved.results, turn.final.mode)

(* _validate_verified_relationships, of a stored turn.                      *)
VerifiedAccepted(turn) ==
  LET generated == turn.generated
      results == generated.retrieved.results
  IN
  /\ Publishable(turn)
  /\ turn.final # Nothing =>
       /\ turn.final \in StructuredAnswer
       /\ IF turn.fallback
          THEN generated.kind = "model" /\ ~Passes(generated.answer, results, generated.expected)
          ELSE turn.final = IF generated.kind = "generation_error"
                            THEN SafeTerminal("insufficient_evidence") ELSE generated.answer

(* safe_run_result_from_verified: what may leave the program. *)
SafeResult(turn) ==
  LET retrieved == turn.generated.retrieved IN
  [mode |-> IF turn.final = Nothing THEN "retrieval_only" ELSE turn.final.mode,
   text |-> IF turn.final = Nothing THEN "sources" ELSE turn.final.text,
   cited |-> IF turn.final = Nothing THEN {} ELSE Cited(turn.final),
   sources |-> Cardinality(retrieved.results),
   kind |-> turn.generated.kind, fallback |-> turn.fallback]

(* _limited_result of the graph's executor. *)
LimitedResult ==
  [mode |-> "insufficient_evidence", text |-> "limit", cited |-> {}, sources |-> 0,
   kind |-> "execution_limit", fallback |-> FALSE]

-----------------------------------------------------------------------------
(* What the stages are made of *)

(* The terminal answer of a turn. *)
TerminalTurn ==
  [kind: {"pre_retrieval_refusal", "evidence_limited"}, answer: StructuredAnswer,
   mode: AnswerMode]

(* RetrievedTurn *)
RetrievedTurn ==
  [risky: BOOLEAN, results: SUBSET Chunk, rejected: SUBSET Chunk,
   check: EvidenceCheck \cup {Nothing}, trace: ((SUBSET Chunk) \X (SUBSET Chunk)) \cup {Nothing},
   terminal: TerminalTurn \cup {Nothing}]

(* What a model may say. *)
RawAnswer ==
  [form: {"envelope", "text", "neither"}, mode: AnswerMode \cup {"invalid"},
   claims: SUBSET (SUBSET Nat), shown: SUBSET Nat, aligned: BOOLEAN, malformed: BOOLEAN,
   refuses: BOOLEAN]

(* A published result. *)
PublishedResult ==
  [mode: AnswerMode \cup {"retrieval_only"}, text: AnswerText \cup {"sources", "limit"},
   cited: SUBSET Nat, sources: Nat,
   kind: {"pre_retrieval_refusal", "evidence_limited", "retrieval_only", "generation_error",
          "model", "execution_limit"},
   fallback: BOOLEAN]

ASSUME NothingIsNoValue ==
  /\ Nothing \notin AnswerMode
  /\ Nothing \notin EvidenceCheck
  /\ Nothing \notin StructuredAnswer
  /\ Nothing \notin TerminalTurn
  /\ Nothing \notin RawAnswer
=============================================================================
