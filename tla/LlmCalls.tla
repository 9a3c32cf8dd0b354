------------------------------- MODULE LlmCalls -------------------------------
(***************************************************************************)
(* The language models: the screens a context passes on its way to one,    *)
(* and the calls of the agents.  The two halves share no state.            *)
(***************************************************************************)
EXTENDS Integers, Sequences, SequencesExt, FiniteSetsExt, TLC

(***************************************************************************)
(* What stands between a prompt and the model it is meant for: the INV-15  *)
(* screens of tl-context and themis-compliance with the orchestrator's     *)
(* verify_and_send, the risk model that says when a judge must read its    *)
(* candidates afresh (in both of its copies, with the proofs of it), the   *)
(* compressor, and the cordon that keeps code from the agent of ARGUS that *)
(* gives the verdict.  None of them keeps state.                           *)
(*                                                                         *)
(* A text is the set of the patterns it matches, or a sequence of words    *)
(* where it is compressed; a weight, a score or a rate is in hundredths or *)
(* in tenths.                                                              *)
(***************************************************************************)

\* DEFAULT_PATTERNS of tl-context: what a match weighs, and its category.
DEFAULT_PATTERNS ==
    [ignore_previous |-> 100, disregard_prior |-> 100, forget_everything |-> 100,
     system_override |-> 90, you_are_now |-> 70, act_as |-> 60, pretend_to_be |-> 85,
     reveal_secret |-> 100, system_prompt_extract |-> 90,
     dan_jailbreak |-> 90, bypass_restrictions |-> 80]

\* The copy in themis-compliance has two patterns more.
COMPLIANCE_PATTERNS ==
    [unrestricted_keyword |-> 80, malicious_keyword |-> 80] @@ DEFAULT_PATTERNS

PatternCategory ==
    [GoalOverride |-> {"ignore_previous", "disregard_prior", "forget_everything"},
     SystemOverride |-> {"system_override"},
     RoleImpersonation |-> {"you_are_now", "act_as", "pretend_to_be"},
     SecretExtraction |-> {"reveal_secret", "system_prompt_extract"},
     Jailbreak |-> {"dan_jailbreak", "bypass_restrictions", "unrestricted_keyword",
                    "malicious_keyword"}]

Thresholds == [block_score |-> 80, warn_score |-> 50]

PatternMatches(patterns, text) == text \cap DOMAIN patterns
PatternScore(patterns, text) ==
    MapThenSumSet(LAMBDA n : patterns[n], PatternMatches(patterns, text))

\* Inv15Verifier::verify
VerifyText(patterns, thresholds, text) ==
    LET score == PatternScore(patterns, text) IN
    IF score >= thresholds.block_score THEN "block"
    ELSE IF score >= thresholds.warn_score THEN "warn"
    ELSE "allow"

\* Inv15Verifier::new, of each of the two crates
TlContextVerify(text) == VerifyText(DEFAULT_PATTERNS, Thresholds, text)
ComplianceVerify(text) == VerifyText(COMPLIANCE_PATTERNS, Thresholds, text)

\* verify_and_send: the prompts that go on to the model.
VerifyAndSend(text) == IF ComplianceVerify(text) = "block" THEN {} ELSE {text}
-----------------------------------------------------------------------------
\* Two copies of one risk model.  InvocationContext computes in f32: its
\* constants are the f32 nearest to them, in units of 2^-27.  The port of the
\* proof computes in f64, where the sums that matter come out as in decimals.
F32 == [judge |-> 80530640, other |-> 13421773, candidate |-> 13421773,
        shuffled |-> 26843546, reuse |-> 20132660, jcr_threshold |-> 93952408,
        one |-> 134217728]
F64 == [judge |-> 60, other |-> 10, candidate |-> 10, shuffled |-> 20, reuse |-> 15,
        jcr_threshold |-> 70, one |-> 100]

\* compute_jcr_risk and compute_risk_score
RiskScore(c, judge, candidates, reuse_rate, shuffled) ==
    LET risk == (IF judge THEN c.judge ELSE c.other)
                + (IF candidates > 2 THEN c.candidate * (candidates - 2) ELSE 0)
                + (IF shuffled THEN c.shuffled ELSE 0)
                + (IF reuse_rate > 80 THEN c.reuse ELSE 0)
    IN IF risk > c.one THEN c.one ELSE risk

\* InvocationContext::with_budget: a role is a name and how it is spelled.
JUDGE_ROLES == {"critic", "judge"}
InvocationContext(role, candidates, reuse_rate, shuffled, dense, threshold) ==
    IF reuse_rate \notin 0..100 \/ threshold \notin 0..F32.one THEN {}
    ELSE {[agent_role |-> role.name, candidate_count |-> candidates,
           reuse_rate |-> reuse_rate, layout_shuffled |-> shuffled, use_dense |-> dense,
           jcr_threshold |-> threshold,
           budget |-> [max_input_tokens |-> 8192, max_output_tokens |-> 1024,
                       wall_clock_ms |-> 30000, kv_blocks |-> "none"]]}

IsJudge(ctx) == ctx.agent_role \in JUDGE_ROLES
ComputeJcrRisk(ctx) ==
    RiskScore(F32, IsJudge(ctx), ctx.candidate_count, ctx.reuse_rate, ctx.layout_shuffled)
Exceeds(risk, threshold) == risk > threshold
Mandated(ctx) == IsJudge(ctx) /\ Exceeds(ComputeJcrRisk(ctx), ctx.jcr_threshold)
SatisfiesInv15(ctx) == Mandated(ctx) = ctx.use_dense

\* The port of the proof: its antecedent, what it concludes from a risk, what
\* it says of the one corner it looks at, and the example without a judge.
Inv15Antecedent(judge, candidates, reuse_rate, shuffled) ==
    judge /\ candidates >= 9 /\ reuse_rate = 0 /\ shuffled
UseDensePrefill(judge, risk) == judge /\ risk > F64.jcr_threshold
ProveInv15 == IF UseDensePrefill(TRUE, RiskScore(F64, TRUE, 9, 0, TRUE)) THEN "Proved" ELSE "panic"
Relaxed == [judge |-> FALSE, candidates |-> 1, reuse_rate |-> 100, shuffled |-> FALSE]
CounterexampleRelaxed ==
    LET risk == RiskScore(F64, Relaxed.judge, Relaxed.candidates, Relaxed.reuse_rate,
                          Relaxed.shuffled)
    IN IF UseDensePrefill(Relaxed.judge, risk) THEN {} ELSE {Relaxed}

\* prove_inv15_via_subprocess: whatever keeps the script from answering, the
\* result that is built in takes its place.
EmbeddedProof == [status |-> "Proved", source |-> "Embedded"]
ProveViaSubprocess(run) ==
    IF run \in {"no_python", "exit_code", "not_json"} THEN EmbeddedProof
    ELSE [status |-> CASE run = "PROVED" -> "Proved" [] run = "COUNTEREXAMPLE" -> "Counterexample"
                       [] OTHER -> "Unknown",
          source |-> "PythonSubprocess"]
IsProved(result) == result.status = "Proved"
-----------------------------------------------------------------------------
\* The compressor.  A word has a length, and may hold one of the force tokens.
CompressionConfig(rate, size) == [rate |-> rate, chunk_size_words |-> size]

Concat(parts) ==
    LET upto[i \in 0 .. Len(parts)] == IF i = 0 THEN <<>> ELSE upto[i - 1] \o parts[i]
    IN upto[Len(parts)]

\* chunk_by_words
ChunkByWords(words, size) ==
    IF size = 0 \/ Len(words) <= size THEN <<words>>
    ELSE [c \in 1 .. (Len(words) + size - 1) \div size |->
            SubSeq(words, (c - 1) * size + 1, Min({c * size, Len(words)}))]

\* select_words_to_keep: the rate, in tenths, is the share of the words without
\* a force token to drop, rounded half up; the longest stay, the first of a
\* length before the others.
Clamped(rate) == IF rate < 0 THEN 0 ELSE IF rate > 10 THEN 10 ELSE rate
KeepCount(n, rate) == ((10 - Clamped(rate)) * n * 2 + 10) \div 20
SelectWordsToKeep(words, rate) ==
    LET rest == {i \in DOMAIN words : ~words[i].force}
        better(i) == {j \in rest : \/ words[j].len > words[i].len
                                   \/ words[j].len = words[i].len /\ j < i}
        kept(i) == words[i].force \/ Cardinality(better(i)) < KeepCount(Cardinality(rest), rate)
        order == SelectSeq([i \in DOMAIN words |-> i], kept)
    IN [k \in DOMAIN order |-> words[order[k]]]

\* compress_text; is_empty asks for a text without a word in a single chunk,
\* for the parts are joined by spaces.
CompressText(words, config) ==
    LET parts == ChunkByWords(words, config.chunk_size_words) IN
    [words |-> Concat([c \in DOMAIN parts |-> SelectWordsToKeep(parts[c], config.rate)]),
     empty |-> Len(parts) = 1 /\ SelectWordsToKeep(words, config.rate) = <<>>]

\* CompressionBackend::complete: the prompt the wrapped model gets.
CompressedPrompt(words, config) ==
    LET compressed == CompressText(words, config) IN
    IF compressed.empty THEN words ELSE compressed.words

\* auto_select and VariantConfig
AutoSelect(word_count) ==
    IF word_count <= 512 THEN "Short" ELSE IF word_count <= 2048 THEN "Medium" ELSE "Long"
VariantConfig ==
    [Short |-> CompressionConfig(3, 80), Medium |-> CompressionConfig(5, 160),
     Long |-> CompressionConfig(7, 320)]

\* CompressionCoordinator::decide
CompressionDecision(strategy, original, final) ==
    LET saved == IF original > final THEN original - final ELSE 0 IN
    [strategy |-> strategy, original_tokens |-> original, final_tokens |-> final,
     tokens_saved |-> saved,
     savings_pct |-> IF original > 0 THEN (100 * saved) \div original ELSE 0]
DecideStrategy(coordinator, context, has_prefix, prefix, tail) ==
    LET long_enough == context > coordinator.min_context_tokens
        has_long_prefix == has_prefix /\ prefix > coordinator.min_shared_prefix_tokens
    IN CASE has_long_prefix /\ ~long_enough -> CompressionDecision("apc_reuse", context, context)
         [] has_long_prefix /\ long_enough ->
              CompressionDecision("compress_and_reuse", context, prefix + tail \div 2)
         [] ~has_long_prefix /\ long_enough ->
              CompressionDecision("compress", context, context \div 2)
         [] OTHER -> CompressionDecision("passthrough", context, context)

\* model_id_for_agent, by the lineage of the model
ModelIdForAgent ==
    [fraud_auditor |-> "qwen_coder", gaap_classifier |-> "llama", extractor |-> "qwen",
     demo_narrator |-> "qwen", audit_watchdog |-> "qwen", regression_tester |-> "qwen",
     po_matcher |-> "none", provenance_signer |-> "none"]
-----------------------------------------------------------------------------
\* ARGUS.  extract_json takes a fence off whether or not it is closed, but the
\* language of one only if it is json; nothing else is accepted.
ExtractJson(raw) == IF raw.wrap \in {"prose", "other_fence"} THEN {} ELSE {raw.body}

\* The four specialists: what context each needs, as noted at ContextRequirement,
\* and what of the diff and of the repository build_user_message puts into its
\* message.
SlopDetector == [needs |-> "DiffOnly", message |-> {"diff"}]
SecurityReview == [needs |-> "DiffOnly", message |-> {"diff"}]
ArchitectureFit == [needs |-> "DiffPlusRepoSample", message |-> {"diff", "repo"}]
VerdictSynthesizer == [needs |-> "OtherAgentsOutputs", message |-> {}]
Specialists ==
    [slop |-> SlopDetector, security |-> SecurityReview, arch |-> ArchitectureFit,
     verdict |-> VerdictSynthesizer]

\* RiskScore of ARGUS, in hundredths
ArgusRisk(v) == IF v < 0 THEN 0 ELSE IF v > 100 THEN 100 ELSE v
IsHigh(r) == r >= 70
IsCritical(r) == r >= 85

\* VerdictSynthesizer::parse_response; the others take the answer as it is.
ParseVerdict(raw) ==
    {[status |-> CASE resp.verdict = "APPROVED" -> "Approved"
                   [] resp.verdict = "HALTED" -> "Halted"
                   [] OTHER -> "ReviewRequired",
      risk_score |-> ArgusRisk(resp.risk_score)] : resp \in ExtractJson(raw)}

\* CordonEnforcer: by the kind of context, and by a scan of the JSON.  A string
\* may have a line that starts as one of a diff does, and more than one line; a
\* key may speak of raw code.
VerifySafeToSynthesize(context_type) == context_type = "OtherAgentsOutputs"

JsonText == [kind : {"string"}, marked : BOOLEAN, lines : {1, 2}]
Containers(values) ==
    [kind : {"array"}, items : UNION {[1..n -> values] : n \in 0..2}]
    \cup [kind : {"object"}, keys : {<<"summary">>, <<"raw_diff">>, <<"my_raw_code">>},
           items : [1..1 -> values]]
Json == LET flat == Containers(JsonText) IN JsonText \cup Containers(JsonText \cup flat)
RawKeys == {"raw_diff", "my_raw_code"}

\* scan_for_raw_code, whether it finds some
ScanForRawCode ==
    LET scan[v \in Json] ==
            IF v.kind = "string" THEN v.marked /\ v.lines > 1
            ELSE \E i \in DOMAIN v.items :
                    \/ v.kind = "object" /\ v.keys[i] \in RawKeys
                    \/ scan[v.items[i]]
    IN scan

-----------------------------------------------------------------------------
Milder == [allow |-> 0, warn |-> 1, block |-> 2]

\* The screens of prompts.  A text that matches more is never judged milder, and
\* only one that matches a single one of two mild impersonations is let pass with
\* a warning: all else that matches is blocked, so every category has a pattern
\* that blocks alone.  What tl-context blocks the orchestrator never sends, and
\* where the two screens differ, it is the orchestrator's that blocks.
PromptsAreScreened ==
    /\ \A c \in DOMAIN PatternCategory : \E n \in PatternCategory[c] : VerifyAndSend({n}) = {}
    /\ \A text \in SUBSET DOMAIN COMPLIANCE_PATTERNS :
           LET mine == TlContextVerify(text)
               theirs == ComplianceVerify(text)
           IN /\ \A n \in DOMAIN COMPLIANCE_PATTERNS :
                    Milder[theirs] <= Milder[ComplianceVerify(text \cup {n})]
              /\ theirs = "allow" <=> text = {}
              /\ theirs = "warn" <=> text \in {{"you_are_now"}, {"act_as"}}
              /\ VerifyAndSend(text) = {} <=> theirs = "block"
              /\ mine = "block" => VerifyAndSend(text) = {}
              /\ mine = theirs \/ theirs = "block"

\* Contexts a judge or another agent may be called with.
Contexts ==
    UNION {InvocationContext([name |-> r, spelled |-> sp], n, u, sh, d, t) :
              r \in {"critic", "judge", "retriever"}, sp \in {"lower", "upper"}, n \in 0..9,
              u \in {-1, 0, 80, 81, 100}, sh \in BOOLEAN, d \in BOOLEAN,
              t \in {-1, 0, F32.jcr_threshold, F32.one}}

\* The two copies of the risk model call for the same, but for one context: a
\* judge of three candidates lies on the threshold in decimals and in f64, and
\* above it in f32.  A risk is never more than one, so that no judge exceeds a
\* threshold of one; more candidates, a shuffled layout or more reuse never lower
\* the risk; and a context satisfies INV-15 with one choice of use_dense and not
\* with the other.
RiskModelsAgree ==
    /\ \A ctx \in Contexts :
          LET risk(c, n, u, sh) == RiskScore(c, IsJudge(ctx), n, u, sh)
              f64 == risk(F64, ctx.candidate_count, ctx.reuse_rate, ctx.layout_shuffled)
              on_threshold == /\ IsJudge(ctx) /\ ctx.candidate_count = 3
                              /\ ~ctx.layout_shuffled /\ ctx.reuse_rate <= 80
          IN /\ ctx.jcr_threshold = F32.jcr_threshold =>
                   (Mandated(ctx) = UseDensePrefill(IsJudge(ctx), f64) <=> ~on_threshold)
             /\ ctx.jcr_threshold = F32.one => ~Mandated(ctx)
             /\ \A more \in ctx.candidate_count .. 9, u \in {ctx.reuse_rate, 81, 100}, sh \in BOOLEAN :
                   u >= ctx.reuse_rate /\ (ctx.layout_shuffled => sh) =>
                       ComputeJcrRisk(ctx) <= risk(F32, more, u, sh)
             /\ SatisfiesInv15(ctx) # SatisfiesInv15([ctx EXCEPT !.use_dense = ~ctx.use_dense])
    /\ ProveInv15 = "Proved"
    /\ \A judge, sh \in BOOLEAN : \A n \in 0..12, u \in {0, 80, 81, 100} :
          Inv15Antecedent(judge, n, u, sh) =>
              /\ UseDensePrefill(judge, RiskScore(F64, judge, n, u, sh))
              /\ RiskScore(F32, judge, n, u, sh) = F32.one
    /\ \A x \in CounterexampleRelaxed :
          ~Inv15Antecedent(x.judge, x.candidates, x.reuse_rate, x.shuffled)

\* A theorem counts as proved unless the script answered and said otherwise:
\* whoever needs a fresh proof has to look at its source.
ProofIsFreshBySource ==
    \A run \in {"no_python", "exit_code", "not_json", "PROVED", "COUNTEREXAMPLE", "other"} :
        LET r == ProveViaSubprocess(run) IN
        /\ ~IsProved(r) => r.source = "PythonSubprocess"
        /\ run \in {"no_python", "exit_code", "not_json"} => r.source = "Embedded"
        /\ IsProved(r) /\ r.source = "PythonSubprocess" <=> run = "PROVED"

\* Texts of up to four words: two lengths, one word with a force token.
Prompts == UNION {[1..n -> {[len |-> 1, force |-> TRUE], [len |-> 1, force |-> FALSE],
                            [len |-> 3, force |-> FALSE]}] : n \in 0..4}

\* Words of a text that a test accepts.
WordsWith(words, Test(_)) == Cardinality({i \in DOMAIN words : Test(words[i])})

\* Compression keeps words in their order and all with a force token, no dropped
\* word is longer than one kept from the same chunk, and of the words without
\* one it keeps the share the rate leaves, to half a word in each chunk: nothing
\* is dropped at 0, all but the forced words at 10.  A model gets a prompt
\* without words only if the agent wrote one, or if a text of several chunks was
\* dropped as a whole.
CompressionKeepsWhatItMust ==
    \A words \in Prompts, size \in {0, 1, 2, 3}, rate \in {0, 3, 5, 10} :
        LET config == CompressionConfig(rate, size)
            out == CompressText(words, config).words
            parts == ChunkByWords(words, size)
            forced(w) == w.force
            free(w) == ~w.force
            long(w) == w.len = 3
            short(w) == w.len = 1 /\ ~w.force
        IN /\ Concat(parts) = words
           /\ \E keep \in SUBSET DOMAIN words :
                 out = LET order == SelectSeq([i \in DOMAIN words |-> i], LAMBDA i : i \in keep)
                       IN [k \in DOMAIN order |-> words[order[k]]]
           /\ WordsWith(out, forced) = WordsWith(words, forced)
           /\ \A c \in DOMAIN parts :
                 LET kept == SelectWordsToKeep(parts[c], rate) IN
                 LET off == 10 * WordsWith(kept, free) - (10 - rate) * WordsWith(parts[c], free) IN
                 /\ off \in -5..5
                 /\ WordsWith(kept, short) > 0 => WordsWith(kept, long) = WordsWith(parts[c], long)
           /\ rate = 0 => out = words
           /\ rate = 10 => Len(out) = WordsWith(words, forced)
           /\ CompressedPrompt(words, config) = <<>> <=>
                 words = <<>> \/ (out = <<>> /\ Len(parts) > 1)

\* What is saved and what is left make up what there was, unless a reused prefix
\* and its tail are longer than the context; at a threshold a context is still
\* short and a prefix still weak.  A longer text is compressed harder, in chunks
\* that any text of its size fills, and the three agents that decide have models
\* of three lineages.
SavingsAddUp ==
    /\ \A context, prefix, tail \in {0, 1, 9, 10, 11, 25}, has \in BOOLEAN :
          LET cfg == [min_context_tokens |-> 10, min_shared_prefix_tokens |-> 9]
              d == DecideStrategy(cfg, context, has, prefix, tail)
              short == context <= 10
              weak == ~has \/ prefix <= 9
          IN /\ d.strategy = CASE short /\ weak -> "passthrough" [] short /\ ~weak -> "apc_reuse"
                               [] ~short /\ weak -> "compress" [] OTHER -> "compress_and_reuse"
             /\ \/ d.tokens_saved + d.final_tokens = context
                \/ d.strategy = "compress_and_reuse" /\ d.tokens_saved = 0
             /\ d.savings_pct \in 0..100
             /\ short => d.tokens_saved = 0
    /\ \A n \in {1, 512, 513, 2048, 2049}, m \in {1, 512, 513, 2048, 2049} :
          n <= m => /\ VariantConfig[AutoSelect(n)].rate <= VariantConfig[AutoSelect(m)].rate
                    /\ VariantConfig[AutoSelect(n)].chunk_size_words <=
                          VariantConfig[AutoSelect(m)].chunk_size_words
    /\ \A a, b \in {"fraud_auditor", "gaap_classifier", "extractor"} :
          ModelIdForAgent[a] = ModelIdForAgent[b] => a = b

\* The strings of a value and the keys above them, at any depth.
Within[v \in Json] ==
    {v} \cup IF v.kind = "string" THEN {} ELSE UNION {Within[v.items[i]] : i \in DOMAIN v.items}

\* The agent that gives the verdict is the only one the cordon lets have the
\* others' outputs, and the only one whose message has no code.  The scan finds
\* code at every depth; and no answer of a model is taken for an approval that
\* does not say so, or for a risk beyond the scale.
CordonHolds ==
    /\ \A s \in DOMAIN Specialists :
          /\ VerifySafeToSynthesize(Specialists[s].needs) <=> Specialists[s].message = {}
          /\ VerifySafeToSynthesize(Specialists[s].needs) <=> s = "verdict"
    /\ \A v \in Json :
          ScanForRawCode[v] <=>
              \E w \in Within[v] :
                  \/ w.kind = "string" /\ w.marked /\ w.lines = 2
                  \/ w.kind = "object" /\ w.keys[1] # "summary"
    /\ \A wrap \in {"none", "closed", "open", "bare", "prose", "other_fence"},
          verdict \in {"APPROVED", "approved", "REVIEW_REQUIRED", "HALTED", "MAYBE"},
          risk \in {-10, 0, 70, 85, 140} :
          \A v \in ParseVerdict([wrap |-> wrap,
                                 body |-> [verdict |-> verdict, risk_score |-> risk]]) :
              /\ v.status = "Approved" => verdict = "APPROVED"
              /\ v.risk_score \in 0..100
              /\ IsCritical(v.risk_score) => IsHigh(v.risk_score)

ContextIsSafe ==
    /\ PromptsAreScreened /\ RiskModelsAgree /\ ProofIsFreshBySource
    /\ CompressionKeepsWhatItMust /\ SavingsAddUp /\ CordonHolds

-----------------------------------------------------------------------------
(***************************************************************************)
(* Calls of the agents to their model providers.  The routing table of     *)
(* themis-orchestrator (routing.rs, routing_config.rs) is built from the   *)
(* keys of the environment and from routing.toml; a call of an HTTP        *)
(* backend (themis-agents/src/llm.rs) retries only on 429, with growing    *)
(* pauses, and reports itself to a metrics sink shared by the calls        *)
(* (themis-compliance/src/featherless_metrics.rs and aiml_metrics.rs).     *)
(* Prompts are left out; what the model's text says is the matter of       *)
(* InvoiceAgents.                                                          *)
(***************************************************************************)

CONSTANTS
    Calls,              \* calls that may be in flight together
    Callers,            \* the agents that make them
    RoutingFiles,       \* what routing.toml may be: see ParsedRouting
    BACKOFFS,           \* the number of pauses of BACKOFFS_MS
    LATENCY_RING_CAP,   \* entries of the latency ring
    Latencies,          \* how long a call may take
    Usages,             \* tokens a response may report; 0 for no usage block
    RateLimitAfter      \* calls a mock provider answers

ASSUME LatencyRingAssumption == LATENCY_RING_CAP \in Nat \ {0}
ASSUME FiniteCallsAssumption == IsFiniteSet(Calls)

None == "none"

\* The constants of routing.rs.
DefaultModels == [fraud_auditor   |-> "qwen-coder",
                  gaap_classifier |-> "llama-70b",
                  aiml_api        |-> "sonnet"]

\* RoutingConfig::load_or_default.  A file is missing, unreadable, malformed
\* or a record of models whose absent tables are None.
LoadOrDefault(file) ==
    IF file.kind = "tables" THEN file.models ELSE DefaultModels

\* The three accessors: a table that is absent falls back on its own.
ModelOf(cfg, table) == IF cfg[table] = None THEN DefaultModels[table] ELSE cfg[table]

\* backend_for_agent.
BackendForAgent(agent) ==
    CASE agent = "fraud_auditor" -> "featherless"
      [] agent = "gaap_classifier" -> "featherless-llama70b"
      [] agent \in {"po_matcher", "provenance_signer"} -> "deterministic"
      [] OTHER -> "aimlapi"

Mock(name) == [provider |-> "mock", model |-> name, metered |-> FALSE]

\* An AI/ML API backend is built without a sink; from_env gives nothing when
\* the key is missing or blank.
AimlOr(keys, cfg, name) ==
    IF keys.aiml
    THEN [provider |-> "aimlapi", model |-> ModelOf(cfg, "aiml_api"), metered |-> FALSE]
    ELSE Mock(name)

FeatherlessOr(keys, cfg, table, name) ==
    IF keys.featherless
    THEN [provider |-> "featherless", model |-> ModelOf(cfg, table), metered |-> TRUE]
    ELSE AimlOr(keys, cfg, name)

\* build_routed_dispatch_with.
BuildRoutedDispatch(keys, cfg) ==
    [agent \in Callers |->
        CASE BackendForAgent(agent) \in {"featherless", "featherless-llama70b"} ->
                 FeatherlessOr(keys, cfg, agent, "mock-fallback")
          [] BackendForAgent(agent) = "aimlapi" -> AimlOr(keys, cfg, "mock-aiml-fallback")
          [] OTHER -> Mock("deterministic")]
-----------------------------------------------------------------------------
\* MetricsState::default.
NoMetrics == [calls |-> 0, successes |-> 0, latency_sum |-> 0,
              ring |-> [i \in 0 .. LATENCY_RING_CAP - 1 |-> 0],
              ring_idx |-> 0, ring_filled |-> FALSE, tokens |-> 0, model |-> None]

\* A mutant of RecordCall: the ring is full one entry too early.
RecordCallEarly(s, o) ==
    LET next == (s.ring_idx + 1) % LATENCY_RING_CAP IN
    [calls       |-> s.calls + 1,
     successes   |-> s.successes + (IF o.success THEN 1 ELSE 0),
     latency_sum |-> s.latency_sum + o.latency,
     ring        |-> [s.ring EXCEPT ![s.ring_idx] = o.latency],
     ring_idx    |-> next,
     ring_filled |-> s.ring_filled \/ next = LATENCY_RING_CAP - 1,
     tokens      |-> s.tokens + o.tokens,
     model       |-> IF s.model = None THEN o.model ELSE s.model]

\* record_call, under the write lock: counters, ring and the first model.
RecordCall(s, o) ==
    LET next == (s.ring_idx + 1) % LATENCY_RING_CAP IN
    [calls       |-> s.calls + 1,
     successes   |-> s.successes + (IF o.success THEN 1 ELSE 0),
     latency_sum |-> s.latency_sum + o.latency,
     ring        |-> [s.ring EXCEPT ![s.ring_idx] = o.latency],
     ring_idx    |-> next,
     ring_filled |-> s.ring_filled \/ next = 0,
     tokens      |-> s.tokens + o.tokens,
     model       |-> IF s.model = None THEN o.model ELSE s.model]

RingLen(s) == IF s.ring_filled THEN LATENCY_RING_CAP ELSE s.ring_idx

\* The samples of snapshot, in ascending order.
Samples(s) == SortSeq([i \in 1 .. RingLen(s) |-> s.ring[i - 1]], <)

\* p95_latency_ms: the floor(0.95 n)-th sample, counted from 0.
P95(s) ==
    IF RingLen(s) = 0 THEN 0
    ELSE Samples(s)[Min({(RingLen(s) * 95) \div 100, RingLen(s) - 1}) + 1]

\* avg_latency_ms: a quotient <<sum, count>>.
AvgLatency(s) == IF RingLen(s) = 0 THEN <<0, 1>> ELSE <<s.latency_sum, RingLen(s)>>
-----------------------------------------------------------------------------
VARIABLES
    lmTable,    \* the routing table, empty before the process has started
    lmCall,     \* the calls
    lmSink,     \* the shared metrics
    lmMock,     \* the call_count of the mock providers
    lmLog       \* the latencies recorded so far, oldest first (history)

lmVars == <<lmTable, lmCall, lmSink, lmMock, lmLog>>

\* how is the way the call ended and records the times it was recorded (history).
NoCall == [at |-> "idle", agent |-> None, attempt |-> 0, result |-> None,
           how |-> None, records |-> 0]

lmInit ==
    /\ lmTable = <<>>
    /\ lmCall = [c \in Calls |-> NoCall]
    /\ lmSink = NoMetrics
    /\ lmMock = 0
    /\ lmLog = <<>>

\* The process starts: routing.toml is read once and the table is built.
Boot(keys, file) ==
    /\ DOMAIN lmTable = {}
    /\ lmTable' = BuildRoutedDispatch(keys, LoadOrDefault(file))
    /\ UNCHANGED <<lmCall, lmSink, lmMock, lmLog>>

Backend(c) == lmTable[lmCall[c].agent]

\* An agent calls complete on its backend.
Complete(c, agent) ==
    /\ DOMAIN lmTable # {}
    /\ lmCall[c].at = "idle"
    /\ lmCall' = [lmCall EXCEPT ![c] = [NoCall EXCEPT !.at = "send", !.agent = agent]]
    /\ UNCHANGED <<lmTable, lmSink, lmMock, lmLog>>

\* The call ends with a result; when the backend has a sink and the path
\* reports, the outcome is recorded.
Settle(c, how, result, reports, latency, tokens) ==
    LET told == reports /\ Backend(c).metered IN
    /\ lmCall' = [lmCall EXCEPT ![c].at = "done", ![c].how = how, ![c].result = result,
                                ![c].records = @ + (IF told THEN 1 ELSE 0)]
    /\ lmSink' = IF told
                 THEN RecordCall(lmSink, [success |-> result = "ok", latency |-> latency,
                                          tokens |-> tokens, model |-> Backend(c).model])
                 ELSE lmSink
    /\ lmLog' = IF told THEN Append(lmLog, latency) ELSE lmLog
    /\ UNCHANGED <<lmTable, lmMock>>

IsHttp(c) == Backend(c).provider \in {"featherless", "aimlapi"}

\* A mutant of RateLimited: the last refusal leaves without a report.
RateLimitedUntold(c, latency) ==
    /\ lmCall[c].at = "send" /\ IsHttp(c)
    /\ IF lmCall[c].attempt < BACKOFFS
       THEN /\ lmCall' = [lmCall EXCEPT ![c].at = "sleep"]
            /\ UNCHANGED <<lmTable, lmSink, lmMock, lmLog>>
       ELSE Settle(c, "limited", "RateLimited", FALSE, latency, 0)

\* 429: sleep and try again, until the pauses are used up.
RateLimited(c, latency) ==
    /\ lmCall[c].at = "send" /\ IsHttp(c)
    /\ IF lmCall[c].attempt < BACKOFFS
       THEN /\ lmCall' = [lmCall EXCEPT ![c].at = "sleep"]
            /\ UNCHANGED <<lmTable, lmSink, lmMock, lmLog>>
       ELSE Settle(c, "limited", "RateLimited", TRUE, latency, 0)

\* A mutant of Wake: the attempt is not counted.
WakeUncounted(c) ==
    /\ lmCall[c].at = "sleep"
    /\ lmCall' = [lmCall EXCEPT ![c].at = "send"]
    /\ UNCHANGED <<lmTable, lmSink, lmMock, lmLog>>

Wake(c) ==
    /\ lmCall[c].at = "sleep"
    /\ lmCall' = [lmCall EXCEPT ![c].at = "send", ![c].attempt = @ + 1]
    /\ UNCHANGED <<lmTable, lmSink, lmMock, lmLog>>

\* A refusal (5xx, 401 and 403, another status) or no answer at all is final
\* on the first attempt.  Only the AI/ML API backend tells 401 apart.
Refused(c, why, latency) ==
    /\ lmCall[c].at = "send" /\ IsHttp(c)
    /\ LET auth == why = "auth" /\ Backend(c).provider = "aimlapi" IN
       Settle(c, "refused", IF auth THEN "AuthenticationError" ELSE "LlmUnavailable",
              TRUE, latency, 0)

\* 2xx, but the body cannot be read, is not JSON or has no content: the
\* question mark operator leaves before the sink is reached.
BadBody(c, why) ==
    /\ lmCall[c].at = "send" /\ IsHttp(c)
    /\ Settle(c, "unreadable", IF why = "read" THEN "LlmUnavailable" ELSE "LlmMalformedPayload",
              FALSE, 0, 0)

\* 2xx with content; a missing usage block counts as no tokens.
Answered(c, latency, tokens) ==
    /\ lmCall[c].at = "send" /\ IsHttp(c)
    /\ Settle(c, "answered", "ok", TRUE, latency, tokens)

\* MockLlmProvider::complete: the count goes up first; with neither a canned
\* response nor a default there is nothing to say.
MockComplete(c) ==
    /\ lmCall[c].at = "send" /\ ~IsHttp(c)
    /\ lmMock' = lmMock + 1
    /\ lmCall' = [lmCall EXCEPT
          ![c].at = "done", ![c].how = "mocked",
          ![c].result = IF lmMock + 1 > RateLimitAfter THEN "RateLimited" ELSE "LlmUnavailable"]
    /\ UNCHANGED <<lmTable, lmSink, lmLog>>

lmStep(c) ==
    \/ \E latency \in Latencies : RateLimited(c, latency)
    \/ Wake(c)
    \/ \E why \in {"5xx", "auth", "4xx", "network"}, latency \in Latencies :
          Refused(c, why, latency)
    \/ \E why \in {"read", "json", "content"} : BadBody(c, why)
    \/ \E latency \in Latencies, tokens \in Usages : Answered(c, latency, tokens)
    \/ MockComplete(c)

lmNext ==
    \/ \E featherless, aiml \in BOOLEAN, file \in RoutingFiles :
          Boot([featherless |-> featherless, aiml |-> aiml], file)
    \/ \E c \in Calls, agent \in Callers : Complete(c, agent)
    \/ \E c \in Calls : lmStep(c)

lmSpec == lmInit /\ [][lmNext]_lmVars

\* A request ends, by its time-out at the latest, and a pause ends.
lmFairness == \A c \in Calls : WF_lmVars(lmStep(c))
-----------------------------------------------------------------------------
\* The latest n entries of the log.
Latest(n) == SubSeq(lmLog, Len(lmLog) - n + 1, Len(lmLog))

\* The samples the dashboard's percentile is taken from are the latencies of
\* the last LATENCY_RING_CAP recorded calls, or of all of them while they are
\* fewer: the ring wraps without losing, repeating or inventing one.  The average
\* divides the sum of all latencies ever recorded by the number of those samples,
\* so it is their mean until the ring wraps, and not after.
RingIsTheLatest ==
    LET n == Min({Len(lmLog), LATENCY_RING_CAP}) IN
    /\ RingLen(lmSink) = n
    /\ Samples(lmSink) = SortSeq(Latest(n), <)
    /\ n > 0 => P95(lmSink) \in Range(Latest(n))
    /\ n > 0 => AvgLatency(lmSink) = <<FoldLeft(+, 0, lmLog), n>>

\* The slot of the ring that was written age calls before the last one.
Slot(s, age) ==
    IF age < s.ring_idx THEN s.ring_idx - 1 - age ELSE LATENCY_RING_CAP + s.ring_idx - 1 - age

\* Slot by slot, before the sort of snapshot: the ring holds as many entries as
\* were recorded, up to its capacity, and the one written age calls ago is the
\* latency recorded then.
SlotsAreTheLatest ==
    /\ RingLen(lmSink) = IF Len(lmLog) < LATENCY_RING_CAP THEN Len(lmLog) ELSE LATENCY_RING_CAP
    /\ \A age \in 0 .. RingLen(lmSink) - 1 :
           lmSink.ring[Slot(lmSink, age)] = lmLog[Len(lmLog) - age]

\* The calls whose end a backend with a sink reports: all but those whose
\* answer cannot be read.
Reported(c) ==
    /\ lmCall[c].at = "done" /\ lmCall[c].how \in {"answered", "refused", "limited"}
    /\ Backend(c).metered

\* A call that was answered, refused or turned away for good is recorded exactly
\* once, however often it was tried and whoever else calls; one with an unreadable
\* body is not recorded at all.
\* So the counters are the number of those calls and of those with content.
CountedExactlyOnce ==
    /\ \A c \in Calls : lmCall[c].records = IF Reported(c) THEN 1 ELSE 0
    /\ lmSink.calls = Cardinality({c \in Calls : Reported(c)})
    /\ lmSink.successes = Cardinality({c \in Calls : Reported(c) /\ lmCall[c].result = "ok"})

\* What the shared sink holds is what the calls reported: its counters
\* (record_call) and, slot by slot, its ring.
MetricsAreOfTheCalls == SlotsAreTheLatest /\ CountedExactlyOnce

\* A call always comes to an end, also when the provider answers 429 for
\* ever: pauses are used up and sending and sleeping both end.
EveryCallSettles == \A c \in Calls : lmCall[c].at = "send" ~> lmCall[c].at = "done"
===============================================================================
