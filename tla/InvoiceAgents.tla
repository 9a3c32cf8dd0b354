---------------------------- MODULE InvoiceAgents -----------------------------
(***************************************************************************)
(* The agents of an invoice: the gate that may stop their run, and the     *)
(* eight agents themselves.                                                *)
(***************************************************************************)
EXTENDS Integers, Sequences, FiniteSetsExt, TLC

(***************************************************************************)
(* The BAAAR kill switch (crates/themis-agents/src/baaar.rs): reading an   *)
(* assessment out of an agent's payload, the five conditions of            *)
(* BaaarGate::check and the weighted consensus of BaaarV2Gate::check_sac.  *)
(* Scores are whole percents; rounding of f32 is left out.                 *)
(***************************************************************************)

CONSTANTS
    Scores,         \* risk and coherence scores an agent may report
    Rounds,         \* debate rounds an agent may report
    RoundsModulus,  \* debate_rounds is cast to u32: 2^32, scaled down
    Confidences,    \* confidences agents may report, some out of range
    Panels          \* sequences of the roles that report a confidence

Kinds == {"SecretLeak", "PriceAnomaly"}
Absent == -1
RISK_SCORE_HALT == 85
COHERENCE_FLOOR == 30
MAX_DEBATE_ROUNDS == 5
SAC_THRESHOLD == 50

ASSUME ModulusAssumption == RoundsModulus \in Nat /\ RoundsModulus > MAX_DEBATE_ROUNDS
ASSUME ScoresAssumption == Scores \subseteq Int /\ Rounds \subseteq Nat

\* Weights of BaaarV2Gate::new, in halves; a role that is not in the table
\* has no weight.
Weight(role) ==
    CASE role = "fraud_auditor" -> 2
      [] role = "unlisted" -> 0
      [] OTHER -> 1

\* What an agent may send: every field may be missing.
Reports == [risk_score : Scores \cup {Absent}, findings : SUBSET Kinds,
            coherence_score : Scores \cup {Absent},
            debate_rounds : Rounds \cup {Absent}, explicit_halt : BOOLEAN]
-----------------------------------------------------------------------------
Default(value, default) == IF value = Absent THEN default ELSE value

\* FraudAssessment::from_decision_payload.  A missing list of findings and a
\* missing explicit_halt read like an empty one and like FALSE.
FromPayload(r) ==
    [risk_score      |-> Default(r.risk_score, 0),
     findings        |-> r.findings,
     coherence_score |-> Default(r.coherence_score, 100),
     debate_rounds   |-> Default(r.debate_rounds, 0) % RoundsModulus,
     explicit_halt   |-> r.explicit_halt]

\* A mutant of Check: the last debate round allowed is let pass.
CheckPastMax(a) ==
    IF a.risk_score > RISK_SCORE_HALT THEN "RiskScoreExceeded"
    ELSE IF "SecretLeak" \in a.findings THEN "SecretLeakDetected"
    ELSE IF a.coherence_score < COHERENCE_FLOOR THEN "CoherenceTooLow"
    ELSE IF a.debate_rounds > MAX_DEBATE_ROUNDS THEN "MaxDebateRoundsReached"
    ELSE IF a.explicit_halt THEN "ExplicitHaltRequested"
    ELSE "Approve"

\* BaaarGate::check: the first condition that is met names the reason.
Check(a) ==
    IF a.risk_score > RISK_SCORE_HALT THEN "RiskScoreExceeded"
    ELSE IF "SecretLeak" \in a.findings THEN "SecretLeakDetected"
    ELSE IF a.coherence_score < COHERENCE_FLOOR THEN "CoherenceTooLow"
    ELSE IF a.debate_rounds >= MAX_DEBATE_ROUNDS THEN "MaxDebateRoundsReached"
    ELSE IF a.explicit_halt THEN "ExplicitHaltRequested"
    ELSE "Approve"

Clamp(c) == IF c < 0 THEN 0 ELSE IF c > 100 THEN 100 ELSE c

WeightTotal(panel) ==
    MapThenSumSet(LAMBDA i : Weight(panel[i]), DOMAIN panel)

WeightedSum(panel, conf) ==
    MapThenSumSet(LAMBDA i : Weight(panel[i]) * Clamp(conf[i]), DOMAIN panel)

\* BaaarV2Gate::check_sac, for the panel of roles and their confidences.
CheckSac(a, panel, conf) ==
    IF Check(a) # "Approve" THEN Check(a)
    ELSE IF WeightTotal(panel) = 0 THEN "CoherenceTooLow"
    ELSE IF WeightedSum(panel, conf) < SAC_THRESHOLD * WeightTotal(panel)
    THEN "CoherenceTooLow"
    ELSE "Approve"
-----------------------------------------------------------------------------
VARIABLES
    report, assessment,
    panel, conf,        \* who reports a confidence, and which
    v1, v2              \* the verdicts of the two gates

bgVars == <<report, assessment, panel, conf, v1, v2>>

NoReport == [risk_score |-> Absent]
NoAssessment == [risk_score |-> Absent]

bgInit ==
    /\ report = NoReport
    /\ assessment = NoAssessment
    /\ panel = <<>> /\ conf = <<>>
    /\ v1 = "none" /\ v2 = "none"

\* The fraud auditor reports; the orchestrator reads the payload and asks the
\* gate.
Judge ==
    /\ v1 = "none"
    /\ report' \in Reports
    /\ assessment' = FromPayload(report')
    /\ v1' = Check(assessment')
    /\ UNCHANGED <<panel, conf, v2>>

\* The second gate is asked with the confidences of a panel.
Consult ==
    /\ v1 # "none"
    /\ v2 = "none"
    /\ \E p \in Panels : \E c \in [DOMAIN p -> Confidences] :
          /\ panel' = p
          /\ conf' = c
          /\ v2' = CheckSac(assessment, p, c)
    /\ UNCHANGED <<report, assessment, v1>>

bgNext == Judge \/ Consult

bgSpec == bgInit /\ [][bgNext]_bgVars
-----------------------------------------------------------------------------
\* Reference: the conditions a report meets, in the order of their rank.
Ranked ==
    <<"RiskScoreExceeded", "SecretLeakDetected", "CoherenceTooLow",
      "MaxDebateRoundsReached", "ExplicitHaltRequested">>

Meets(a, i) ==
    CASE i = 1 -> a.risk_score > 85
      [] i = 2 -> "SecretLeak" \in a.findings
      [] i = 3 -> a.coherence_score < 30
      [] i = 4 -> a.debate_rounds >= 5
      [] i = 5 -> a.explicit_halt

\* What an agent sent: missing fields read as their defaults, nothing narrowed.
AsSent(r) ==
    [risk_score      |-> Default(r.risk_score, 0),
     findings        |-> r.findings,
     coherence_score |-> Default(r.coherence_score, 100),
     debate_rounds   |-> Default(r.debate_rounds, 0),
     explicit_halt   |-> r.explicit_halt]

\* The count of rounds survives the cast to u32.
FitsU32(r) == r.debate_rounds < RoundsModulus

\* The verdict names the highest-ranking condition that what the agent sent
\* meets, and approves exactly if it meets none, for every count of rounds that
\* fits a u32 (BaaarGate::check).  Beyond that the cast makes few rounds of many,
\* and a report of 2^32 rounds is approved.
NamesFirstCondition ==
    v1 # "none" /\ FitsU32(report) =>
        /\ v1 = "Approve" <=> \A i \in 1..5 : ~Meets(AsSent(report), i)
        /\ \A i \in 1..5 : v1 = Ranked[i] =>
              /\ Meets(AsSent(report), i)
              /\ \A j \in 1..(i - 1) : ~Meets(AsSent(report), j)

\* b is at least as bad as a.
Worse(b, a) ==
    /\ b.risk_score >= a.risk_score
    /\ a.findings \subseteq b.findings
    /\ b.coherence_score <= a.coherence_score
    /\ b.debate_rounds >= a.debate_rounds
    /\ a.explicit_halt => b.explicit_halt

\* What halts a run cannot be made good by more bad news: no report that is
\* worse in every respect is approved when this one is halted, as long as its
\* count of rounds fits a u32 (from_decision_payload and check together).
WorseIsNotApproved ==
    v1 \notin {"none", "Approve"} =>
        \A b \in [risk_score : {report.risk_score, 100},
                  findings : {report.findings, Kinds},
                  coherence_score : {report.coherence_score, 0},
                  debate_rounds : {report.debate_rounds, RoundsModulus - 1},
                  explicit_halt : BOOLEAN] :
            FitsU32(b) /\ Worse(AsSent(b), AsSent(report))
                => Check(FromPayload(b)) # "Approve"

\* An approval by consensus is carried: the first gate approved too, and the
\* agents with a confidence above zero hold at least half of the weight, so
\* that no light voice outvotes the panel by reporting a value out of range.
ConsensusIsCarried ==
    v2 = "Approve" =>
        /\ v1 = "Approve"
        /\ WeightTotal(panel) > 0
        /\ 2 * MapThenSumSet(LAMBDA i : Weight(panel[i]),
                             {i \in DOMAIN panel : conf[i] > 0})
              >= WeightTotal(panel)

-----------------------------------------------------------------------------
(***************************************************************************)
(* The eight agents of crates/themis-agents, called one after the other as *)
(* process_invoice does: what each makes of the decisions upstream and of  *)
(* its model's text, what it refuses, and what it hands on.  The binary    *)
(* runs stubs in their place, which read their answers from fixtures       *)
(* (themis-orchestrator/src/bin/themis-orchestrator.rs).                   *)
(*                                                                         *)
(* A text is a fence and a body; a body is what a JSON parser makes of it. *)
(* Confidences are whole percents.  The gate's operators are above.        *)
(***************************************************************************)

CONSTANTS
    Invoices,       \* bodies the extractor's model may write
    Assessments,    \* bodies the fraud auditor's model may write
    Classes,        \* bodies the classifier's model may write
    PurchaseOrders, \* po_db: expected amount by reference
    Fixtures,       \* expected_halt_reason of the demo fixtures
    SigningKey      \* the key of the provenance signer

\* What serde reads as a FraudAssessment: every field there, the rounds a u32.
ASSUME AssessmentsAssumption ==
    \A b \in Assessments :
        b.fields \in [risk_score : Int \ {Absent}, findings : SUBSET Kinds,
                      coherence_score : Int \ {Absent},
                      debate_rounds : 0 .. RoundsModulus - 1, explicit_halt : BOOLEAN]

Stages == <<"extractor", "po_matcher", "fraud_auditor", "gaap_classifier",
            "provenance_signer", "demo_narrator", "regression_tester", "audit_watchdog">>

Garbage == [kind |-> "garbage"]

\* strip_code_fences: a fence that is opened must be closed to be taken off.
StripCodeFences(text) == IF text.fence = "open" THEN Garbage ELSE text.body

Decision(type, confidence, payload) ==
    [type |-> type, confidence |-> confidence, payload |-> payload]

Ok(type, confidence, payload) == {Decision(type, confidence, payload)}
Err == {}       \* AgentError, of whichever kind: the run is halted

\* find: the first decision of a type, which every reader takes.
Has(upstream, type) == \E i \in DOMAIN upstream : upstream[i].type = type
First(upstream, type) ==
    upstream[CHOOSE i \in DOMAIN upstream :
                /\ upstream[i].type = type
                /\ \A j \in 1 .. i - 1 : upstream[j].type # type]
-----------------------------------------------------------------------------
\* ExtractorAgent::process; the invoice of a run is never empty.
Extract(text) ==
    LET b == StripCodeFences(text) IN
    IF b.kind # "invoice" \/ b.vendor = "" \/ b.amount <= 0 THEN Err
    ELSE Ok("extracted", 90, b)

\* PoMatcher::process; delta_pct is kept as a quotient, 0 for a free order.
PoMatch(upstream) ==
    IF ~Has(upstream, "extracted") THEN Err
    ELSE LET invoice == First(upstream, "extracted").payload IN
         IF invoice.po_ref \in DOMAIN PurchaseOrders
         THEN LET expected == PurchaseOrders[invoice.po_ref] IN
              Ok("po_matched", 100,
                 [matched |-> TRUE, expected |-> expected,
                  delta |-> IF expected = 0 THEN <<0, 1>>
                            ELSE <<100 * (invoice.amount - expected), expected>>])
         ELSE Ok("po_matched", 100, [matched |-> FALSE])

\* How serde writes an Outcome: a string for Approve, an object for Halt.
SerializeOutcome(v) ==
    IF v = "Approve" THEN [json |-> "string", value |-> "approve"]
    ELSE [json |-> "object", halt |-> v]

\* FraudAuditor::process: the auditor asks its own gate.
FraudAudit(text) ==
    LET b == StripCodeFences(text) IN
    IF b.kind # "assessment" THEN Err
    ELSE Ok("fraud_assessed", 85,
            [assessment |-> b.fields, outcome |-> SerializeOutcome(Check(b.fields))])

\* GaapClassifier::process: a bare array of lines stands for the first one.
GaapClassify(upstream, text) ==
    LET b == StripCodeFences(text) IN
    IF ~Has(upstream, "extracted") \/ b.kind \notin {"classification", "lines"} THEN Err
    ELSE Ok("gaap_classified", IF b.kind = "lines" THEN 70 ELSE b.confidence, b)

Hash(value) == [hash |-> value]
Bytes(h) == [raw |-> h]
Hex(h) == [hex |-> h]
Sign(key, message) == [by |-> key, of |-> message]

\* ProvenanceSigner::process: the raw hash of all decisions so far is signed.
ProvenanceSign(upstream) ==
    IF upstream = <<>> THEN Err
    ELSE LET h == Hash(upstream) IN
         Ok("provenance_signed", 100,
            [canonical |-> upstream, blake3 |-> Hex(h),
             signature |-> Sign(SigningKey, Bytes(h)), public_key |-> SigningKey])

\* verify_ed25519
VerifyEd25519(key, message, signature) == signature = Sign(key, message)

\* RegressionTester::process
RegressionTest(upstream) ==
    IF ~Has(upstream, "provenance_signed") THEN Err
    ELSE LET p == First(upstream, "provenance_signed").payload
             chain == Hex(Hash(p.canonical)) = p.blake3
             sig == VerifyEd25519(p.public_key, Bytes(p.blake3.hex), p.signature)
         IN Ok("regression_result", 100,
               [verified |-> chain /\ sig, hash_chain |-> chain, signature |-> sig])

\* DemoNarrator::process: anything but an empty text will do.
Narrate(upstream, text) ==
    IF upstream = <<>> \/ StripCodeFences(text).kind = "empty" THEN Err
    ELSE Ok("narrated", 90, [decisions_count |-> Len(upstream)])

SumConfidence(upstream) ==
    MapThenSumSet(LAMBDA i : upstream[i].confidence, DOMAIN upstream)

HaltTags == {"halt_risk_score_exceeded", "halt_secret_leak_detected",
             "halt_coherence_too_low", "halt_max_debate_rounds_reached",
             "halt_explicit_halt_requested"}

\* AuditWatchdog::process: an outcome counts as a halt when it is a string
\* with one of the five tags; below that, the mean confidence decides.
Watch(upstream) ==
    IF upstream = <<>> THEN Err
    ELSE LET elevated == \E i \in DOMAIN upstream :
                             /\ upstream[i].type = "fraud_assessed"
                             /\ upstream[i].payload.outcome.json = "string"
                             /\ upstream[i].payload.outcome.value \in HaltTags
             low == SumConfidence(upstream) < 50 * Len(upstream)
         IN Ok("watchdog_alert", SumConfidence(upstream) \div Len(upstream),
               [risk_elevated |-> elevated,
                reason |-> IF elevated THEN "halt" ELSE IF low THEN "low" ELSE "coherent"])

\* agent.process(ctx), for the real agents.
Process(agent, upstream, text) ==
    CASE agent = "extractor"         -> Extract(text)
      [] agent = "po_matcher"        -> PoMatch(upstream)
      [] agent = "fraud_auditor"     -> FraudAudit(text)
      [] agent = "gaap_classifier"   -> GaapClassify(upstream, text)
      [] agent = "provenance_signer" -> ProvenanceSign(upstream)
      [] agent = "demo_narrator"     -> Narrate(upstream, text)
      [] agent = "regression_tester" -> RegressionTest(upstream)
      [] agent = "audit_watchdog"    -> Watch(upstream)
-----------------------------------------------------------------------------
\* halt_payload_for: the scores that make the gate give the reason wanted.
FixtureScores(reason) ==
    LET calm == [risk_score |-> 50, findings |-> {}, coherence_score |-> 70,
                 debate_rounds |-> 1, explicit_halt |-> FALSE]
    IN CASE reason = "secret_leak_detected" -> [calm EXCEPT !.findings = {"SecretLeak"}]
         [] reason = "coherence_too_low" -> [calm EXCEPT !.coherence_score = 10]
         [] reason = "max_debate_rounds_reached" -> [calm EXCEPT !.debate_rounds = 5]
         [] reason = "explicit_halt_requested" -> [calm EXCEPT !.explicit_halt = TRUE]
         [] OTHER -> [calm EXCEPT !.risk_score = 95]

\* halt_reason_to_outcome_tag, with the name the gate has for the reason.
ReasonOf(reason) ==
    CASE reason = "secret_leak_detected" -> "SecretLeakDetected"
      [] reason = "coherence_too_low" -> "CoherenceTooLow"
      [] reason = "max_debate_rounds_reached" -> "MaxDebateRoundsReached"
      [] reason = "explicit_halt_requested" -> "ExplicitHaltRequested"
      [] OTHER -> "RiskScoreExceeded"

\* fraud_auditor_payload_for: an invoice without a fixture is approved.
FixturePayload(reason) ==
    IF reason = "none"
    THEN [assessment |-> [risk_score |-> 10, findings |-> {}, coherence_score |-> 90,
                          debate_rounds |-> 1, explicit_halt |-> FALSE],
          outcome |-> [json |-> "string", value |-> "approve"]]
    ELSE [assessment |-> FixtureScores(reason),
          outcome |-> [json |-> "string", value |-> "halt", reason |-> ReasonOf(reason)]]

TypeOfStage(agent) ==
    CASE agent = "extractor" -> "extracted"          [] agent = "po_matcher" -> "po_matched"
      [] agent = "fraud_auditor" -> "fraud_assessed" [] agent = "gaap_classifier" -> "gaap_classified"
      [] agent = "provenance_signer" -> "provenance_signed" [] agent = "demo_narrator" -> "narrated"
      [] agent = "regression_tester" -> "regression_result" [] OTHER -> "watchdog_alert"

\* StubAgent::process
StubProcess(agent, reason) ==
    Ok(TypeOfStage(agent), 90,
       IF agent = "fraud_auditor" THEN FixturePayload(reason)
       ELSE [outcome |-> [json |-> "string", value |-> "approve"]])
-----------------------------------------------------------------------------
VARIABLES
    iaDecisions,    \* decisions: what the agents have said so far
    iaStubs,        \* the run is one of the binary's, with stub agents
    iaEnd,          \* "no", "failed" (an agent's error), "halted" or "done"
    iaVerdict       \* what the orchestrator's gate said of the fraud audit

iaVars == <<iaDecisions, iaStubs, iaEnd, iaVerdict>>

iaInit ==
    /\ iaDecisions = <<>>
    /\ iaStubs = FALSE
    /\ iaEnd = "no"
    /\ iaVerdict = "none"

\* The agent's answer is appended, or ends the run; the orchestrator reads
\* the assessment out of the fraud auditor's payload and asks the gate again.
Take(answers) ==
    LET agent == Stages[Len(iaDecisions) + 1] IN
    IF answers = Err
    THEN /\ iaEnd' = "failed"
         /\ UNCHANGED <<iaDecisions, iaVerdict>>
    ELSE LET d == CHOOSE x \in answers : TRUE
             v == IF agent = "fraud_auditor"
                  THEN Check(FromPayload(d.payload.assessment)) ELSE iaVerdict
         IN /\ iaDecisions' = Append(iaDecisions, d)
            /\ iaVerdict' = v
            /\ iaEnd' = IF v \notin {"none", "Approve"} THEN "halted"
                        ELSE IF Len(iaDecisions) + 1 = Len(Stages) THEN "done" ELSE "no"

\* What the model of an agent may write: a good body, garbage or nothing.
Bodies(agent) ==
    CASE agent = "extractor" -> Invoices \cup {Garbage}
      [] agent = "fraud_auditor" -> Assessments \cup {Garbage}
      [] agent = "gaap_classifier" -> Classes \cup {Garbage}
      [] OTHER -> {Garbage, [kind |-> "empty"]}

\* The binary registers a stub for every agent.
RegisterStubs ==
    /\ iaDecisions = <<>> /\ iaEnd = "no" /\ ~iaStubs
    /\ iaStubs' = TRUE
    /\ UNCHANGED <<iaDecisions, iaEnd, iaVerdict>>

\* One stage of process_invoice, with the agents of the crate.
RunAgent(fence, body) ==
    /\ iaEnd = "no" /\ ~iaStubs
    /\ Take(Process(Stages[Len(iaDecisions) + 1], iaDecisions,
                    [fence |-> fence, body |-> body]))
    /\ UNCHANGED iaStubs

\* One stage with the stubs; only the fraud auditor's reads the fixture.
RunStub(reason) ==
    /\ iaEnd = "no" /\ iaStubs
    /\ Take(StubProcess(Stages[Len(iaDecisions) + 1], reason))
    /\ UNCHANGED iaStubs

iaNext ==
    \/ RegisterStubs
    \/ \E fence \in {"none", "closed", "open"} :
          \E body \in Bodies(Stages[Min({Len(iaDecisions) + 1, Len(Stages)})]) :
              RunAgent(fence, body)
    \/ \E reason \in Fixtures \cup {"none"} : RunStub(reason)
-----------------------------------------------------------------------------
\* The verdict inside an outcome that an auditor wrote.
Written(outcome) ==
    IF outcome.json = "object" THEN outcome.halt
    ELSE IF outcome.value = "approve" THEN "Approve" ELSE outcome.reason

\* Both gates agree: the outcome the fraud auditor wrote into its payload is
\* the verdict the orchestrator reaches when it reads the assessment back
\* out of that payload, for the agent of the crate and for every fixture.
GatesAgree ==
    Len(iaDecisions) >= 3 => Written(iaDecisions[3].payload.outcome) = iaVerdict

\* The regression tester accepts what the provenance signer of the same run
\* signed, and the signature covers every decision taken before it.
HonestChainVerifies ==
    ~iaStubs /\ Len(iaDecisions) >= 7 =>
        /\ iaDecisions[7].payload.verified
        /\ iaDecisions[5].payload.canonical = SubSeq(iaDecisions, 1, 4)
===============================================================================
