-------------------------- MODULE ComplianceReports --------------------------
(***************************************************************************)
(* What the compliance crates make of a run.  themis-compliance maps the   *)
(* decisions and the outcome of a run to the fields of five frameworks     *)
(* (post_invoice asks for the report when process_invoice has returned)    *)
(* and to the registers of three ISO standards and of the AI Act; it also  *)
(* merges SARIF reports.  tl-policy rates a disclosure against eight       *)
(* frameworks, tl-gate mirrors the gate's five conditions.                 *)
(*                                                                         *)
(* The run is the one InvoiceAgents takes.  A map is a sequence of named   *)
(* fields; a field's value is kept where it tells runs apart.  The time    *)
(* stamp of a decision is its place in the chain.                          *)
(***************************************************************************)
EXTENDS InvoiceAgents

When(condition, fields) == IF condition THEN fields ELSE <<>>

\* ComplianceMap: new, and an add_field for each of the fields.
ComplianceMap(framework, total, fields) ==
    [framework |-> framework, total |-> total, fields |-> fields, populated |-> Len(fields)]

Halts == {"RiskScoreExceeded", "SecretLeakDetected", "CoherenceTooLow",
          "MaxDebateRoundsReached", "ExplicitHaltRequested"}

IncidentClass ==
    [RiskScoreExceeded |-> "fraud_suspected", SecretLeakDetected |-> "sanctions_match",
     CoherenceTooLow |-> "data_incoherence", MaxDebateRoundsReached |-> "policy_violation",
     ExplicitHaltRequested |-> "policy_violation"]

\* The Art 17 field: an approved run reports that there is nothing to report.
Incident(outcome) ==
    IF outcome \in Halts
    THEN [outcome |-> "halt", class |-> IncidentClass[outcome], hours |-> 72]
    ELSE [outcome |-> "no_incident", class |-> "none", hours |-> 0]

DoraMapper(p) ==
    LET ds == p.decisions IN
    ComplianceMap("dora", 3,
        When(Has(ds, "fraud_assessed") \/ Has(ds, "watchdog_alert"),
             <<[name |-> "art_9", value |-> Len(ds)]>>)
        \o When(Has(ds, "watchdog_alert"),
                <<[name |-> "art_10", value |-> First(ds, "watchdog_alert").confidence]>>)
        \o <<[name |-> "art_17", value |-> Incident(p.outcome)]>>)

\* The first decision is the input, and its hash the hash of the input data.
EuAiActMapper(p) ==
    LET ds == p.decisions
        input == IF ds = <<>> THEN "nothing" ELSE ds[1].payload
    IN ComplianceMap("eu_ai_act", 9,
        <<[name |-> "art_12_start_time", value |-> IF ds = <<>> THEN 0 ELSE 1],
          [name |-> "art_12_end_time", value |-> Len(ds)],
          [name |-> "art_12_reference_database", value |-> "tenant"],
          [name |-> "art_12_input_data", value |-> Hash(input)],
          [name |-> "art_12_natural_person_id", value |-> "tenant"],
          [name |-> "art_12_decision_id", value |-> "packet"],
          [name |-> "art_12_policy_version", value |-> "fixed"],
          [name |-> "art_12_hash_chain_prev", value |-> Len(ds)],
          [name |-> "art_26_deployer_name", value |-> "tenant"]>>)

NistAiRmfMapper(p) ==
    LET ds == p.decisions IN
    ComplianceMap("nist_ai_rmf", 4,
        When(ds # <<>>, <<[name |-> "govern", value |-> Len(ds)]>>)
        \o <<[name |-> "map", value |-> "tenant"],
             [name |-> "measure",
              value |-> <<IF ds = <<>> THEN 0 ELSE SumConfidence(ds) \div Len(ds),
                          IF p.outcome \in Halts THEN "halt" ELSE "approve">>]>>
        \o When(Has(ds, "regression_result") \/ Has(ds, "provenance_signed"),
                <<[name |-> "manage", value |-> TRUE]>>))

\* The mapper looks for findings, and for the outcome of another agent, at the
\* top level of a decision's payload.
FindsLeak(d) ==
    "findings" \in DOMAIN d.payload /\ "SecretLeak" \in d.payload.findings
OversteppedBy(d) ==
    /\ d.type # "fraud_assessed"
    /\ "outcome" \in DOMAIN d.payload
    /\ d.payload.outcome.json = "string"
    /\ d.payload.outcome.value \in HaltTags

Triggered(p) ==
    LET ds == p.decisions IN
    {asi \in {2, 6, 10} :
        CASE asi = 2  -> p.outcome = "SecretLeakDetected" \/ \E i \in DOMAIN ds : FindsLeak(ds[i])
          [] asi = 6  -> \E i \in DOMAIN ds : OversteppedBy(ds[i])
          [] asi = 10 -> p.outcome \in Halts /\ ~Has(ds, "fraud_assessed")}

OwaspAgenticMapper(p) ==
    LET order == <<2, 6, 10, 1, 3, 4, 5, 7, 8, 9>> IN
    ComplianceMap("owasp_agentic", 10,
        [i \in 1..10 |->
            [name |-> order[i],
             value |-> IF i > 3 THEN "not_assessed"
                       ELSE IF order[i] \in Triggered(p) THEN "triggered" ELSE "mitigated"]])

Iso42001Mapper(p) ==
    ComplianceMap("iso_42001", 5,
        <<[name |-> "6.1", value |-> Len(p.decisions)], [name |-> "8.4", value |-> 0],
          [name |-> "9.1", value |-> 0], [name |-> "10.2", value |-> 0],
          [name |-> "A.6", value |-> 0]>>)

Art12 == {"art_12_start_time", "art_12_end_time", "art_12_reference_database",
          "art_12_input_data", "art_12_natural_person_id", "art_12_decision_id",
          "art_12_policy_version", "art_12_hash_chain_prev"}

\* ComplianceService::report
Report(p) ==
    LET maps == <<DoraMapper(p), EuAiActMapper(p), NistAiRmfMapper(p),
                  OwaspAgenticMapper(p), Iso42001Mapper(p)>>
        art12 == {i \in DOMAIN maps[2].fields : maps[2].fields[i].name \in Art12}
    IN [frameworks |-> maps,
        total_populated |-> MapThenSumSet(LAMBDA i : maps[i].populated, DOMAIN maps),
        total_fields |-> MapThenSumSet(LAMBDA i : maps[i].total, DOMAIN maps),
        ac8_pass |-> \A i \in DOMAIN maps : maps[i].populated >= 1,
        ac15_pass |-> Cardinality(art12) >= 7]

\* AgentDispute of post_invoice: the auditor's confidence against the
\* classifier's doubt, when both have decided.
Disputed(ds) ==
    /\ Has(ds, "fraud_assessed") /\ Has(ds, "gaap_classified")
    /\ LET delta == First(ds, "fraud_assessed").confidence
                    - (100 - First(ds, "gaap_classified").confidence)
       IN delta > 30 \/ delta < -30
-----------------------------------------------------------------------------
\* severity_for_baaar and reporting_window_for: the incident of Art 73 that
\* the orchestrator publishes when the gate halts a run.
SeverityFor(reason) ==
    IF reason \in {"RiskScoreExceeded", "SecretLeakDetected"} THEN "high" ELSE "medium"
ReportingWindowFor(severity) ==
    CASE severity = "critical" -> 24 [] severity = "high" -> 72 [] OTHER -> 360

\* iso_5469::derive: the sample halts, one per condition of the gate.
SampleHalts ==
    [RiskScoreExceeded |-> "critical", SecretLeakDetected |-> "critical",
     CoherenceTooLow |-> "medium", MaxDebateRoundsReached |-> "high",
     ExplicitHaltRequested |-> "low"]
Grade == [low |-> 0, medium |-> 1, high |-> 2, critical |-> 3]

\* fria::derive: the five elements; two of them speak of the score.
RiskLabel(risk_score) ==
    IF risk_score >= 85 THEN "HIGH" ELSE IF risk_score >= 50 THEN "MEDIUM" ELSE "LOW"
Fria(risk_score) ==
    [risk_assessment |-> <<risk_score, RiskLabel(risk_score)>>, data_quality |-> <<>>,
     human_oversight |-> <<>>, technical_robustness |-> <<>>,
     fundamental_rights |-> <<risk_score>>]

\* iso_23894::derive: likelihood and impact of the eight categories, in
\* tenths; the aggregate is their mean product, in hundredths.
RiskEvents ==
    [R1_DataQuality |-> <<3, 6>>, R2_Bias |-> <<2, 4>>, R3_Robustness |-> <<4, 7>>,
     R4_Explainability |-> <<3, 5>>, R5_Privacy |-> <<5, 8>>, R6_Security |-> <<4, 9>>,
     R7_HumanOversight |-> <<3, 7>>, R8_Environmental |-> <<2, 3>>]
AggregateRisk ==
    LET score(c) == RiskEvents[c][1] * RiskEvents[c][2] IN
    Clamp(MapThenSumSet(score, DOMAIN RiskEvents) \div Cardinality(DOMAIN RiskEvents))

\* tl_gate::should_halt, and the two ways to its input.
ShouldHalt(input) ==
    IF input.risk_score > 85 THEN "RiskScoreExceeded"
    ELSE IF "SecretLeak" \in input.findings THEN "SecretLeakDetected"
    ELSE IF input.coherence_score < 30 THEN "CoherenceTooLow"
    ELSE IF input.debate_rounds >= 5 THEN "MaxDebateRoundsReached"
    ELSE IF input.explicit_halt_requested THEN "ExplicitHaltRequested"
    ELSE "Approve"
FromAssessment(a) ==
    [risk_score |-> a.risk_score, findings |-> a.findings,
     coherence_score |-> a.coherence_score, debate_rounds |-> a.debate_rounds,
     explicit_halt_requested |-> a.explicit_halt]

\* BaaarInputs has a severity where an assessment has findings; tl-gate keeps
\* it for information only, baaar_z3::should_halt halts on the highest.
FromBaaarInputs(b) == [FromAssessment(b) EXCEPT !.findings = {}]
Z3ShouldHalt(b, severity) ==
    \/ b.risk_score > 85 \/ severity = "critical" \/ b.coherence_score < 30
    \/ b.debate_rounds >= 5 \/ b.explicit_halt
-----------------------------------------------------------------------------
\* SARIF: a document is [schema, version, runs].
CanonicalSchema == "json.schemastore.org"

Merge(docs) ==
    LET runs[i \in 0 .. Len(docs)] == IF i = 0 THEN <<>> ELSE runs[i - 1] \o docs[i].runs IN
    IF docs = <<>> THEN [schema |-> CanonicalSchema, version |-> "2.1.0", runs |-> <<>>]
    ELSE [docs[1] EXCEPT !.runs = runs[Len(docs)]]

ToJson(doc) == IF doc.schema = "" THEN [doc EXCEPT !.schema = CanonicalSchema] ELSE doc

\* from_json, whether it accepts the document
FromJsonAccepts(doc) == doc.version = "2.1.0" /\ doc.schema # ""
-----------------------------------------------------------------------------
\* tl-policy.  The evidence on a disclosure is the set of what its DORAContext
\* has; a check is [pass, refs], refs the tables its evidence is in.
Evidence == {"chain", "rotation", "decision", "retention"}

Pass(refs) == [pass |-> TRUE, refs |-> refs]
Fail(refs) == [pass |-> FALSE, refs |-> refs]

ProvenanceChain(ctx) ==
    IF "chain" \in ctx THEN Pass(<<"disclosure_records">>) ELSE Fail(<<"disclosure_records">>)
Retention(ctx) ==
    IF "retention" \in ctx THEN Pass(<<"disclosure_records.retention_until">>) ELSE Fail(<<>>)
IncidentLog(ctx) ==
    IF "decision" \in ctx THEN Pass(<<"policy_decisions">>) ELSE Fail(<<>>)
RecentKeyRotation(ctx) ==
    IF "rotation" \in ctx THEN Pass(<<"key_rotation_events">>) ELSE Fail(<<"key_rotation_events:*">>)
MultiTenantIsolation == Fail(<<>>)
AppendOnlyAudit(ctx) ==
    IF "chain" \in ctx THEN Pass(<<"postgres_role">>) ELSE Fail(<<>>)

\* DORAEvidenceStrategy::evaluate: the six checks in their order
DORAReport(ctx) ==
    <<ProvenanceChain(ctx), Retention(ctx), IncidentLog(ctx), RecentKeyRotation(ctx),
      MultiTenantIsolation, AppendOnlyAudit(ctx)>>
PassCount(checks) == Cardinality({i \in DOMAIN checks : checks[i].pass})
FailCount(checks) == Cardinality({i \in DOMAIN checks : ~checks[i].pass})

DoraStatus(ctx) ==
    LET checks == DORAReport(ctx) IN
    IF FailCount(checks) = 0 THEN "Covered"
    ELSE IF PassCount(checks) >= 1 THEN "Partial" ELSE "NotImplemented"

\* ComplianceStrategy: a strategy by framework.
PolicyFrameworks == {"EuAiAct", "Dora", "Iso42001", "NistAiRmf", "NistSp80053", "Soc2",
                     "Iso27001", "OwaspLlm2026"}
Dispatcher ==
    [f \in PolicyFrameworks |->
        CASE f = "Dora" -> "dora"
          [] f = "EuAiAct" -> "art_50"
          [] f \in {"Iso42001", "NistAiRmf"} -> "v1.2"
          [] OTHER -> "stub"]
Register(strategies, framework, strategy) == (framework :> strategy) @@ strategies

\* The strategies of v1.2 report what their mappers are built to cover, whatever
\* the disclosure.
Configured == "Covered"
Rate(strategy, ctx) ==
    CASE strategy = "dora" -> DoraStatus(ctx)
      [] strategy = "art_50" -> "Covered"
      [] strategy = "v1.2" -> Configured
      [] strategy = "stub" -> "NotImplemented"
EvaluateAll(strategies, ctx) == [f \in DOMAIN strategies |-> Rate(strategies[f], ctx)]

\* Iso42001Mapper::map and NistAiRmfMapper::map of tl-policy: the clauses and
\* functions with their parts, and what of the evidence each puts down.
AimsEvidence == {"disclosure", "tenant", "rollup", "policy_version", "deployment", "lifecycle"}
PlanClauses ==
    [clause_4 |-> [parts |-> 4, reads |-> {"tenant", "disclosure", "policy_version"}],
     clause_5 |-> [parts |-> 3, reads |-> {}],
     clause_6 |-> [parts |-> 2, reads |-> {}],
     clause_7 |-> [parts |-> 5, reads |-> {}]]
DoCheckActClauses ==
    [clause_8 |-> [parts |-> 4, reads |-> {"deployment", "lifecycle"}],
     clause_9 |-> [parts |-> 3, reads |-> {"rollup"}],
     clause_10 |-> [parts |-> 3, reads |-> {}]]
AimsClauses == PlanClauses @@ DoCheckActClauses
RmfFunctions ==
    [govern |-> [parts |-> 6, reads |-> {}],
     map |-> [parts |-> 5, reads |-> {"tenant", "disclosure", "deployment", "lifecycle"}],
     measure |-> [parts |-> 4, reads |-> {}],
     manage |-> [parts |-> 4, reads |-> {"deployment", "rollup"}]]
MapAll(fields, total) ==
    [populated |-> Cardinality(DOMAIN fields), all_covered |-> Cardinality(DOMAIN fields) = total,
     parts |-> MapThenSumSet(LAMBDA f : fields[f].parts, DOMAIN fields),
     reads |-> UNION {fields[f].reads : f \in DOMAIN fields}]
-----------------------------------------------------------------------------
\* What a run's report says of it.  No framework counts a field twice or counts
\* more than it has; a decision more never takes a field away; an incident is
\* reported exactly when the gate has halted the run, and is due no later than
\* the one published under Art 73; only a leak the gate halted for shows under
\* ASI02, since the findings of an assessment lie a level below where the mapper
\* looks; the assessment of rights calls a risk high whenever the gate halts for
\* it; and a dispute is never over a halted run, for the run has ended before
\* the second of the two agents speaks.  Both acceptance flags hold of every run,
\* even of one that failed at its first agent.
ReportsAreHonest ==
    LET n == Len(iaDecisions)
        run == [decisions |-> iaDecisions, outcome |-> iaVerdict]
        rep == Report(run)
        before == Report([decisions |-> SubSeq(iaDecisions, 1, n - 1), outcome |-> "none"])
        dora == rep.frameworks[1].fields
        incident == dora[Len(dora)].value
    IN /\ \A i \in DOMAIN rep.frameworks :
             LET m == rep.frameworks[i] IN
             /\ m.populated <= m.total
             /\ \A j, k \in DOMAIN m.fields : m.fields[j].name = m.fields[k].name => j = k
             /\ n > 0 => before.frameworks[i].populated <= m.populated
       /\ rep.ac8_pass /\ rep.ac15_pass
       /\ iaEnd = "halted" <=> incident.outcome = "halt"
       /\ iaEnd = "halted" => incident.hours <= ReportingWindowFor(SeverityFor(iaVerdict))
       /\ Triggered(run) = (IF iaVerdict = "SecretLeakDetected" THEN {2} ELSE {})
       /\ n >= 3 /\ iaVerdict = "RiskScoreExceeded" =>
             Fria(iaDecisions[3].payload.assessment.risk_score).risk_assessment[2] = "HIGH"
       /\ Disputed(iaDecisions) => iaVerdict = "Approve"

\* The gate and its two mirrors agree.  Only a finding that must pass as a
\* severity gets lost on the way into tl-gate.
MirrorsAgree ==
    v1 # "none" =>
        /\ ShouldHalt(FromAssessment(assessment)) = v1
        /\ \A severity \in DOMAIN Grade :
              LET allowed == ShouldHalt(FromBaaarInputs(assessment)) = "Approve" IN
              Z3ShouldHalt(assessment, severity) <=> ~allowed \/ severity = "critical"
        /\ "SecretLeak" \in assessment.findings =>
              (Z3ShouldHalt(assessment, "critical") <=> v1 # "Approve")

\* The registers agree with one another: a reason that Art 73 ranks higher is
\* graded no lower as a functional safety event; every reason has its class and
\* its sample; the aggregate risk is a share.
RegistersAgree ==
    /\ \A a, b \in Halts :
          Grade[SeverityFor(a)] > Grade[SeverityFor(b)] =>
              Grade[SampleHalts[a]] > Grade[SampleHalts[b]]
    /\ AggregateRisk \in 1..99

\* More evidence never lowers the rating of a disclosure, none is rated covered
\* while tenants are not kept apart, a broken chain costs two more checks, and
\* a strategy registered for one framework leaves the others' reports alone.
\* Every clause and function is there, and what the evidence says is put down.
RatingsAreMonotone ==
    \A ctx \in SUBSET Evidence :
        /\ DoraStatus(ctx) # "Covered"
        /\ "chain" \notin ctx => FailCount(DORAReport(ctx)) >= 3
        /\ \A more \in SUBSET Evidence :
              ctx \subseteq more =>
                  /\ PassCount(DORAReport(ctx)) <= PassCount(DORAReport(more))
                  /\ DoraStatus(more) = "NotImplemented" => DoraStatus(ctx) = "NotImplemented"
        /\ \A f \in PolicyFrameworks, s \in {"dora", "v1.2", "stub"} :
              LET rated == EvaluateAll(Register(Dispatcher, f, s), ctx) IN
              /\ rated[f] = Rate(s, ctx)
              /\ \A g \in PolicyFrameworks \ {f} : rated[g] = EvaluateAll(Dispatcher, ctx)[g]
    /\ MapAll(AimsClauses, 7).all_covered /\ MapAll(RmfFunctions, 4).all_covered
    /\ MapAll(RmfFunctions, 4).parts = 19
    /\ MapAll(AimsClauses, 7).reads = AimsEvidence
    /\ MapAll(RmfFunctions, 4).reads = AimsEvidence \ {"policy_version"}

\* SARIF documents a merge may meet.
SarifDocs ==
    [schema : {"", "oasis"}, version : {"2.0.0", "2.1.0"}, runs : {<<>>, <<"a">>, <<"a", "b">>}]

\* A merge of merges is the merge of all, nothing is lost or reordered, and what
\* is written is accepted when it is read, whatever the schema said, provided
\* the first document had the right version.
MergesAreAssociative ==
    \A a, b, c \in SarifDocs :
        LET all == Merge(<<a, b, c>>) IN
        /\ Merge(<<Merge(<<a, b>>), c>>) = all /\ Merge(<<a, Merge(<<b, c>>)>>) = all
        /\ FromJsonAccepts(ToJson(all)) <=> a.version = "2.1.0"

\* What the compliance crates say whatever the run was.
RegistersAreSound == RegistersAgree /\ RatingsAreMonotone /\ MergesAreAssociative
=============================================================================
