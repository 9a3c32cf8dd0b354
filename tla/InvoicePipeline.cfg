CONSTANTS
    r1 = r1
    r2 = r2
    Runs = {r1, r2}
    Tenants = {"stark"}
    Strangers = {"stranger"}
    Invoices = {"inv1"}
    \* The full agent table, and each table that lacks one agent.
    Registries = {
        {"extractor", "po_matcher", "fraud_auditor", "gaap_classifier", "provenance_signer", "demo_narrator", "regression_tester", "audit_watchdog"},
        {"po_matcher", "fraud_auditor", "gaap_classifier", "provenance_signer", "demo_narrator", "regression_tester", "audit_watchdog"},
        {"extractor", "fraud_auditor", "gaap_classifier", "provenance_signer", "demo_narrator", "regression_tester", "audit_watchdog"},
        {"extractor", "po_matcher", "gaap_classifier", "provenance_signer", "demo_narrator", "regression_tester", "audit_watchdog"},
        {"extractor", "po_matcher", "fraud_auditor", "provenance_signer", "demo_narrator", "regression_tester", "audit_watchdog"},
        {"extractor", "po_matcher", "fraud_auditor", "gaap_classifier", "demo_narrator", "regression_tester", "audit_watchdog"},
        {"extractor", "po_matcher", "fraud_auditor", "gaap_classifier", "provenance_signer", "regression_tester", "audit_watchdog"},
        {"extractor", "po_matcher", "fraud_auditor", "gaap_classifier", "provenance_signer", "demo_narrator", "audit_watchdog"},
        {"extractor", "po_matcher", "fraud_auditor", "gaap_classifier", "provenance_signer", "demo_narrator", "regression_tester"}}
    Defense = TRUE
    RogueThreshold = 2
    MaxApprovals = 1
SPECIFICATION FairSpec
INVARIANTS
    TypeOK
    HaltIsFinal
    SealedAnswerIsInChain
PROPERTIES
    KeepsContract
    MachineIsLegal
    EveryRunIsAnswered
