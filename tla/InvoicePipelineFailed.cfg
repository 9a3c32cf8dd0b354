CONSTANTS
    r1 = r1
    Runs = {r1}
    Tenants = {"stark"}
    Strangers = {"stranger"}
    Invoices = {"inv1"}
    Registries = {
        {"extractor", "po_matcher", "fraud_auditor", "gaap_classifier", "provenance_signer", "demo_narrator", "regression_tester", "audit_watchdog"}}
    Defense = TRUE
    RogueThreshold = 3
    MaxApprovals = 1
SPECIFICATION Spec
PROPERTY FailedRunIsHalted
