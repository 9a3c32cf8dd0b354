------------------------------- MODULE MCAgents -------------------------------
(***************************************************************************)
(* The agents, their gates and their model calls for TLC.  The five parts  *)
(* share no state: a behaviour exercises one of them and leaves the others *)
(* where they start.                                                       *)
(***************************************************************************)
EXTENDS AgentMonitors, ComplianceReports, LlmCalls

CONSTANT Parts      \* the parts to explore

VARIABLE part       \* the part this behaviour exercises

vars == <<part, afVars, rmVars, bgVars, iaVars, lmVars>>

Init == part \in Parts /\ afInit /\ rmInit /\ bgInit /\ iaInit /\ lmInit

Next ==
    \/ part = "approvals" /\ afNext /\ UNCHANGED <<part, rmVars, bgVars, iaVars, lmVars>>
    \/ part = "rogues" /\ rmNext /\ UNCHANGED <<part, afVars, bgVars, iaVars, lmVars>>
    \/ part = "gate" /\ bgNext /\ UNCHANGED <<part, afVars, rmVars, iaVars, lmVars>>
    \/ part = "agents" /\ iaNext /\ UNCHANGED <<part, afVars, rmVars, bgVars, lmVars>>
    \/ part = "calls" /\ lmNext /\ UNCHANGED <<part, afVars, rmVars, bgVars, iaVars>>

Spec == Init /\ [][Next]_vars /\ lmFairness
-----------------------------------------------------------------------------
\* Every variable of the two monitors keeps its type.
TypeOK == afTypeOK /\ rmTypeOK

\* Nobody approves more than the budget of a window allows, although the
\* threads' time stamps enter the queue out of order.
BudgetIsKept == NeverUndercounts /\ AuthorisedWithinBudget

\* What screens and compresses prompts has no state: one state is enough for it.
Start == part = "agents" /\ iaInit

\* The gate's verdicts are sound: the first condition met is named and more bad
\* news never redeems a report.  And what one agent writes the others read: the
\* orchestrator's gate reaches the auditor's verdict, and the tester verifies
\* the signer's signature over all that was decided before it.
VerdictsAreSound ==
    NamesFirstCondition /\ WorseIsNotApproved /\ GatesAgree /\ HonestChainVerifies

\* What is reported of a run, a call and a prompt is so: the percentile is one
\* of the latest calls, a consensus is carried by its weight, the compliance
\* crates report what the run was and the gate's mirrors what the gate says, and
\* what screens, compresses or fences off a prompt does so by its own rules.
ReportsAreRight ==
    /\ RingIsTheLatest /\ ConsensusIsCarried
    /\ ReportsAreHonest /\ MirrorsAgree
    /\ Start => RegistersAreSound /\ ContextIsSafe
-----------------------------------------------------------------------------
\* Scores on both sides of and at each threshold, rounds up to and past the
\* width of the counter (a u32, scaled down to three bits), an empty panel, one
\* with a role that has no weight, and one whose two voices weigh differently.
MCScores == {0, 29, 30, 85, 86}
MCRounds == {0, 4, 5, 8}
MCConfidences == {-10, 49, 50, 250}
MCPanels == {<<>>, <<"unlisted">>, <<"extractor", "fraud_auditor">>}

\* Invoices with and without an order, one without a vendor, one of nothing.
MCInvoices ==
    {[kind |-> "invoice", vendor |-> "v", amount |-> a, po_ref |-> p] :
        a \in {0, 3}, p \in {"po", "free", "no"}}
    \cup {[kind |-> "invoice", vendor |-> "", amount |-> 3, po_ref |-> "po"]}
MCAssessments ==
    [kind : {"assessment"},
     fields : [risk_score : {50, 86}, findings : SUBSET {"SecretLeak"},
               coherence_score : {29, 30}, debate_rounds : {4, 5},
               explicit_halt : BOOLEAN]]
MCClasses == {[kind |-> "lines"]} \cup [kind : {"classification"}, confidence : {10, 90}]
MCPurchaseOrders == ("po" :> 4) @@ ("free" :> 0)
MCFixtures == {"risk_score_exceeded", "secret_leak_detected", "coherence_too_low",
               "max_debate_rounds_reached", "explicit_halt_requested", "unknown"}

\* No routing.toml, and one that names one model and leaves the others out.
MCRoutingFiles ==
    {[kind |-> "missing"],
     [kind |-> "tables",
      models |-> [fraud_auditor |-> "other", gaap_classifier |-> None, aiml_api |-> None]]}
=============================================================================
