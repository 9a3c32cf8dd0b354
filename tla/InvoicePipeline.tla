--------------------------- MODULE InvoicePipeline ---------------------------
(***************************************************************************)
(* The invoice pipeline of themis-orchestrator: process_invoice and        *)
(* process_invoice_sealed (crates/themis-orchestrator/src/orchestrator.rs) *)
(* with the state machine (state.rs), the rogue-agent monitor              *)
(* (rogue_monitor.rs), the alert-fatigue gate (human_guard.rs), the Rekor  *)
(* anchor (rekor_anchoring.rs) and the seal (evidence_sealing.rs).         *)
(*                                                                         *)
(* The methods take &self, so several runs share one Orchestrator.  A run  *)
(* is cut at its awaits: opening the Band room, the first post, each agent *)
(* call, each hand-off post, the Rekor anchor and the seal.  What happens  *)
(* between two awaits is one step, except that the state machine moves in  *)
(* steps of its own.                                                       *)
(***************************************************************************)
EXTENDS Naturals, Sequences, FiniteSets

\* InvoiceState (state.rs): the states of an invoice and their order.
HappyPath ==
    <<"Received", "Extracting", "Matching", "Auditing", "Classifying",
      "Signing", "Narrating", "Validating", "Done">>

InvoiceStates == {HappyPath[i] : i \in DOMAIN HappyPath} \cup {"Halted"}

Terminal == {"Done", "Halted"}

\* InvoiceState::next, for a state that is not terminal.
NextState(s) ==
    CASE s = "Received"    -> "Extracting"
      [] s = "Extracting"  -> "Matching"
      [] s = "Matching"    -> "Auditing"
      [] s = "Auditing"    -> "Classifying"
      [] s = "Classifying" -> "Signing"
      [] s = "Signing"     -> "Narrating"
      [] s = "Narrating"   -> "Validating"
      [] s = "Validating"  -> "Done"

CONSTANTS
    Runs,           \* calls of process_invoice(_sealed)
    Tenants,        \* tenants of the TenantRegistry
    Strangers,      \* tenant ids that are not registered
    Invoices,       \* invoice ids
    Registries,     \* the agent tables an Orchestrator may be built with
    Defense,        \* rogue monitor and alert-fatigue detector attached?
    RogueThreshold, \* RogueMonitor::threshold
    MaxApprovals    \* AlertFatigueDetector::max_approvals_per_window

ASSUME RogueAssumption == RogueThreshold \in Nat \ {0}
ASSUME ApprovalsAssumption == MaxApprovals \in Nat \ {0}
ASSUME DefenseAssumption == Defense \in BOOLEAN
ASSUME TenantsAssumption == Tenants \cap Strangers = {}

\* The stages table of process_invoice: who works, and in which state.
Pipeline ==
    <<"extractor", "po_matcher", "fraud_auditor", "gaap_classifier",
      "provenance_signer", "demo_narrator", "regression_tester",
      "audit_watchdog">>

StageState ==
    <<"Extracting", "Matching", "Auditing", "Classifying", "Signing",
      "Narrating", "Validating", "Done">>

Agents == {Pipeline[i] : i \in DOMAIN Pipeline}

ASSUME RegistriesAssumption == \A table \in Registries : table \subseteq Agents

\* next_agent_mention: whom an agent's Band post mentions, if anyone.
NextMention(a) ==
    CASE a \in {"extractor", "po_matcher"} -> "fraud_auditor"
      [] a = "fraud_auditor"               -> "gaap_classifier"
      [] a = "gaap_classifier"             -> "provenance_signer"
      [] a = "provenance_signer"           -> "audit_watchdog"
      [] a = "audit_watchdog"              -> "demo_narrator"
      [] OTHER                             -> "nobody"

VARIABLES
    \* the shared Orchestrator
    registry,       \* agents in the AgentRegistry
    count,          \* RogueMonitor::per_agent_counts, saturating
    quarantined,    \* RogueMonitor::quarantined
    approvals,      \* approvals inside the fatigue window, saturating
    machines,       \* state_machines: finished runs by (tenant, invoice)
    rekor,          \* runs whose hash the transparency log has taken
    chain,          \* the evidence chain of each tenant
    \* one run
    pc, request, sm, stage, decisions, verdict, outcome, packet,
    failed,         \* halt_and_return was called
    events          \* what the run has published on the event bus

shared == <<registry, count, quarantined, approvals, machines, rekor, chain>>
defense == <<count, quarantined, approvals>>
stores == <<machines, rekor, chain>>
local == <<pc, request, sm, stage, decisions, verdict, outcome, packet,
           failed, events>>
vars == <<shared, local>>

NoRequest == [tenant |-> "none", invoice |-> "none", sealing |-> FALSE]
NoPacket == [kind |-> "none"]
Error == [kind |-> "error"]
Packet(out, signed, anchored) ==
    [kind |-> "packet", outcome |-> out, signed |-> signed,
     anchored |-> anchored]

Outcomes == {"Approve", "Halt"}
Answers == {NoPacket, Error} \cup
           {Packet(o, s, a) : o \in Outcomes, s, a \in BOOLEAN}
Requests == [tenant : Tenants \cup Strangers, invoice : Invoices,
             sealing : BOOLEAN]
Points == {"idle", "opening", "announcing", "stage", "agent", "handoff",
           "finishing", "anchoring", "sealing", "answered"}

\* What process_invoice publishes on the event bus.
Events == [type : {"ProviderActive", "AgentHandoff", "IncidentReported", "BaaarHalt",
                   "AgentCompleted"},
           agent : Agents \cup {"pipeline"}, to : Agents \cup {"nobody"}]

\* Every variable keeps its type.
TypeOK ==
    /\ registry \in SUBSET Agents
    /\ count \in [Agents -> 0..RogueThreshold]
    /\ quarantined \in SUBSET Agents
    /\ approvals \in 0..(MaxApprovals + 1)
    /\ machines \in [Tenants \X Invoices -> InvoiceStates \cup {"none"}]
    /\ rekor \in SUBSET Runs
    /\ chain \in [Tenants -> Seq(Runs)]
    /\ pc \in [Runs -> Points]
    /\ request \in [Runs -> Requests \cup {NoRequest}]
    /\ sm \in [Runs -> InvoiceStates]
    /\ stage \in [Runs -> 1..Len(Pipeline)]
    /\ decisions \in [Runs -> Seq(Agents)]
    /\ verdict \in [Runs -> Outcomes \cup {"none"}]
    /\ outcome \in [Runs -> Outcomes]
    /\ packet \in [Runs -> Answers]
    /\ failed \in [Runs -> BOOLEAN]
    /\ events \in [Runs -> Seq(Events)]

Init ==
    /\ registry \in Registries
    /\ count = [a \in Agents |-> 0]
    /\ quarantined = {}
    /\ approvals = 0
    /\ machines = [k \in Tenants \X Invoices |-> "none"]
    /\ rekor = {}
    /\ chain = [t \in Tenants |-> <<>>]
    /\ pc = [r \in Runs |-> "idle"]
    /\ request = [r \in Runs |-> NoRequest]
    /\ sm = [r \in Runs |-> "Received"]
    /\ stage = [r \in Runs |-> 1]
    /\ decisions = [r \in Runs |-> <<>>]
    /\ verdict = [r \in Runs |-> "none"]
    /\ outcome = [r \in Runs |-> "Approve"]
    /\ packet = [r \in Runs |-> NoPacket]
    /\ failed = [r \in Runs |-> FALSE]
    /\ events = [r \in Runs |-> <<>>]
-----------------------------------------------------------------------------
Tenant(r) == request[r].tenant
Worker(r) == Pipeline[stage[r]]
Goto(r, p) == pc' = [pc EXCEPT ![r] = p]
Event(type, agent, to) == [type |-> type, agent |-> agent, to |-> to]
Publish(r, new) == events' = [events EXCEPT ![r] = @ \o new]

\* process_invoice returns p to its caller: process_invoice_sealed goes on to
\* seal a packet, and passes an error through.
Deliver(r, p) ==
    /\ packet' = [packet EXCEPT ![r] = p]
    /\ Goto(r, IF request[r].sealing /\ p.kind = "packet" THEN "sealing"
               ELSE "answered")

\* The call arrives: the tenant is looked up before anything else.
Begin(r) ==
    /\ pc[r] = "idle"
    /\ \E q \in Requests :
          /\ request' = [request EXCEPT ![r] = q]
          /\ IF q.tenant \in Tenants
             THEN Goto(r, "opening") /\ UNCHANGED packet
             ELSE Goto(r, "answered") /\ packet' = [packet EXCEPT ![r] = Error]
    /\ UNCHANGED <<shared, sm, stage, decisions, verdict, outcome, failed,
                   events>>

\* The Band room call of process_invoice's prologue (open, then the first
\* post) returns; an error ends the run.
RoomReply(r, from, to) ==
    /\ pc[r] = from
    /\ \/ Goto(r, to) /\ UNCHANGED packet
       \/ Goto(r, "answered") /\ packet' = [packet EXCEPT ![r] = Error]
    /\ UNCHANGED <<shared, request, sm, stage, decisions, verdict, outcome,
                   failed, events>>

OpenRoom(r) == RoomReply(r, "opening", "announcing")
AnnounceRun(r) == RoomReply(r, "announcing", "stage")

\* One turn of the loop that moves the machine to the stage's state.
AdvanceMachine(r) ==
    /\ pc[r] = "stage"
    /\ sm[r] # StageState[stage[r]]
    /\ sm' = [sm EXCEPT ![r] = NextState(sm[r])]
    /\ UNCHANGED <<shared, pc, request, stage, decisions, verdict, outcome,
                   packet, failed, events>>

\* A mutant of HaltAndReturn: a failed run is reported as a BAAAR halt, and
\* the terminal check of the machine is skipped.
HaltAndReturnAsHalt(r) ==
    /\ failed' = [failed EXCEPT ![r] = TRUE]
    /\ outcome' = [outcome EXCEPT ![r] = "Halt"]
    /\ sm' = [sm EXCEPT ![r] = "Halted"]
    /\ Deliver(r, Packet("Halt", TRUE, FALSE))

\* halt_and_return.  transition(Fail) is an error on a terminal machine, and
\* the signer may fail to initialise; both pass the error on.
HaltAndReturn(r) ==
    /\ failed' = [failed EXCEPT ![r] = TRUE]
    /\ IF sm[r] \in Terminal
       THEN Deliver(r, Error) /\ UNCHANGED <<sm, outcome>>
       ELSE /\ sm' = [sm EXCEPT ![r] = "Halted"]
            /\ outcome' = [outcome EXCEPT ![r] = "Approve"]
            /\ \/ Deliver(r, Packet("Approve", TRUE, FALSE))
               \/ Deliver(r, Error)

\* A mutant of MissingAgent: the lookup is repeated until the agent is there.
MissingAgentWaiting(r) ==
    /\ pc[r] = "stage"
    /\ sm[r] = StageState[stage[r]]
    /\ Worker(r) \notin registry
    /\ UNCHANGED vars

\* The stage's agent is not in the registry.
MissingAgent(r) ==
    /\ pc[r] = "stage"
    /\ sm[r] = StageState[stage[r]]
    /\ Worker(r) \notin registry
    /\ HaltAndReturn(r)
    /\ UNCHANGED <<shared, request, stage, decisions, verdict, events>>

Bumped(a) == IF count[a] < RogueThreshold THEN count[a] + 1 ELSE count[a]

\* record_message(agent, false), then is_quarantined, then the agent call is
\* made unless the agent is quarantined.
Dispatch(r) ==
    /\ pc[r] = "stage"
    /\ sm[r] = StageState[stage[r]]
    /\ Worker(r) \in registry
    /\ IF Defense
       THEN /\ count' = [count EXCEPT ![Worker(r)] = Bumped(Worker(r))]
            /\ quarantined' = IF Bumped(Worker(r)) >= RogueThreshold
                              THEN quarantined \cup {Worker(r)}
                              ELSE quarantined
       ELSE UNCHANGED <<count, quarantined>>
    /\ IF Worker(r) \in quarantined'
       THEN HaltAndReturn(r)
       ELSE Goto(r, "agent") /\ UNCHANGED <<sm, outcome, packet, failed>>
    /\ UNCHANGED <<registry, approvals, stores, request, stage, decisions,
                   verdict, events>>

\* The agent call fails.
AgentFails(r) ==
    /\ pc[r] = "agent"
    /\ HaltAndReturn(r)
    /\ UNCHANGED <<shared, request, stage, decisions, verdict, events>>

Handoff(r) ==
    IF NextMention(Worker(r)) = "nobody" THEN <<>>
    ELSE <<Event("AgentHandoff", Worker(r), NextMention(Worker(r)))>>

\* The agent call succeeds: its decision is recorded, the provider and the
\* hand-off are published, and the Band post is awaited.  Of the decision only
\* what the BAAAR gate makes of the Fraud Auditor's assessment matters here.
AgentDecides(r) ==
    /\ pc[r] = "agent"
    /\ decisions' = [decisions EXCEPT ![r] = Append(@, Worker(r))]
    /\ IF Worker(r) = "fraud_auditor"
       THEN \E v \in Outcomes : verdict' = [verdict EXCEPT ![r] = v]
       ELSE UNCHANGED verdict
    /\ Publish(r, <<Event("ProviderActive", Worker(r), "nobody")>> \o Handoff(r))
    /\ Goto(r, "handoff")
    /\ UNCHANGED <<shared, request, sm, stage, outcome, packet, failed>>

\* A mutant of NextStage: the loop runs one stage too far.
NextStageOffByOne(r) ==
    IF stage[r] <= Len(Pipeline)
    THEN stage' = [stage EXCEPT ![r] = @ + 1] /\ Goto(r, "stage")
    ELSE Goto(r, "finishing") /\ UNCHANGED stage

NextStage(r) ==
    IF stage[r] < Len(Pipeline)
    THEN stage' = [stage EXCEPT ![r] = @ + 1] /\ Goto(r, "stage")
    ELSE Goto(r, "finishing") /\ UNCHANGED stage

\* A mutant of CheckBaaar: the gate halts the run but its outcome is dropped.
CheckBaaarDroppingOutcome(r) ==
    /\ pc[r] = "handoff"
    /\ IF Worker(r) = "fraud_auditor" /\ verdict[r] = "Halt"
       THEN /\ sm' = [sm EXCEPT ![r] = "Halted"]
            /\ Publish(r, <<Event("IncidentReported", Worker(r), "nobody"),
                            Event("BaaarHalt", Worker(r), "nobody")>>)
            /\ Goto(r, "finishing")
            /\ UNCHANGED stage
       ELSE NextStage(r) /\ UNCHANGED <<sm, events>>
    /\ UNCHANGED <<shared, request, decisions, verdict, outcome, packet,
                   failed>>

\* A mutant of CheckBaaar: the loop goes on after a halt.
CheckBaaarWithoutBreak(r) ==
    /\ pc[r] = "handoff"
    /\ IF Worker(r) = "fraud_auditor" /\ verdict[r] = "Halt"
       THEN /\ outcome' = [outcome EXCEPT ![r] = "Halt"]
            /\ Publish(r, <<Event("IncidentReported", Worker(r), "nobody"),
                            Event("BaaarHalt", Worker(r), "nobody")>>)
       ELSE UNCHANGED <<outcome, events>>
    /\ NextStage(r)
    /\ UNCHANGED <<shared, request, sm, decisions, verdict, packet, failed>>

\* The hand-off post has returned (its error is ignored).  Then
\* check_baaar_and_maybe_halt, which breaks out of the loop on a halt.
CheckBaaar(r) ==
    /\ pc[r] = "handoff"
    /\ IF Worker(r) = "fraud_auditor" /\ verdict[r] = "Halt"
       THEN /\ outcome' = [outcome EXCEPT ![r] = "Halt"]
            /\ sm' = [sm EXCEPT ![r] = "Halted"]
            /\ Publish(r, <<Event("IncidentReported", Worker(r), "nobody"),
                            Event("BaaarHalt", Worker(r), "nobody")>>)
            /\ Goto(r, "finishing")
            /\ UNCHANGED stage
       ELSE NextStage(r) /\ UNCHANGED <<outcome, sm, events>>
    /\ UNCHANGED <<shared, request, decisions, verdict, packet, failed>>

Suspended == approvals > MaxApprovals

\* The loop is over: force_advance_to_done has nothing left to do, the
\* alert-fatigue gate is asked, and the packet is signed or, when the gate is
\* shut, returned without a signature.
Finish(r) ==
    /\ pc[r] = "finishing"
    /\ IF Defense /\ Suspended
       THEN Deliver(r, Packet(outcome[r], FALSE, FALSE))
       ELSE \/ /\ packet' = [packet EXCEPT ![r] =
                                Packet(outcome[r], TRUE, FALSE)]
               /\ Goto(r, "anchoring")
            \/ Deliver(r, Error)
    /\ UNCHANGED <<shared, request, sm, stage, decisions, verdict, outcome,
                   failed, events>>

\* anchor_in_rekor returns, with or without an entry; the machine is cached
\* and the end of the pipeline is announced.
Anchor(r) ==
    /\ pc[r] = "anchoring"
    /\ \E ok \in BOOLEAN :
          /\ rekor' = IF ok THEN rekor \cup {r} ELSE rekor
          /\ Deliver(r, [packet[r] EXCEPT !.anchored = ok])
    /\ machines' = [machines EXCEPT
                       ![<<Tenant(r), request[r].invoice>>] = sm[r]]
    /\ Publish(r, <<Event("AgentCompleted", "pipeline", "nobody")>>)
    /\ UNCHANGED <<registry, defense, chain, request, sm, stage, decisions,
                   verdict, outcome, failed>>

\* A mutant of Seal: the chain is extended only after the packet has been
\* handed out, and not at all when the time stamp fails.
SealAnsweringFirst(r) ==
    /\ pc[r] = "sealing"
    /\ Goto(r, "answered")
    /\ chain' \in {chain, [chain EXCEPT ![Tenant(r)] = Append(@, r)]}
    /\ UNCHANGED <<registry, defense, machines, rekor, request, sm, stage,
                   decisions, verdict, outcome, packet, failed, events>>

\* EvidenceSealing::seal, under the lock on all services: the packet is
\* appended and sealed, or appended and then not time-stamped, or refused.
Seal(r) ==
    /\ pc[r] = "sealing"
    /\ Goto(r, "answered")
    /\ \/ /\ chain' = [chain EXCEPT ![Tenant(r)] = Append(@, r)]
          /\ UNCHANGED packet
       \/ /\ chain' = [chain EXCEPT ![Tenant(r)] = Append(@, r)]
          /\ packet' = [packet EXCEPT ![r] = Error]
       \/ /\ packet' = [packet EXCEPT ![r] = Error]
          /\ UNCHANGED chain
    /\ UNCHANGED <<registry, defense, machines, rekor, request, sm, stage,
                   decisions, verdict, outcome, failed, events>>

RunStep(r) ==
    \/ OpenRoom(r) \/ AnnounceRun(r) \/ AdvanceMachine(r)
    \/ MissingAgent(r) \/ Dispatch(r) \/ AgentFails(r) \/ AgentDecides(r)
    \/ CheckBaaar(r) \/ Finish(r) \/ Anchor(r) \/ Seal(r)
-----------------------------------------------------------------------------
\* record_approval: the human approves one more halt inside the window.
Approve ==
    /\ Defense
    /\ approvals <= MaxApprovals
    /\ approvals' = approvals + 1
    /\ UNCHANGED <<registry, count, quarantined, stores, local>>

\* The oldest approval leaves the window, or reset_after_reauth empties it.
Forget ==
    /\ approvals > 0
    /\ approvals' \in {approvals - 1, 0}
    /\ UNCHANGED <<registry, count, quarantined, stores, local>>

\* RogueMonitor::unquarantine, after a human review.
Unquarantine(a) ==
    /\ a \in quarantined
    /\ quarantined' = quarantined \ {a}
    /\ count' = [count EXCEPT ![a] = 0]
    /\ UNCHANGED <<registry, approvals, stores, local>>

Next ==
    \/ \E r \in Runs : Begin(r) \/ RunStep(r)
    \/ Approve \/ Forget
    \/ \E a \in Agents : Unquarantine(a)

Spec == Init /\ [][Next]_vars

\* The runtime polls every task, and every awaited call returns or times out.
FairSpec == Spec /\ \A r \in Runs : WF_vars(RunStep(r))
-----------------------------------------------------------------------------
\* Refinement mapping: the answers as RunContract sees them.
Answer == [r \in Runs |->
              IF pc[r] # "answered" THEN "none"
              ELSE IF packet[r].kind = "error" THEN "error"
              ELSE packet[r].outcome]

Contract == INSTANCE RunContract WITH answer <- Answer

Machines == INSTANCE StateMachine WITH state <- sm

\* Every run keeps the contract of process_invoice: it is answered at most
\* once, and the outcome of the packet is Halt exactly if the Fraud Auditor's
\* decision trips the gate.  No failure of a later stage, and no other run,
\* turns a halt into an approval.
KeepsContract == Contract!Spec

\* Every change of a run's state machine is one legal transition: no path of
\* process_invoice moves it out of a terminal state or over a state.
MachineIsLegal == Machines!Spec

\* A halt ends the pipeline: no agent decides after a Fraud Auditor whose
\* assessment trips the gate.
NothingAfterHalt ==
    \A r \in Runs : verdict[r] = "Halt" =>
        decisions[r] = SubSeq(Pipeline, 1, 3)

Incidents(r) ==
    Cardinality({i \in DOMAIN events[r] : events[r][i].type = "IncidentReported"})

\* An Article 73 incident is reported once for a packet with outcome Halt and
\* never for another one, however the run ends.
IncidentsMatchHalts ==
    \A r \in Runs : packet[r].kind = "packet" =>
        Incidents(r) = IF packet[r].outcome = "Halt" THEN 1 ELSE 0

\* The transparency log only takes runs that went to the end: every agent
\* decided, or the gate halted the run.  Failed runs are never anchored.
AnchoredRanToTheEnd ==
    \A r \in rekor : decisions[r] = Pipeline \/ outcome[r] = "Halt"

\* A halt is final: nobody decides after it, it is reported once, and short
\* of it only complete runs reach the transparency log.
HaltIsFinal == NothingAfterHalt /\ IncidentsMatchHalts /\ AnchoredRanToTheEnd

\* A sealed answer is in its tenant's chain, once.
SealedAnswerIsInChain ==
    \A r \in Runs :
        pc[r] = "answered" /\ request[r].sealing /\ packet[r].kind = "packet"
        => Cardinality({i \in DOMAIN chain[Tenant(r)] :
                           chain[Tenant(r)][i] = r}) = 1

\* Every call is answered, whichever agents are missing, fail or are
\* quarantined.
EveryRunIsAnswered ==
    \A r \in Runs : pc[r] # "idle" ~> pc[r] = "answered"
-----------------------------------------------------------------------------
\* "halt the run, transitioning the state machine to Fail(<reason>) ... then
\* assembling + signing the accumulated decisions and returning the signed
\* packet": the comment on halt_and_return.
FailedRunIsHalted ==
    [][\A r \in Runs : failed'[r] /\ ~failed[r] => sm'[r] = "Halted"]_vars
=============================================================================
