----------------------- MODULE InvoicePipelineProofs -----------------------
(***************************************************************************)
(* Proofs about InvoicePipeline, for any set of runs, tenants, invoices    *)
(* and agent tables, with and without the defences.                        *)
(***************************************************************************)
EXTENDS InvoicePipeline, SequenceTheorems, FiniteSetTheorems, TLAPS

Prologue == {"idle", "opening", "announcing"}
Working == {"stage", "agent", "handoff"}

\* The types that the control of a run rests on.
ControlOK ==
    /\ pc \in [Runs -> Points]
    /\ sm \in [Runs -> InvoiceStates]
    /\ stage \in [Runs -> 1..8]
    /\ verdict \in [Runs -> Outcomes \cup {"none"}]
    /\ outcome \in [Runs -> Outcomes]
    /\ packet \in [Runs -> Answers]

\* Where a run is in its pipeline, how far its state machine has got.
MachineFollowsStage ==
    \A r \in Runs :
        /\ pc[r] \in Prologue => sm[r] = "Received" /\ stage[r] = 1
        /\ pc[r] = "stage" => sm[r] \in {HappyPath[stage[r]],
                                         HappyPath[stage[r] + 1]}
        /\ pc[r] \in {"agent", "handoff"} => sm[r] = HappyPath[stage[r] + 1]

\* The gate has spoken only after the auditor's stage; before the check, a
\* halt is pending only at that stage.
VerdictFollowsStage ==
    \A r \in Runs :
        /\ pc[r] \in Prologue => verdict[r] = "none"
        /\ pc[r] \in {"stage", "agent"} /\ stage[r] <= 3 => verdict[r] = "none"
        /\ pc[r] \in {"stage", "agent"} => verdict[r] # "Halt"
        /\ pc[r] = "handoff" /\ stage[r] < 3 => verdict[r] = "none"
        /\ pc[r] = "handoff" /\ stage[r] # 3 => verdict[r] # "Halt"

\* The outcome of a run, and of its packet, is what the gate made of it.
OutcomeFollowsVerdict ==
    \A r \in Runs :
        /\ pc[r] \in Prologue \cup Working => outcome[r] = "Approve"
        /\ pc[r] = "finishing" => (outcome[r] = "Halt" <=> verdict[r] = "Halt")
        /\ pc[r] \in {"anchoring", "sealing"} => packet[r].kind = "packet"
        /\ pc[r] = "answered" => packet[r].kind # "none"
        /\ pc[r] \in {"anchoring", "sealing", "answered"}
              /\ packet[r].kind = "packet" =>
                 (packet[r].outcome = "Halt" <=> verdict[r] = "Halt")

IInv == /\ ControlOK /\ MachineFollowsStage /\ VerdictFollowsStage
        /\ OutcomeFollowsVerdict
-----------------------------------------------------------------------------
\* What a run may answer with: an error, nothing yet, or a packet, whose parts
\* are the ones it was made of.
LEMMA AnswerFacts ==
    /\ Error \in Answers /\ Error.kind = "error"
    /\ NoPacket \in Answers /\ NoPacket.kind = "none"
    /\ \A o \in Outcomes : \A s, a \in BOOLEAN :
          /\ Packet(o, s, a) \in Answers
          /\ Packet(o, s, a).kind = "packet"
          /\ Packet(o, s, a).outcome = o
<1>1. Error \in Answers /\ Error.kind = "error"
  BY DEF Answers, Error
<1>2. NoPacket \in Answers /\ NoPacket.kind = "none"
  BY DEF Answers, NoPacket
<1>3. ASSUME NEW o \in Outcomes, NEW s \in BOOLEAN, NEW a \in BOOLEAN
      PROVE  /\ Packet(o, s, a) \in Answers
             /\ Packet(o, s, a).kind = "packet"
             /\ Packet(o, s, a).outcome = o
  BY DEF Answers, Packet
<1>4. QED
  BY <1>1, <1>2, <1>3

\* Anchoring a packet changes nothing else about it.
LEMMA AnchoredFacts ==
    ASSUME NEW p \in Answers, p.kind = "packet", NEW ok \in BOOLEAN
    PROVE  LET q == [p EXCEPT !.anchored = ok] IN
           q \in Answers /\ q.kind = "packet" /\ q.outcome = p.outcome
<1>1. PICK o \in Outcomes, s \in BOOLEAN, a \in BOOLEAN : p = Packet(o, s, a)
  BY DEF Answers, Error, NoPacket
<1>2. [p EXCEPT !.anchored = ok] = Packet(o, s, ok)
  BY <1>1 DEF Packet
<1>3. QED
  BY <1>1, <1>2, AnswerFacts

\* Every run starts in the invariant.
LEMMA InitInvariant == Init => IInv
<1> SUFFICES ASSUME Init PROVE IInv
  OBVIOUS
<1>1. ControlOK
  BY AnswerFacts DEF Init, ControlOK, Points, InvoiceStates, HappyPath, Outcomes
<1>2. MachineFollowsStage
  BY DEF Init, MachineFollowsStage
<1>3. VerdictFollowsStage
  BY DEF Init, VerdictFollowsStage
<1>4. OutcomeFollowsVerdict
  BY DEF Init, OutcomeFollowsVerdict, Prologue, Working
<1>5. QED
  BY <1>1, <1>2, <1>3, <1>4 DEF IInv

\* Facts on the two tables of the pipeline.
LEMMA TableFacts ==
    /\ \A i \in 1..8 : StageState[i] = HappyPath[i + 1]
    /\ \A i \in 1..9 : HappyPath[i] \in InvoiceStates
    /\ \A i \in 1..8 : /\ HappyPath[i] \notin Terminal
                       /\ HappyPath[i] # HappyPath[i + 1]
                       /\ NextState(HappyPath[i]) = HappyPath[i + 1]
    /\ \A i \in 1..8 : Pipeline[i] = "fraud_auditor" <=> i = 3
    /\ Len(Pipeline) = 8
    /\ "Halted" \in InvoiceStates
<1>1. 1..8 = {1, 2, 3, 4, 5, 6, 7, 8} /\ 1..9 = {1, 2, 3, 4, 5, 6, 7, 8, 9}
  OBVIOUS
<1>2. \A i \in 1..8 : StageState[i] = HappyPath[i + 1]
  BY <1>1 DEF StageState, HappyPath
<1>3. \A i \in 1..9 : HappyPath[i] \in InvoiceStates
  BY <1>1 DEF HappyPath, InvoiceStates
<1>4. \A i \in 1..8 : HappyPath[i] \notin Terminal /\ HappyPath[i] # HappyPath[i + 1]
  BY <1>1 DEF HappyPath, Terminal
<1>5. \A i \in 1..8 : NextState(HappyPath[i]) = HappyPath[i + 1]
  BY <1>1 DEF HappyPath, NextState
<1>6. \A i \in 1..8 : Pipeline[i] = "fraud_auditor" <=> i = 3
  BY <1>1 DEF Pipeline
<1>7. Len(Pipeline) = 8 /\ "Halted" \in InvoiceStates
  BY DEF Pipeline, InvoiceStates
<1>8. QED
  BY <1>2, <1>3, <1>4, <1>5, <1>6, <1>7

\* halt_and_return, from a point where the gate has not halted the run, ends
\* it with an error or with a packet that approves.
LEMMA HaltAndReturnKeeps ==
    ASSUME IInv, NEW r \in Runs, pc[r] \in {"stage", "agent"},
           HaltAndReturn(r), UNCHANGED <<stage, verdict>>
    PROVE  IInv'
<1> USE DEF IInv
<1>1. verdict[r] # "Halt"
  BY DEF VerdictFollowsStage
<1>2. \E p \in {Error, Packet("Approve", TRUE, FALSE)} :
         /\ packet' = [packet EXCEPT ![r] = p]
         /\ \/ pc' = [pc EXCEPT ![r] = "answered"]
            \/ pc' = [pc EXCEPT ![r] = "sealing"] /\ p.kind = "packet"
  BY AnswerFacts DEF HaltAndReturn, Deliver, Goto
<1>3. PICK p \in {Error, Packet("Approve", TRUE, FALSE)} :
         /\ packet' = [packet EXCEPT ![r] = p]
         /\ \/ pc' = [pc EXCEPT ![r] = "answered"]
            \/ pc' = [pc EXCEPT ![r] = "sealing"] /\ p.kind = "packet"
  BY <1>2
<1>4. /\ p \in Answers
      /\ p.kind \in {"error", "packet"}
      /\ p.kind = "packet" => p.outcome = "Approve"
  BY AnswerFacts DEF Outcomes
<1>5. /\ sm' \in {sm, [sm EXCEPT ![r] = "Halted"]}
      /\ outcome' \in {outcome, [outcome EXCEPT ![r] = "Approve"]}
  BY DEF HaltAndReturn
<1>6. ControlOK'
  BY <1>3, <1>4, <1>5, TableFacts DEF ControlOK, Points, Outcomes
<1>7. MachineFollowsStage'
  BY <1>3, <1>5 DEF ControlOK, MachineFollowsStage, Prologue
<1>8. VerdictFollowsStage'
  BY <1>3 DEF ControlOK, VerdictFollowsStage, Prologue
<1>9. OutcomeFollowsVerdict'
  BY <1>1, <1>3, <1>4, <1>5 DEF ControlOK, OutcomeFollowsVerdict, Prologue, Working
<1>10. QED
  BY <1>6, <1>7, <1>8, <1>9

\* Every step of every run, of the human and of the monitor keeps the
\* invariant.
LEMMA StepInvariant == IInv /\ [Next]_vars => IInv'
<1> SUFFICES ASSUME IInv, [Next]_vars PROVE IInv'
  OBVIOUS
<1> USE DEF IInv
<1>1. CASE UNCHANGED <<pc, sm, stage, verdict, outcome, packet>>
  BY <1>1 DEF ControlOK, MachineFollowsStage, VerdictFollowsStage,
              OutcomeFollowsVerdict
<1>2. ASSUME NEW r \in Runs, Begin(r) PROVE IInv'
  BY <1>2, AnswerFacts DEF Begin, Goto, ControlOK, MachineFollowsStage,
     VerdictFollowsStage, OutcomeFollowsVerdict, Prologue, Working, Points
<1>3. ASSUME NEW r \in Runs, RunStep(r) PROVE IInv'
  <2>1. CASE OpenRoom(r)
    BY <2>1, AnswerFacts DEF OpenRoom, RoomReply, Goto, ControlOK,
       MachineFollowsStage, VerdictFollowsStage, OutcomeFollowsVerdict,
       Prologue, Working, Points
  <2>2. CASE AnnounceRun(r)
    <3>1. HappyPath[1] = "Received"
      BY DEF HappyPath
    <3>2. QED
      BY <2>2, <3>1, AnswerFacts DEF AnnounceRun, RoomReply, Goto, ControlOK,
         MachineFollowsStage, VerdictFollowsStage, OutcomeFollowsVerdict,
         Prologue, Working, Points
  <2>3. CASE AdvanceMachine(r)
    <3>1. sm[r] = HappyPath[stage[r]]
      BY <2>3, TableFacts DEF AdvanceMachine, ControlOK, MachineFollowsStage
    <3>2. sm' = [sm EXCEPT ![r] = HappyPath[stage[r] + 1]]
      BY <2>3, <3>1, TableFacts, ZenonT(60) DEF AdvanceMachine, ControlOK
    <3>3. ControlOK'
      BY <2>3, <3>2, TableFacts DEF AdvanceMachine, ControlOK
    <3>4. MachineFollowsStage'
      BY <2>3, <3>2 DEF AdvanceMachine, ControlOK, MachineFollowsStage, Prologue
    <3>5. VerdictFollowsStage' /\ OutcomeFollowsVerdict'
      BY <2>3 DEF AdvanceMachine, VerdictFollowsStage, OutcomeFollowsVerdict
    <3>6. QED
      BY <3>3, <3>4, <3>5
  <2>4. CASE MissingAgent(r)
    BY <2>4, HaltAndReturnKeeps DEF MissingAgent
  <2>5. CASE Dispatch(r)
    <3>1. CASE Worker(r) \in quarantined'
      BY <2>5, <3>1, HaltAndReturnKeeps DEF Dispatch
    <3>2. CASE Worker(r) \notin quarantined'
      <4>1. sm[r] = HappyPath[stage[r] + 1]
        BY <2>5, TableFacts DEF Dispatch, ControlOK
      <4>2. QED
        BY <2>5, <3>2, <4>1 DEF Dispatch, Goto, ControlOK, MachineFollowsStage,
           VerdictFollowsStage, OutcomeFollowsVerdict, Prologue, Working, Points
    <3>3. QED
      BY <3>1, <3>2
  <2>6. CASE AgentFails(r)
    BY <2>6, HaltAndReturnKeeps DEF AgentFails
  <2>7. CASE AgentDecides(r)
    <3>1. Worker(r) = "fraud_auditor" <=> stage[r] = 3
      BY TableFacts DEF Worker, ControlOK
    <3>2. /\ pc[r] = "agent"
          /\ pc' = [pc EXCEPT ![r] = "handoff"]
          /\ UNCHANGED <<sm, stage, outcome, packet>>
          /\ IF stage[r] = 3
             THEN \E v \in Outcomes : verdict' = [verdict EXCEPT ![r] = v]
             ELSE UNCHANGED verdict
      BY <2>7, <3>1 DEF AgentDecides, Goto
    <3>3. ControlOK'
      BY <3>2 DEF ControlOK, Points
    <3>4. MachineFollowsStage'
      BY <3>2 DEF ControlOK, MachineFollowsStage, Prologue
    <3>5. VerdictFollowsStage'
      BY <3>2 DEF ControlOK, VerdictFollowsStage, Prologue
    <3>6. OutcomeFollowsVerdict'
      BY <3>2 DEF ControlOK, OutcomeFollowsVerdict, Prologue, Working
    <3>7. QED
      BY <3>3, <3>4, <3>5, <3>6
  <2>8. CASE CheckBaaar(r)
    <3>1. Worker(r) = "fraud_auditor" <=> stage[r] = 3
      BY TableFacts DEF Worker, ControlOK
    <3>2. stage[r] \in 1..8 /\ UNCHANGED <<verdict, packet>>
      BY <2>8 DEF CheckBaaar, ControlOK
    <3>3. CASE stage[r] = 3 /\ verdict[r] = "Halt"
      <4>1. /\ outcome' = [outcome EXCEPT ![r] = "Halt"]
            /\ sm' = [sm EXCEPT ![r] = "Halted"]
            /\ pc' = [pc EXCEPT ![r] = "finishing"]
            /\ UNCHANGED stage
        BY <2>8, <3>1, <3>3 DEF CheckBaaar, Goto
      <4>2. ControlOK'
        BY <3>2, <4>1, TableFacts DEF ControlOK, Points, Outcomes
      <4>3. MachineFollowsStage' /\ VerdictFollowsStage'
        BY <3>2, <4>1 DEF ControlOK, MachineFollowsStage, VerdictFollowsStage,
           Prologue
      <4>4. OutcomeFollowsVerdict'
        BY <3>2, <3>3, <4>1 DEF ControlOK, OutcomeFollowsVerdict, Prologue,
           Working
      <4>5. QED
        BY <4>2, <4>3, <4>4
    <3>4. CASE ~(stage[r] = 3 /\ verdict[r] = "Halt")
      <4>1. NextStage(r) /\ UNCHANGED <<outcome, sm, verdict, packet>>
        BY <2>8, <3>1, <3>4 DEF CheckBaaar
      <4>2. pc[r] = "handoff" /\ verdict[r] # "Halt"
        BY <2>8, <3>4 DEF CheckBaaar, VerdictFollowsStage
      <4>3. CASE stage[r] < 8
        <5>1. /\ stage' = [stage EXCEPT ![r] = stage[r] + 1]
              /\ pc' = [pc EXCEPT ![r] = "stage"]
          BY <4>1, <4>3, TableFacts DEF NextStage, Goto, ControlOK
        <5>0. ControlOK'
          BY <3>2, <4>1, <4>3, <5>1 DEF ControlOK, Points
        <5>2. MachineFollowsStage'
          BY <4>1, <4>2, <5>1 DEF MachineFollowsStage, ControlOK, Prologue
        <5>3. stage[r] <= 2 => verdict[r] = "none"
          BY <3>2, <4>2 DEF VerdictFollowsStage
        <5>4. VerdictFollowsStage'
          BY <4>1, <4>2, <5>1, <5>3 DEF VerdictFollowsStage, ControlOK, Prologue
        <5>5. OutcomeFollowsVerdict'
          BY <4>1, <4>2, <5>1 DEF OutcomeFollowsVerdict, ControlOK, Prologue,
             Working
        <5>6. QED
          BY <5>0, <5>2, <5>4, <5>5
      <4>4. CASE ~(stage[r] < 8)
        <5>1. UNCHANGED stage /\ pc' = [pc EXCEPT ![r] = "finishing"]
          BY <4>1, <4>4, TableFacts DEF NextStage, Goto, ControlOK
        <5>2. ControlOK'
          BY <4>1, <5>1 DEF ControlOK, Points
        <5>3. QED
          BY <4>1, <4>2, <5>1, <5>2 DEF ControlOK, MachineFollowsStage,
             VerdictFollowsStage, OutcomeFollowsVerdict, Prologue, Working
      <4>5. QED
        BY <4>3, <4>4
    <3>5. QED
      BY <3>3, <3>4
  <2>9. CASE Finish(r)
    <3>1. \E p \in {Error, Packet(outcome[r], FALSE, FALSE),
                    Packet(outcome[r], TRUE, FALSE)} :
             /\ packet' = [packet EXCEPT ![r] = p]
             /\ \/ pc' = [pc EXCEPT ![r] = "answered"]
                \/ /\ pc' \in {[pc EXCEPT ![r] = "sealing"],
                              [pc EXCEPT ![r] = "anchoring"]}
                   /\ p.kind = "packet"
      BY <2>9, AnswerFacts DEF Finish, Deliver, Goto, ControlOK
    <3>2. PICK p \in {Error, Packet(outcome[r], FALSE, FALSE),
                    Packet(outcome[r], TRUE, FALSE)} :
             /\ packet' = [packet EXCEPT ![r] = p]
             /\ \/ pc' = [pc EXCEPT ![r] = "answered"]
                \/ /\ pc' \in {[pc EXCEPT ![r] = "sealing"],
                              [pc EXCEPT ![r] = "anchoring"]}
                   /\ p.kind = "packet"
      BY <3>1
    <3>3. /\ p \in Answers
          /\ p.kind \in {"error", "packet"}
          /\ p.kind = "packet" => p.outcome = outcome[r]
      <4>1. outcome[r] \in Outcomes
        BY DEF ControlOK
      <4>2. CASE p = Error
        BY <4>2, AnswerFacts
      <4>3. ASSUME NEW s \in BOOLEAN, p = Packet(outcome[r], s, FALSE)
            PROVE  p \in Answers /\ p.kind = "packet" /\ p.outcome = outcome[r]
        BY <4>1, <4>3, AnswerFacts
      <4>4. QED
        BY <4>2, <4>3
    <3>4. UNCHANGED <<sm, stage, verdict, outcome>> /\ pc[r] = "finishing"
      BY <2>9 DEF Finish
    <3>5. QED
      BY <3>2, <3>3, <3>4 DEF ControlOK, MachineFollowsStage,
         VerdictFollowsStage, OutcomeFollowsVerdict, Prologue, Working, Points
  <2>10. CASE Anchor(r)
    <3>1. PICK ok \in BOOLEAN : Deliver(r, [packet[r] EXCEPT !.anchored = ok])
      BY <2>10 DEF Anchor
    <3> DEFINE p == [packet[r] EXCEPT !.anchored = ok]
    <3>2. packet[r] \in Answers /\ packet[r].kind = "packet"
      BY <2>10 DEF Anchor, ControlOK, OutcomeFollowsVerdict
    <3>3. /\ p \in Answers
          /\ p.kind = "packet"
          /\ p.outcome = packet[r].outcome
      BY <3>2, AnchoredFacts
    <3>4. /\ packet' = [packet EXCEPT ![r] = p]
          /\ pc' \in {[pc EXCEPT ![r] = "answered"], [pc EXCEPT ![r] = "sealing"]}
      BY <3>1 DEF Deliver, Goto
    <3>5. UNCHANGED <<sm, stage, verdict, outcome>> /\ pc[r] = "anchoring"
      BY <2>10 DEF Anchor
    <3> HIDE DEF p
    <3>6. QED
      BY <3>2, <3>3, <3>4, <3>5 DEF ControlOK, MachineFollowsStage,
         VerdictFollowsStage, OutcomeFollowsVerdict, Prologue, Working, Points
  <2>11. CASE Seal(r)
    BY <2>11, AnswerFacts DEF Seal, Goto, ControlOK, MachineFollowsStage,
       VerdictFollowsStage, OutcomeFollowsVerdict, Prologue, Working, Points
  <2>12. QED
    BY <1>3, <2>1, <2>2, <2>3, <2>4, <2>5, <2>6, <2>7, <2>8, <2>9, <2>10,
       <2>11 DEF RunStep
<1>4. QED
  BY <1>1, <1>2, <1>3 DEF Next, Approve, Forget, Unquarantine, vars, local
-----------------------------------------------------------------------------
\* The invariant holds in every state of every execution of process_invoice.
THEOREM Invariance == Spec => []IInv
<1>1. QED
  BY InitInvariant, StepInvariant, PTL DEF Spec

\* A step of the machine of one run is one legal transition (state.rs): it
\* advances by one state or stops, and never leaves Done or Halted.
LEMMA MachineStep == IInv /\ [Next]_vars => [Machines!Next]_sm
<1> SUFFICES ASSUME IInv, [Next]_vars, sm' # sm PROVE Machines!Next
  OBVIOUS
<1> USE DEF IInv
<1>1. PICK r \in Runs : RunStep(r)
  BY DEF Next, Begin, Approve, Forget, Unquarantine, vars, local
<1>2. ASSUME AdvanceMachine(r) PROVE Machines!Advance(r)
  <2>1. sm[r] = HappyPath[stage[r]] /\ stage[r] \in 1..8
    BY <1>2, TableFacts DEF AdvanceMachine, ControlOK, MachineFollowsStage
  <2>2. sm[r] \notin Terminal
    BY <2>1, TableFacts
  <2>3. QED
    BY <1>2, <2>2 DEF AdvanceMachine, Machines!Advance
<1>3. ASSUME HaltAndReturn(r) PROVE Machines!Stop(r)
  BY <1>3 DEF HaltAndReturn, Machines!Stop
<1>4. ASSUME CheckBaaar(r) PROVE Machines!Stop(r)
  <2>1. sm' = [sm EXCEPT ![r] = "Halted"] /\ stage[r] = 3 /\ pc[r] = "handoff"
    BY <1>4, TableFacts DEF CheckBaaar, ControlOK, Worker
  <2>2. sm[r] = HappyPath[4]
    BY <2>1 DEF MachineFollowsStage
  <2>3. QED
    BY <2>1, <2>2, TableFacts DEF Machines!Stop
<1>5. QED
  BY <1>1, <1>2, <1>3, <1>4 DEF RunStep, OpenRoom, AnnounceRun, RoomReply,
     MissingAgent, Dispatch, AgentFails, AgentDecides, Finish, Anchor, Seal,
     Machines!Next

\* Every change of a run's state machine is one legal transition, for any
\* number of runs: force_advance_to_done, halt_and_return and the BAAAR halt
\* never move a machine out of a terminal state or over a state.
THEOREM MachinesAreLegal == Spec => MachineIsLegal
<1>1. Init => Machines!Init
  BY DEF Init, Machines!Init
<1>2. QED
  BY <1>1, MachineStep, Invariance, PTL DEF Spec, MachineIsLegal, Machines!Spec
-----------------------------------------------------------------------------
\* What an answer looks like from outside.
LEMMA AnswerKinds ==
    ASSUME NEW p \in Answers
    PROVE  /\ p.kind \in {"none", "error", "packet"}
           /\ p.kind = "packet" => p.outcome \in {"Approve", "Halt"}
<1>1. CASE p \in {NoPacket, Error}
  BY <1>1, AnswerFacts
<1>2. ASSUME NEW o \in Outcomes, NEW s \in BOOLEAN, NEW a \in BOOLEAN,
             p = Packet(o, s, a)
      PROVE  p.kind = "packet" /\ p.outcome \in {"Approve", "Halt"}
  BY <1>2, AnswerFacts DEF Outcomes
<1>3. QED
  BY <1>1, <1>2 DEF Answers

\* A step of one run that leaves the gate's verdict alone either does not
\* answer, or answers with an error, or with the outcome of the verdict.
LEMMA AnswerStep ==
    ASSUME IInv', NEW r \in Runs, pc[r] # "answered",
           pc \in [Runs -> Points], packet \in [Runs -> Answers],
           verdict' = verdict,
           NEW x, pc' = [pc EXCEPT ![r] = x],
           NEW p, packet' = [packet EXCEPT ![r] = p]
    PROVE  [Contract!Next]_<<verdict, Answer>>
<1>1. CASE x # "answered"
  <2>1. Answer' = Answer
    BY <1>1 DEF Answer
  <2>2. QED
    BY <2>1
<1>2. CASE x = "answered"
  <2>1. pc'[r] = "answered" /\ packet'[r] = p /\ p \in Answers
    BY <1>2 DEF IInv, ControlOK
  <2>2. /\ p.kind # "none"
        /\ p.kind = "packet" => (p.outcome = "Halt" <=> verdict[r] = "Halt")
    BY <2>1 DEF IInv, OutcomeFollowsVerdict
  <2>3. Answer' = [Answer EXCEPT ![r] = IF p.kind = "error" THEN "error"
                                        ELSE p.outcome]
    BY <1>2 DEF Answer
  <2>4. Answer[r] = "none"
    BY DEF Answer
  <2>5. CASE p.kind = "error"
    <3>1. Contract!Fail(r)
      BY <2>3, <2>4, <2>5 DEF Contract!Fail
    <3>2. QED
      BY <3>1 DEF Contract!Next
  <2>6. CASE p.kind = "packet"
    <3>1. p.outcome = IF verdict[r] = "Halt" THEN "Halt" ELSE "Approve"
      BY <2>1, <2>2, <2>6, AnswerKinds
    <3>2. Contract!Release(r)
      BY <2>3, <2>4, <2>6, <3>1 DEF Contract!Release
    <3>3. QED
      BY <3>2 DEF Contract!Next
  <2>7. QED
    BY <2>1, <2>2, <2>5, <2>6, AnswerKinds
<1>3. QED
  BY <1>1, <1>2

\* Every step of the pipeline is a step of the contract or none.
LEMMA ContractStep ==
    IInv /\ IInv' /\ [Next]_vars => [Contract!Next]_<<verdict, Answer>>
<1> SUFFICES ASSUME IInv, IInv', [Next]_vars
             PROVE  [Contract!Next]_<<verdict, Answer>>
  OBVIOUS
<1>0. /\ pc \in [Runs -> Points]
      /\ packet \in [Runs -> Answers]
      /\ verdict \in [Runs -> Outcomes \cup {"none"}]
  BY DEF IInv, ControlOK
<1>1. CASE UNCHANGED <<pc, verdict, packet>>
  BY <1>1 DEF Answer
<1>2. ASSUME NEW r \in Runs, Begin(r) \/ RunStep(r), ~AgentDecides(r)
      PROVE  [Contract!Next]_<<verdict, Answer>>
  <2>1. pc[r] # "answered" /\ verdict' = verdict
    BY <1>2 DEF Begin, RunStep, OpenRoom, AnnounceRun, RoomReply,
       AdvanceMachine, MissingAgent, Dispatch, AgentFails, CheckBaaar, Finish,
       Anchor, Seal
  <2>2. \E x : pc' = [pc EXCEPT ![r] = x]
    <3>1. CASE AdvanceMachine(r)
      BY <3>1, <1>0 DEF AdvanceMachine
    <3>2. QED
      BY <1>2, <3>1 DEF Begin, RunStep, OpenRoom, AnnounceRun, RoomReply,
         MissingAgent, Dispatch, AgentFails, CheckBaaar, Finish, Anchor, Seal,
         HaltAndReturn, Deliver, NextStage, Goto
  <2>3. \E p : packet' = [packet EXCEPT ![r] = p]
    <3>1. CASE packet' = packet
      BY <3>1, <1>0
    <3>2. QED
      BY <1>2, <3>1 DEF Begin, RunStep, OpenRoom, AnnounceRun, RoomReply,
         AdvanceMachine, MissingAgent, Dispatch, AgentFails, CheckBaaar,
         Finish, Anchor, Seal, HaltAndReturn, Deliver
  <2>4. QED
    BY <1>0, <2>1, <2>2, <2>3, AnswerStep
<1>3. ASSUME NEW r \in Runs, AgentDecides(r)
      PROVE  [Contract!Next]_<<verdict, Answer>>
  <2>1. /\ pc[r] = "agent"
        /\ pc' = [pc EXCEPT ![r] = "handoff"]
        /\ UNCHANGED packet
    BY <1>3 DEF AgentDecides, Goto
  <2>2. Answer' = Answer /\ Answer[r] = "none"
    BY <1>0, <2>1 DEF Answer
  <2>3. CASE Worker(r) = "fraud_auditor"
    <3>1. verdict[r] = "none"
      BY <2>1, <2>3, TableFacts DEF IInv, ControlOK, VerdictFollowsStage, Worker
    <3>2. Contract!Audit(r)
      BY <1>3, <2>2, <2>3, <3>1 DEF AgentDecides, Outcomes, Contract!Audit
    <3>3. QED
      BY <3>2 DEF Contract!Next
  <2>4. CASE Worker(r) # "fraud_auditor"
    BY <1>3, <2>2, <2>4 DEF AgentDecides
  <2>5. QED
    BY <2>3, <2>4
<1>4. QED
  BY <1>1, <1>2, <1>3 DEF Next, Approve, Forget, Unquarantine, vars, local

\* For any number of concurrent runs, whatever agents fail, are missing or are
\* quarantined, process_invoice answers each run at most once, and a packet's
\* outcome is Halt exactly if the Fraud Auditor's decision trips the gate.
THEOREM PipelineKeepsContract == Spec => KeepsContract
<1>1. Init => Contract!Init
  BY DEF Init, Contract!Init, Answer
<1>2. QED
  BY <1>1, ContractStep, Invariance, PTL DEF Spec, KeepsContract, Contract!Spec
-----------------------------------------------------------------------------
(* What a run has done, and what it leaves behind                          *)

\* The rest of the type invariant.
DataOK ==
    /\ registry \in SUBSET Agents
    /\ count \in [Agents -> 0..RogueThreshold]
    /\ quarantined \in SUBSET Agents
    /\ approvals \in 0..(MaxApprovals + 1)
    /\ machines \in [Tenants \X Invoices -> InvoiceStates \cup {"none"}]
    /\ rekor \in SUBSET Runs
    /\ chain \in [Tenants -> Seq(Runs)]
    /\ request \in [Runs -> Requests \cup {NoRequest}]
    /\ decisions \in [Runs -> Seq(Agents)]
    /\ failed \in [Runs -> BOOLEAN]
    /\ events \in [Runs -> Seq(Events)]

First(n) == SubSeq(Pipeline, 1, n)

\* Where a run is tells who has decided; a halt leaves the first three.
DecisionsFollowStage(r) ==
    /\ pc[r] \in Prologue => decisions[r] = <<>>
    /\ pc[r] \in {"stage", "agent"} => decisions[r] = First(stage[r] - 1)
    /\ pc[r] = "handoff" => decisions[r] = First(stage[r])
    /\ pc[r] \in {"finishing", "anchoring"} => decisions[r] = Pipeline \/ outcome[r] = "Halt"
    /\ verdict[r] = "Halt" => decisions[r] = First(3)

IncidentAt(q) == {i \in 1..Len(q) : q[i].type = "IncidentReported"}

\* The incident is published with the halt, once, and the packet carries the
\* outcome of its run.
IncidentFollowsOutcome(r) ==
    /\ outcome[r] = "Halt" => \E k \in IncidentAt(events[r]) : IncidentAt(events[r]) = {k}
    /\ outcome[r] # "Halt" => IncidentAt(events[r]) = {}
    /\ pc[r] \notin {"anchoring", "sealing", "answered"} => packet[r].kind = "none"
    /\ packet[r].kind = "packet" => packet[r].outcome = outcome[r]

\* The log has only runs past the anchor.
LogTakesFinished(r) ==
    r \in rekor => /\ pc[r] \in {"sealing", "answered"}
                   /\ decisions[r] = Pipeline \/ outcome[r] = "Halt"

\* A run that has begun is for a known tenant, and a sealed answer is in that
\* tenant's chain.
SealedIsChained(r) ==
    /\ pc[r] \notin {"idle", "answered"} \/ packet[r].kind = "packet" => Tenant(r) \in Tenants
    /\ pc[r] = "answered" /\ request[r].sealing /\ packet[r].kind = "packet" =>
          \E i \in 1..Len(chain[Tenant(r)]) : chain[Tenant(r)][i] = r

RunOK(r) ==
    /\ DecisionsFollowStage(r) /\ IncidentFollowsOutcome(r)
    /\ LogTakesFinished(r) /\ SealedIsChained(r)

\* A chain has a run at most once, and only after its answer.
ChainOK ==
    \A t \in Tenants : \A i \in 1..Len(chain[t]) :
        /\ pc[chain[t][i]] = "answered"
        /\ \A j \in 1..Len(chain[t]) : chain[t][i] = chain[t][j] => i = j

DInv == DataOK /\ (\A r \in Runs : RunOK(r)) /\ ChainOK

\* The first agents of the pipeline, one by one.
LEMMA FirstFacts ==
    /\ Pipeline \in Seq(Agents)
    /\ First(0) = <<>> /\ First(8) = Pipeline
    /\ \A n \in 1..8 : /\ Pipeline[n] \in Agents
                       /\ First(n) = Append(First(n - 1), Pipeline[n])
<1>1. Len(Pipeline) = 8 /\ 1..8 = {1, 2, 3, 4, 5, 6, 7, 8}
  BY DEF Pipeline
<1>2. \A n \in 1..8 : Pipeline[n] \in Agents
  <2>1. DOMAIN Pipeline = 1..8
    BY DEF Pipeline
  <2>2. QED
    BY <2>1 DEF Agents
<1>3. Pipeline \in Seq(Agents)
  <2>1. Pipeline = [n \in 1..8 |-> Pipeline[n]]
    BY DEF Pipeline
  <2> DEFINE m == 8
  <2>2. m \in Nat /\ Pipeline \in [1..m -> Agents]
    BY <1>2, <2>1
  <2> HIDE DEF m
  <2>3. QED
    BY <2>2
<1>4. First(0) = <<>>
  BY <1>3 DEF First
<1>5. First(8) = Pipeline
  BY <1>1, <1>3 DEF First
<1>6. ASSUME NEW n \in 1..8 PROVE First(n) = Append(First(n - 1), Pipeline[n])
  <2>1. n - 1 \in 0..7
    OBVIOUS
  <2>2. /\ First(n) \in Seq(Agents) /\ Len(First(n)) = n
        /\ \A i \in 1..n : First(n)[i] = Pipeline[i]
    <3>1. \A i \in 1..n : Pipeline[i] \in Agents
      BY <1>2
    <3>2. QED
      BY <3>1, SubSeqProperties DEF First
  <2>3. /\ First(n - 1) \in Seq(Agents) /\ Len(First(n - 1)) = n - 1
        /\ \A i \in 1..n - 1 : First(n - 1)[i] = Pipeline[i]
    <3>1. \A i \in 1..n - 1 : Pipeline[i] \in Agents
      BY <1>2
    <3>2. QED
      BY <2>1, <3>1, SubSeqProperties DEF First
  <2> DEFINE q == Append(First(n - 1), Pipeline[n])
  <2>4. /\ q \in Seq(Agents) /\ Len(q) = n /\ q[n] = Pipeline[n]
        /\ \A i \in 1..n - 1 : q[i] = Pipeline[i]
    BY <1>2, <2>1, <2>3, AppendProperties
  <2> HIDE DEF q
  <2>5. \A i \in 1..n : q[i] = First(n)[i]
    BY <2>2, <2>4
  <2>6. q = First(n)
    BY <2>2, <2>4, <2>5
  <2>7. QED
    BY <2>6 DEF q
<1>7. QED
  BY <1>2, <1>3, <1>4, <1>5, <1>6

\* Events that report no incident leave the incidents as they were.
LEMMA OtherEvents ==
    ASSUME NEW q \in Seq(Events), NEW w \in Seq(Events),
           \A i \in 1..Len(w) : w[i].type # "IncidentReported"
    PROVE  q \o w \in Seq(Events) /\ IncidentAt(q \o w) = IncidentAt(q)
<1>1. /\ q \o w \in Seq(Events) /\ Len(q \o w) = Len(q) + Len(w)
      /\ \A i \in 1..Len(q) + Len(w) :
            (q \o w)[i] = IF i <= Len(q) THEN q[i] ELSE w[i - Len(q)]
      /\ Len(q) \in Nat /\ Len(w) \in Nat
  BY ConcatProperties, LenProperties
<1> DEFINE z == q \o w
<1> HIDE DEF z
<1>2. ASSUME NEW i PROVE i \in IncidentAt(z) <=> i \in IncidentAt(q)
  <2>1. ASSUME i \in IncidentAt(q) PROVE i \in IncidentAt(z)
    BY <1>1, <2>1 DEF IncidentAt, z
  <2>2. ASSUME i \in IncidentAt(z) PROVE i \in IncidentAt(q)
    <3>1. /\ i \in 1..Len(q) + Len(w) /\ z[i].type = "IncidentReported"
          /\ z[i] = IF i <= Len(q) THEN q[i] ELSE w[i - Len(q)]
      BY <1>1, <2>2 DEF IncidentAt, z
    <3>2. i <= Len(q)
      <4> SUFFICES ASSUME ~(i <= Len(q)) PROVE FALSE
        OBVIOUS
      <4>1. i - Len(q) \in 1..Len(w)
        BY <1>1, <3>1
      <4>2. QED
        BY <3>1, <4>1
    <3>3. QED
      BY <1>1, <3>1, <3>2 DEF IncidentAt
  <2>3. QED
    BY <2>1, <2>2
<1>3. IncidentAt(z) = IncidentAt(q)
  BY <1>2
<1>4. QED
  BY <1>1, <1>3 DEF z

\* An incident and one more event add one incident.
LEMMA HaltEvents ==
    ASSUME NEW q \in Seq(Events), IncidentAt(q) = {}, NEW a \in Agents
    PROVE  LET z == q \o <<Event("IncidentReported", a, "nobody"), Event("BaaarHalt", a, "nobody")>> IN
           z \in Seq(Events) /\ \E k \in IncidentAt(z) : IncidentAt(z) = {k}
<1> DEFINE e == Event("IncidentReported", a, "nobody")
           h == Event("BaaarHalt", a, "nobody")
           w == <<e, h>>
           z == q \o w
<1>1. e \in Events /\ h \in Events /\ e.type = "IncidentReported" /\ h.type = "BaaarHalt"
  BY DEF Event, Events
<1> HIDE DEF e, h
<1>2. w \in Seq(Events) /\ Len(w) = 2 /\ w[1] = e /\ w[2] = h
  BY <1>1
<1> HIDE DEF w
<1>3. /\ z \in Seq(Events) /\ Len(z) = Len(q) + 2
      /\ \A i \in 1..Len(q) + 2 : z[i] = IF i <= Len(q) THEN q[i] ELSE w[i - Len(q)]
      /\ Len(q) \in Nat
  <2>1. w \in Seq(Events)
    BY <1>2
  <2>2. /\ z \in Seq(Events) /\ Len(z) = Len(q) + Len(w)
        /\ \A i \in 1..Len(q) + Len(w) : z[i] = IF i <= Len(q) THEN q[i] ELSE w[i - Len(q)]
        /\ Len(q) \in Nat
    BY ONLY <2>1, q \in Seq(Events), ConcatProperties, LenProperties
  <2> HIDE DEF z
  <2>3. QED
    BY <1>2, <2>2
<1> HIDE DEF z
<1> DEFINE k == Len(q) + 1
<1>4. k \in 1..Len(q) + 2 /\ z[k] = e
  BY <1>2, <1>3
<1>5. ASSUME NEW i \in 1..Len(q) + 2, i # k PROVE z[i].type # "IncidentReported"
  <2>1. i \in 1..Len(q) \/ i = Len(q) + 2
    BY <1>3, <1>5
  <2>2. CASE i \in 1..Len(q)
    BY <1>3, <2>2 DEF IncidentAt
  <2>3. CASE i = Len(q) + 2
    <3>1. z[i] = w[2]
      BY <1>3, <2>3
    <3>2. QED
      BY <1>1, <1>2, <3>1
  <2>4. QED
    BY <2>1, <2>2, <2>3
<1>6. IncidentAt(z) = {k}
  BY <1>1, <1>3, <1>4, <1>5 DEF IncidentAt
<1>7. z \in Seq(Events) /\ \E x \in IncidentAt(z) : IncidentAt(z) = {x}
  BY <1>3, <1>6
<1>8. QED
  BY <1>7 DEF z, w, e, h

\* Nothing has been decided, published, logged or chained at the start.
LEMMA InitData == Init => DInv
<1> SUFFICES ASSUME Init PROVE DInv
  OBVIOUS
<1>1. DataOK
  <2>1. count \in [Agents -> 0..RogueThreshold] /\ approvals \in 0..(MaxApprovals + 1)
    BY RogueAssumption, ApprovalsAssumption DEF Init
  <2>2. registry \in SUBSET Agents
    BY RegistriesAssumption DEF Init
  <2>3. failed \in [Runs -> BOOLEAN]
    BY DEF Init
  <2>4. /\ machines \in [Tenants \X Invoices -> InvoiceStates \cup {"none"}]
        /\ rekor \in SUBSET Runs /\ quarantined \in SUBSET Agents
        /\ request \in [Runs -> Requests \cup {NoRequest}]
    BY DEF Init
  <2>5. /\ chain \in [Tenants -> Seq(Runs)]
        /\ decisions \in [Runs -> Seq(Agents)] /\ events \in [Runs -> Seq(Events)]
    BY DEF Init
  <2>6. QED
    BY <2>1, <2>2, <2>3, <2>4, <2>5 DEF DataOK
<1>2. ASSUME NEW r \in Runs PROVE RunOK(r)
  <2>1. /\ pc[r] = "idle" /\ decisions[r] = <<>> /\ verdict[r] = "none" /\ packet[r] = NoPacket
        /\ outcome[r] = "Approve" /\ events[r] = <<>> /\ r \notin rekor
    BY DEF Init
  <2>2. IncidentAt(events[r]) = {}
    BY <2>1 DEF IncidentAt
  <2>3. packet[r].kind = "none"
    BY <2>1, AnswerFacts
  <2>4. QED
    BY <2>1, <2>2, <2>3 DEF RunOK, DecisionsFollowStage, IncidentFollowsOutcome, LogTakesFinished,
       SealedIsChained, Prologue
<1>3. ChainOK
  BY DEF Init, ChainOK
<1>4. QED
  BY <1>1, <1>2, <1>3 DEF DInv

\* A step of one run leaves the others as they are.
LEMMA OthersUntouched ==
    ASSUME IInv, DataOK, NEW r \in Runs, Begin(r) \/ RunStep(r), NEW d \in Runs, d # r
    PROVE  /\ pc'[d] = pc[d] /\ packet'[d] = packet[d] /\ request'[d] = request[d]
           /\ stage'[d] = stage[d] /\ decisions'[d] = decisions[d]
           /\ verdict'[d] = verdict[d] /\ outcome'[d] = outcome[d] /\ events'[d] = events[d]
           /\ d \in rekor' => d \in rekor
<1> USE DEF IInv, ControlOK, DataOK, Begin, RunStep, OpenRoom, AnnounceRun, RoomReply,
        AdvanceMachine, MissingAgent, Dispatch, AgentFails, AgentDecides, CheckBaaar, Finish,
        Anchor, Seal, shared, stores, defense
<1>1. pc'[d] = pc[d]
  BY ZenonT(60) DEF HaltAndReturn, Deliver, Goto, NextStage
<1>2. packet'[d] = packet[d]
  <2>1. CASE Anchor(r)
    <3>1. \E x : packet' = [packet EXCEPT ![r] = x]
      BY ONLY <2>1 DEF Anchor, Deliver
    <3>2. QED
      BY <3>1
  <2>2. CASE ~Anchor(r)
    BY <2>2, ZenonT(60) DEF HaltAndReturn, Deliver
  <2>3. QED
    BY <2>1, <2>2
<1>3. request'[d] = request[d]
  OBVIOUS
<1>4. stage'[d] = stage[d]
  BY DEF NextStage
<1>5. decisions'[d] = decisions[d]
  OBVIOUS
<1>6. verdict'[d] = verdict[d]
  BY ZenonT(60)
<1>7. outcome'[d] = outcome[d]
  BY ZenonT(60) DEF HaltAndReturn
<1>8. events'[d] = events[d]
  BY DEF Publish
<1>9. d \in rekor' => d \in rekor
  OBVIOUS
<1>10. QED
  BY <1>1, <1>2, <1>3, <1>4, <1>5, <1>6, <1>7, <1>8, <1>9, SMTT(60)

\* Only sealing extends a chain.
LEMMA OnlySealChains ==
    ASSUME NEW r \in Runs, Begin(r) \/ RunStep(r)
    PROVE  \/ chain' = chain
           \/ Seal(r) /\ chain' = [chain EXCEPT ![Tenant(r)] = Append(@, r)]
BY DEF Begin, RunStep, OpenRoom, AnnounceRun, RoomReply, AdvanceMachine, MissingAgent, Dispatch,
       AgentFails, AgentDecides, CheckBaaar, Finish, Anchor, Seal, shared, stores

\* What is in a chain stays there.
LEMMA ChainedStays ==
    ASSUME IInv, DInv, NEW r \in Runs, Begin(r) \/ RunStep(r), NEW t \in Tenants, NEW d \in Runs,
           \E i \in 1..Len(chain[t]) : chain[t][i] = d
    PROVE  \E i \in 1..Len(chain'[t]) : chain'[t][i] = d
<1>0. chain \in [Tenants -> Seq(Runs)] /\ chain[t] \in Seq(Runs)
  BY DEF DInv, DataOK
<1>1. chain'[t] = chain[t] \/ chain'[t] = Append(chain[t], r)
  BY <1>0, OnlySealChains, SMTT(60)
<1>2. CASE chain'[t] = Append(chain[t], r)
  <2>1. PICK i \in 1..Len(chain[t]) : chain[t][i] = d
    OBVIOUS
  <2>2. /\ Len(chain'[t]) = Len(chain[t]) + 1 /\ Len(chain[t]) \in Nat
        /\ chain'[t][i] = chain[t][i]
    BY <1>0, <1>2, AppendProperties, LenProperties
  <2>3. i \in 1..Len(chain'[t])
    BY <2>2
  <2>4. QED
    BY <2>1, <2>2, <2>3
<1>3. QED
  BY <1>1, <1>2

\* A run that does not act keeps what is known of it.
LEMMA OthersKeep ==
    ASSUME IInv, DInv, NEW r \in Runs, Begin(r) \/ RunStep(r), NEW d \in Runs, d # r
    PROVE  RunOK(d)'
<1>1. /\ pc'[d] = pc[d] /\ packet'[d] = packet[d] /\ request'[d] = request[d]
      /\ stage'[d] = stage[d] /\ decisions'[d] = decisions[d]
      /\ verdict'[d] = verdict[d] /\ outcome'[d] = outcome[d] /\ events'[d] = events[d]
      /\ d \in rekor' => d \in rekor
  BY OthersUntouched DEF DInv
<1>2. RunOK(d)
  BY DEF DInv
<1>3. DecisionsFollowStage(d)' /\ IncidentFollowsOutcome(d)' /\ LogTakesFinished(d)'
  BY <1>1, <1>2 DEF RunOK, DecisionsFollowStage, IncidentFollowsOutcome, LogTakesFinished
<1>4. SealedIsChained(d)'
  <2>1. Tenant(d)' = Tenant(d)
    BY <1>1 DEF Tenant
  <2>2. SealedIsChained(d)
    BY <1>2 DEF RunOK
  <2>3. ASSUME Tenant(d) \in Tenants, \E i \in 1..Len(chain[Tenant(d)]) : chain[Tenant(d)][i] = d
        PROVE  \E i \in 1..Len(chain'[Tenant(d)]) : chain'[Tenant(d)][i] = d
    BY <2>3, ChainedStays
  <2>4. QED
    BY <1>1, <2>1, <2>2, <2>3 DEF SealedIsChained
<1>5. QED
  BY <1>3, <1>4 DEF RunOK

\* halt_and_return leaves the decisions and events of its run, and its packet
\* approves.
LEMMA HaltAndReturnLeaves ==
    ASSUME IInv, IInv', DInv, NEW r \in Runs, pc[r] \in {"stage", "agent"}, HaltAndReturn(r),
           UNCHANGED <<rekor, chain, request, stage, decisions, verdict, events>>
    PROVE  RunOK(r)'
<1>1. PICK p \in {Error, Packet("Approve", TRUE, FALSE)} :
         /\ packet' = [packet EXCEPT ![r] = p]
         /\ pc' = [pc EXCEPT ![r] = IF request[r].sealing /\ p.kind = "packet"
                                    THEN "sealing" ELSE "answered"]
  BY DEF HaltAndReturn, Deliver, Goto
<1>2. outcome[r] = "Approve" /\ verdict[r] # "Halt"
  BY DEF IInv, OutcomeFollowsVerdict, VerdictFollowsStage, Working
<1>3. outcome'[r] = "Approve"
  BY <1>2 DEF HaltAndReturn, IInv, ControlOK
<1>4. p.kind \in {"error", "packet"} /\ (p.kind = "packet" => p.outcome = "Approve")
  BY AnswerFacts DEF Outcomes
<1>5. /\ packet'[r] = p
      /\ pc'[r] = IF request[r].sealing /\ p.kind = "packet" THEN "sealing" ELSE "answered"
  BY <1>1 DEF IInv, ControlOK
<1>6. RunOK(r)
  BY DEF DInv
<1>7. r \notin rekor
  BY <1>6 DEF RunOK, LogTakesFinished
<1>8. DecisionsFollowStage(r)'
  BY <1>2, <1>5 DEF DecisionsFollowStage, Prologue
<1>9. IncidentFollowsOutcome(r)'
  BY <1>2, <1>3, <1>4, <1>5, <1>6 DEF RunOK, IncidentFollowsOutcome
<1>10. LogTakesFinished(r)'
  BY <1>7 DEF LogTakesFinished
<1>11. SealedIsChained(r)'
  <2>1. Tenant(r)' = Tenant(r) /\ Tenant(r) \in Tenants
    BY <1>6 DEF Tenant, RunOK, SealedIsChained
  <2>2. ~(pc'[r] = "answered" /\ request'[r].sealing /\ packet'[r].kind = "packet")
    BY <1>5
  <2>3. QED
    BY <2>1, <2>2 DEF SealedIsChained
<1>12. QED
  BY <1>8, <1>9, <1>10, <1>11 DEF RunOK

\* The steps before the first stage, and the machine's, change nothing a run
\* leaves behind.
LEMMA PrologueKeeps ==
    ASSUME IInv, IInv', DInv, NEW r \in Runs, Begin(r) \/ OpenRoom(r) \/ AnnounceRun(r) \/ AdvanceMachine(r)
    PROVE  RunOK(r)'
<1>0. /\ pc \in [Runs -> Points] /\ packet \in [Runs -> Answers]
      /\ request \in [Runs -> Requests \cup {NoRequest}] /\ RunOK(r)
  BY DEF IInv, ControlOK, DInv, DataOK
<1>1. UNCHANGED <<rekor, chain, stage, decisions, verdict, outcome, events>>
  BY DEF Begin, OpenRoom, AnnounceRun, RoomReply, AdvanceMachine, shared
<1>2. \/ UNCHANGED <<pc, packet, request>>
      \/ /\ pc[r] \in Prologue
         /\ \/ packet'[r] = packet[r] /\ pc'[r] \in {"opening", "announcing", "stage"}
               /\ (pc'[r] = "stage" <=> pc[r] = "announcing")
               /\ Tenant(r)' \in Tenants
            \/ packet'[r].kind = "error" /\ pc'[r] = "answered"
  <2>1. CASE AdvanceMachine(r)
    BY <2>1 DEF AdvanceMachine
  <2>2. CASE Begin(r)
    BY <1>0, <2>2, AnswerFacts DEF Begin, Goto, Prologue, Tenant
  <2>3. CASE OpenRoom(r) \/ AnnounceRun(r)
    <3>1. pc[r] \in {"opening", "announcing"} /\ UNCHANGED request
      BY <2>3 DEF OpenRoom, AnnounceRun, RoomReply
    <3>2. Tenant(r)' \in Tenants
      BY <1>0, <3>1 DEF Tenant, RunOK, SealedIsChained
    <3>3. QED
      BY <1>0, <2>3, <3>2, AnswerFacts DEF OpenRoom, AnnounceRun, RoomReply, Goto, Prologue
  <2>4. QED
    BY <2>1, <2>2, <2>3
<1>3. CASE UNCHANGED <<pc, packet, request>>
  <2>1. DecisionsFollowStage(r)' /\ IncidentFollowsOutcome(r)' /\ LogTakesFinished(r)'
    BY <1>0, <1>1, <1>3 DEF RunOK, DecisionsFollowStage, IncidentFollowsOutcome, LogTakesFinished
  <2>2. SealedIsChained(r)'
    BY <1>0, <1>1, <1>3 DEF RunOK, SealedIsChained, Tenant
  <2>3. QED
    BY <2>1, <2>2 DEF RunOK
<1>4. CASE /\ pc[r] \in Prologue
           /\ \/ packet'[r] = packet[r] /\ pc'[r] \in {"opening", "announcing", "stage"}
                 /\ (pc'[r] = "stage" <=> pc[r] = "announcing")
                 /\ Tenant(r)' \in Tenants
              \/ packet'[r].kind = "error" /\ pc'[r] = "answered"
  <2>1. /\ decisions[r] = <<>> /\ verdict[r] = "none" /\ stage[r] = 1 /\ r \notin rekor
        /\ packet[r].kind = "none"
    BY <1>0, <1>4 DEF RunOK, DecisionsFollowStage, IncidentFollowsOutcome, LogTakesFinished, IInv,
       VerdictFollowsStage, MachineFollowsStage, Prologue
  <2>2. DecisionsFollowStage(r)'
    BY <1>1, <1>4, <2>1, FirstFacts, SMTT(60) DEF DecisionsFollowStage, Prologue
  <2>3. IncidentFollowsOutcome(r)' /\ LogTakesFinished(r)'
    BY <1>0, <1>1, <1>4, <2>1 DEF RunOK, IncidentFollowsOutcome, LogTakesFinished
  <2>4. SealedIsChained(r)'
    BY <1>4, <2>1 DEF SealedIsChained
  <2>5. QED
    BY <2>2, <2>3, <2>4 DEF RunOK
<1>5. QED
  BY <1>2, <1>3, <1>4

\* The events of an agent's turn are no incidents.
LEMMA TurnEvents ==
    ASSUME NEW a \in Agents
    PROVE  LET h == IF NextMention(a) = "nobody" THEN <<>>
                    ELSE <<Event("AgentHandoff", a, NextMention(a))>>
               w == <<Event("ProviderActive", a, "nobody")>> \o h IN
           w \in Seq(Events) /\ \A i \in 1..Len(w) : w[i].type # "IncidentReported"
<1> DEFINE e == Event("ProviderActive", a, "nobody")
           f == Event("AgentHandoff", a, NextMention(a))
           h == IF NextMention(a) = "nobody" THEN <<>> ELSE <<f>>
           w == <<e>> \o h
<1>1. NextMention(a) \in Agents \cup {"nobody"}
  <2>1. "fraud_auditor" = Pipeline[3] /\ "gaap_classifier" = Pipeline[4]
        /\ "provenance_signer" = Pipeline[5] /\ "audit_watchdog" = Pipeline[8]
        /\ "demo_narrator" = Pipeline[6]
    BY DEF Pipeline
  <2>2. {"fraud_auditor", "gaap_classifier", "provenance_signer", "audit_watchdog",
         "demo_narrator"} \subseteq Agents
    <3>1. /\ Pipeline[3] \in Agents /\ Pipeline[4] \in Agents /\ Pipeline[5] \in Agents
          /\ Pipeline[6] \in Agents /\ Pipeline[8] \in Agents
      BY FirstFacts
    <3>2. QED
      BY <2>1, <3>1
  <2>3. QED
    BY <2>2 DEF NextMention
<1>2. e \in Events /\ e.type = "ProviderActive"
  BY DEF Event, Events
<1>3. NextMention(a) # "nobody" => f \in Events /\ f.type = "AgentHandoff"
  BY <1>1 DEF Event, Events
<1> HIDE DEF e, f
<1>4. h \in Seq(Events) /\ Len(h) \in {0, 1} /\ \A i \in 1..Len(h) : h[i] = f /\ NextMention(a) # "nobody"
  <2>1. CASE NextMention(a) = "nobody"
    <3>1. h = <<>>
      BY <2>1
    <3>2. QED
      BY <3>1
  <2>2. CASE NextMention(a) # "nobody"
    <3>1. h = <<f>> /\ f \in Events
      BY <1>3, <2>2
    <3>2. QED
      BY <2>2, <3>1
  <2>3. QED
    BY <2>1, <2>2
<1> HIDE DEF h
<1>5. /\ w \in Seq(Events) /\ Len(w) = 1 + Len(h)
      /\ \A i \in 1..1 + Len(h) : w[i] = IF i <= 1 THEN e ELSE h[i - 1]
  <2>1. <<e>> \in Seq(Events) /\ Len(<<e>>) = 1 /\ <<e>>[1] = e
    BY <1>2
  <2> DEFINE o == <<e>>
  <2> HIDE DEF o
  <2>2. o \in Seq(Events) /\ Len(o) = 1 /\ o[1] = e
    BY <2>1 DEF o
  <2>3. /\ o \o h \in Seq(Events) /\ Len(o \o h) = Len(o) + Len(h)
        /\ \A i \in 1..Len(o) + Len(h) : (o \o h)[i] = IF i <= Len(o) THEN o[i] ELSE h[i - Len(o)]
    BY <1>4, <2>2, ConcatProperties, ZenonT(60)
  <2>4. ASSUME NEW i \in 1..1 + Len(h) PROVE (o \o h)[i] = IF i <= 1 THEN e ELSE h[i - 1]
    <3>1. i = 1 \/ i > 1
      BY <1>4
    <3>2. CASE i = 1
      BY <2>2, <2>3, <3>2
    <3>3. CASE i > 1
      BY <2>2, <2>3, <3>3
    <3>4. QED
      BY <3>1, <3>2, <3>3
  <2>5. QED
    BY <2>2, <2>3, <2>4 DEF o
<1> HIDE DEF w
<1>6. ASSUME NEW i \in 1..Len(w) PROVE w[i].type # "IncidentReported"
  <2>1. CASE i = 1
    BY <1>2, <1>4, <1>5, <2>1
  <2>2. CASE i # 1
    <3>1. i - 1 \in 1..Len(h) /\ w[i] = h[i - 1]
      BY <1>4, <1>5, <2>2
    <3>2. QED
      BY <1>3, <1>4, <3>1
  <2>3. QED
    BY <2>1, <2>2
<1>7. w \in Seq(Events) /\ \A i \in 1..Len(w) : w[i].type # "IncidentReported"
  BY <1>5, <1>6
<1>8. QED
  BY <1>7 DEF w, h, e, f

\* An agent that decides joins the decisions, in its turn.
LEMMA DecidingKeeps ==
    ASSUME IInv, IInv', DInv, NEW r \in Runs, AgentDecides(r)
    PROVE  RunOK(r)' /\ decisions' \in [Runs -> Seq(Agents)] /\ events' \in [Runs -> Seq(Events)]
<1>0. /\ pc \in [Runs -> Points] /\ stage \in [Runs -> 1..8] /\ events \in [Runs -> Seq(Events)]
      /\ decisions \in [Runs -> Seq(Agents)] /\ verdict \in [Runs -> Outcomes \cup {"none"}]
      /\ RunOK(r) /\ stage[r] \in 1..8
  BY DEF IInv, ControlOK, DInv, DataOK
<1> DEFINE a == Worker(r)
           w == <<Event("ProviderActive", a, "nobody")>> \o Handoff(r)
<1>1. /\ pc[r] = "agent" /\ pc' = [pc EXCEPT ![r] = "handoff"]
      /\ decisions' = [decisions EXCEPT ![r] = Append(decisions[r], a)]
      /\ events' = [events EXCEPT ![r] = events[r] \o w]
      /\ UNCHANGED <<rekor, chain, request, stage, outcome, packet>>
  BY DEF AgentDecides, Goto, Publish, shared
<1>2. a \in Agents /\ First(stage[r]) = Append(First(stage[r] - 1), a)
  BY <1>0, FirstFacts DEF Worker
<1>3. w \in Seq(Events) /\ \A i \in 1..Len(w) : w[i].type # "IncidentReported"
  BY <1>2, TurnEvents DEF Handoff
<1> HIDE DEF w, a
<1>4. events[r] \o w \in Seq(Events) /\ IncidentAt(events[r] \o w) = IncidentAt(events[r])
  BY <1>0, <1>3, OtherEvents
<1>5. /\ decisions'[r] = First(stage[r]) /\ decisions' \in [Runs -> Seq(Agents)]
      /\ events'[r] = events[r] \o w /\ events' \in [Runs -> Seq(Events)]
      /\ pc'[r] = "handoff"
  <2>1. decisions[r] = First(stage[r] - 1)
    BY <1>0, <1>1 DEF RunOK, DecisionsFollowStage
  <2>2. Append(decisions[r], a) \in Seq(Agents)
    BY <1>0, <1>2, AppendProperties
  <2>3. QED
    BY <1>0, <1>1, <1>2, <1>4, <2>1, <2>2
<1>6. DecisionsFollowStage(r)'
  <2>1. verdict'[r] = "Halt" => stage'[r] = 3
    BY <1>5 DEF IInv, VerdictFollowsStage
  <2>2. QED
    BY <1>1, <1>5, <2>1 DEF DecisionsFollowStage, Prologue
<1>7. IncidentFollowsOutcome(r)'
  BY <1>0, <1>1, <1>4, <1>5 DEF RunOK, IncidentFollowsOutcome
<1>8. LogTakesFinished(r)'
  BY <1>0, <1>1 DEF RunOK, LogTakesFinished
<1>9. SealedIsChained(r)'
  BY <1>0, <1>1, <1>5 DEF RunOK, SealedIsChained, Tenant
<1>10. QED
  BY <1>5, <1>6, <1>7, <1>8, <1>9 DEF RunOK

\* The gate breaks out of the loop with one incident, or the loop goes on.
LEMMA CheckingKeeps ==
    ASSUME IInv, IInv', DInv, NEW r \in Runs, CheckBaaar(r)
    PROVE  RunOK(r)' /\ events' \in [Runs -> Seq(Events)]
<1>0. /\ pc \in [Runs -> Points] /\ stage \in [Runs -> 1..8] /\ events \in [Runs -> Seq(Events)]
      /\ outcome \in [Runs -> Outcomes] /\ RunOK(r) /\ stage[r] \in 1..8
  BY DEF IInv, ControlOK, DInv, DataOK
<1>1. /\ pc[r] = "handoff" /\ UNCHANGED <<rekor, chain, request, decisions, verdict, packet>>
      /\ outcome[r] = "Approve" /\ decisions[r] = First(stage[r]) /\ packet[r].kind = "none"
      /\ IncidentAt(events[r]) = {} /\ r \notin rekor /\ Tenant(r) \in Tenants
  BY <1>0 DEF CheckBaaar, shared, IInv, OutcomeFollowsVerdict, Working, RunOK, DecisionsFollowStage,
     IncidentFollowsOutcome, LogTakesFinished, SealedIsChained
<1>2. Worker(r) = "fraud_auditor" <=> stage[r] = 3
  BY <1>0, TableFacts DEF Worker
<1>3. Worker(r) \in Agents
  BY <1>0, FirstFacts DEF Worker
<1>4. LogTakesFinished(r)' /\ SealedIsChained(r)'
  BY <1>1 DEF LogTakesFinished, SealedIsChained, Tenant
<1>5. CASE stage[r] = 3 /\ verdict[r] = "Halt"
  <2> DEFINE z == events[r] \o <<Event("IncidentReported", Worker(r), "nobody"),
                                 Event("BaaarHalt", Worker(r), "nobody")>>
  <2>1. /\ outcome' = [outcome EXCEPT ![r] = "Halt"] /\ pc' = [pc EXCEPT ![r] = "finishing"]
        /\ stage' = stage /\ events' = [events EXCEPT ![r] = z]
    BY <1>2, <1>5 DEF CheckBaaar, Goto, Publish
  <2>2. z \in Seq(Events) /\ \E k \in IncidentAt(z) : IncidentAt(z) = {k}
    BY <1>0, <1>1, <1>3, HaltEvents
  <2> HIDE DEF z
  <2>3. /\ outcome'[r] = "Halt" /\ pc'[r] = "finishing" /\ events'[r] = z
        /\ events' \in [Runs -> Seq(Events)]
    BY <1>0, <2>1, <2>2
  <2>4. DecisionsFollowStage(r)'
    BY <1>1, <1>5, <2>3 DEF DecisionsFollowStage, Prologue
  <2>5. IncidentFollowsOutcome(r)'
    BY <1>1, <2>2, <2>3 DEF IncidentFollowsOutcome
  <2>6. QED
    BY <1>4, <2>3, <2>4, <2>5 DEF RunOK
<1>6. CASE ~(stage[r] = 3 /\ verdict[r] = "Halt")
  <2>1. NextStage(r) /\ UNCHANGED <<outcome, events>> /\ verdict[r] # "Halt"
    BY <1>1, <1>2, <1>6 DEF CheckBaaar, IInv, VerdictFollowsStage
  <2>2. \/ stage[r] < 8 /\ stage'[r] = stage[r] + 1 /\ pc'[r] = "stage"
        \/ stage[r] = 8 /\ pc'[r] = "finishing"
    BY <1>0, <2>1, TableFacts DEF NextStage, Goto
  <2>3. DecisionsFollowStage(r)'
    <3>1. CASE stage[r] < 8 /\ stage'[r] = stage[r] + 1 /\ pc'[r] = "stage"
      <4>1. stage'[r] - 1 = stage[r]
        BY <1>0, <3>1
      <4>2. decisions'[r] = First(stage'[r] - 1)
        BY <1>1, <4>1
      <4>3. QED
        BY <1>1, <2>1, <3>1, <4>2 DEF DecisionsFollowStage, Prologue
    <3>2. CASE stage[r] = 8 /\ pc'[r] = "finishing"
      <4>1. decisions'[r] = Pipeline
        BY <1>1, <3>2, FirstFacts
      <4>2. QED
        BY <1>1, <2>1, <3>2, <4>1 DEF DecisionsFollowStage, Prologue
    <3>3. QED
      BY <2>2, <3>1, <3>2
  <2>4. IncidentFollowsOutcome(r)'
    BY <1>0, <1>1, <2>1, <2>2 DEF RunOK, IncidentFollowsOutcome
  <2>5. QED
    BY <1>0, <1>4, <2>1, <2>3, <2>4 DEF RunOK
<1>7. QED
  BY <1>5, <1>6

\* The end of the loop: the packet carries the outcome of its run.
LEMMA FinishingKeeps ==
    ASSUME IInv, IInv', DInv, NEW r \in Runs, Finish(r)
    PROVE  RunOK(r)'
<1>0. pc \in [Runs -> Points] /\ packet \in [Runs -> Answers] /\ outcome[r] \in Outcomes /\ RunOK(r)
  BY DEF IInv, ControlOK, DInv
<1>1. /\ pc[r] = "finishing"
      /\ UNCHANGED <<rekor, chain, request, stage, decisions, verdict, outcome, events>>
  BY DEF Finish, shared
<1>2. PICK p \in {Error, Packet(outcome[r], FALSE, FALSE), Packet(outcome[r], TRUE, FALSE)} :
         /\ packet' = [packet EXCEPT ![r] = p]
         /\ \/ pc' = [pc EXCEPT ![r] = "anchoring"]
            \/ pc' = [pc EXCEPT ![r] = IF request[r].sealing /\ p.kind = "packet"
                                       THEN "sealing" ELSE "answered"]
  BY DEF Finish, Deliver, Goto
<1>3. p.kind \in {"error", "packet"} /\ (p.kind = "packet" => p.outcome = outcome[r])
  <2>1. CASE p = Error
    BY <2>1, AnswerFacts
  <2>2. ASSUME NEW s \in BOOLEAN, p = Packet(outcome[r], s, FALSE)
        PROVE  p.kind = "packet" /\ p.outcome = outcome[r]
    BY <1>0, <2>2, AnswerFacts, ZenonT(60)
  <2>3. QED
    BY <2>1, <2>2
<1>4. /\ packet'[r] = p
      /\ \/ pc'[r] = "anchoring"
         \/ pc'[r] = IF request[r].sealing /\ p.kind = "packet" THEN "sealing" ELSE "answered"
  BY <1>0, <1>2
<1>5. /\ Tenant(r) \in Tenants /\ r \notin rekor /\ Tenant(r)' = Tenant(r)
      /\ decisions[r] = Pipeline \/ outcome[r] = "Halt"
  BY <1>0, <1>1 DEF RunOK, SealedIsChained, LogTakesFinished, DecisionsFollowStage, Tenant
<1>6. DecisionsFollowStage(r)'
  BY <1>0, <1>1, <1>4, <1>5 DEF RunOK, DecisionsFollowStage, Prologue
<1>7. IncidentFollowsOutcome(r)'
  BY <1>0, <1>1, <1>3, <1>4 DEF RunOK, IncidentFollowsOutcome
<1>8. LogTakesFinished(r)' /\ SealedIsChained(r)'
  BY <1>0, <1>1, <1>4, <1>5 DEF RunOK, LogTakesFinished, SealedIsChained
<1>9. QED
  BY <1>6, <1>7, <1>8 DEF RunOK

\* The anchor: a run the log takes went to the end.
LEMMA AnchoringKeeps ==
    ASSUME IInv, IInv', DInv, NEW r \in Runs, Anchor(r)
    PROVE  RunOK(r)' /\ events' \in [Runs -> Seq(Events)]
<1>0. /\ pc \in [Runs -> Points] /\ packet \in [Runs -> Answers] /\ RunOK(r)
      /\ events \in [Runs -> Seq(Events)] /\ events[r] \in Seq(Events)
  BY DEF IInv, ControlOK, DInv, DataOK
<1> DEFINE e == Event("AgentCompleted", "pipeline", "nobody")
           w == <<e>>
<1>1. /\ pc[r] = "anchoring" /\ rekor' \subseteq rekor \cup {r}
      /\ UNCHANGED <<chain, request, stage, decisions, verdict, outcome>>
      /\ events' = [events EXCEPT ![r] = events[r] \o w]
  BY DEF Anchor, Publish
<1>2. PICK ok \in BOOLEAN : Deliver(r, [packet[r] EXCEPT !.anchored = ok])
  BY DEF Anchor
<1> DEFINE p == [packet[r] EXCEPT !.anchored = ok]
<1>3. packet[r] \in Answers /\ packet[r].kind = "packet"
  BY <1>0, <1>1 DEF IInv, OutcomeFollowsVerdict
<1>4. p.kind = "packet" /\ p.outcome = packet[r].outcome
  BY <1>3, AnchoredFacts
<1>5. packet' = [packet EXCEPT ![r] = p] /\ pc' = [pc EXCEPT ![r] =
         IF request[r].sealing /\ p.kind = "packet" THEN "sealing" ELSE "answered"]
  BY <1>2 DEF Deliver, Goto
<1> HIDE DEF p
<1>6. /\ packet'[r] = p /\ pc'[r] \in {"sealing", "answered"}
      /\ request[r].sealing => pc'[r] = "sealing"
  BY <1>0, <1>4, <1>5
<1>7. w \in Seq(Events) /\ \A i \in 1..Len(w) : w[i].type # "IncidentReported"
  <2>1. e \in Events /\ e.type = "AgentCompleted"
    BY DEF Event, Events
  <2> HIDE DEF e
  <2>2. Len(w) = 1 /\ w[1] = e /\ w \in Seq(Events)
    BY <2>1
  <2> HIDE DEF w
  <2>3. QED
    BY <2>1, <2>2
<1> HIDE DEF w
<1>8. events[r] \o w \in Seq(Events) /\ IncidentAt(events[r] \o w) = IncidentAt(events[r])
  BY <1>0, <1>7, OtherEvents
<1>9. events' \in [Runs -> Seq(Events)] /\ events'[r] = events[r] \o w
  BY <1>0, <1>1, <1>8
<1>10. DecisionsFollowStage(r)'
  BY <1>0, <1>1, <1>6 DEF RunOK, DecisionsFollowStage, Prologue
<1>11. IncidentFollowsOutcome(r)'
  BY <1>0, <1>1, <1>3, <1>4, <1>6, <1>8, <1>9 DEF RunOK, IncidentFollowsOutcome
<1>12. LogTakesFinished(r)'
  BY <1>0, <1>1, <1>6 DEF RunOK, LogTakesFinished, DecisionsFollowStage
<1>13. SealedIsChained(r)'
  BY <1>0, <1>1, <1>6 DEF RunOK, SealedIsChained, Tenant
<1>14. QED
  BY <1>9, <1>10, <1>11, <1>12, <1>13 DEF RunOK

\* The seal: an answer with a packet is in the chain of its tenant.
LEMMA SealingKeeps ==
    ASSUME IInv, IInv', DInv, NEW r \in Runs, Seal(r)
    PROVE  RunOK(r)' /\ chain' \in [Tenants -> Seq(Runs)]
<1>0. /\ pc \in [Runs -> Points] /\ packet \in [Runs -> Answers] /\ RunOK(r)
      /\ chain \in [Tenants -> Seq(Runs)]
  BY DEF IInv, ControlOK, DInv, DataOK
<1> DEFINE t == Tenant(r)
           q == Append(chain[t], r)
<1>1. /\ pc[r] = "sealing" /\ pc' = [pc EXCEPT ![r] = "answered"]
      /\ UNCHANGED <<rekor, request, stage, decisions, verdict, outcome, events>>
      /\ \/ chain' = [chain EXCEPT ![t] = q] /\ packet' = packet
         \/ chain' = [chain EXCEPT ![t] = q] /\ packet' = [packet EXCEPT ![r] = Error]
         \/ chain' = chain /\ packet' = [packet EXCEPT ![r] = Error]
  BY DEF Seal, Goto
<1>2. t \in Tenants /\ Tenant(r)' = t
  BY <1>0, <1>1 DEF RunOK, SealedIsChained, Tenant
<1>3. q \in Seq(Runs) /\ Len(q) = Len(chain[t]) + 1 /\ q[Len(q)] = r /\ Len(chain[t]) \in Nat
  BY <1>0, <1>2, AppendProperties, LenProperties
<1> HIDE DEF q, t
<1>4. chain' \in [Tenants -> Seq(Runs)]
  BY <1>0, <1>1, <1>2, <1>3
<1>5. pc'[r] = "answered"
  BY <1>0, <1>1
<1>6. \/ packet'[r] = packet[r] /\ chain'[t] = q
      \/ packet'[r] = Error
  BY <1>0, <1>1, <1>2
<1>7. DecisionsFollowStage(r)' /\ LogTakesFinished(r)'
  BY <1>0, <1>1, <1>5 DEF RunOK, DecisionsFollowStage, LogTakesFinished, Prologue
<1>8. IncidentFollowsOutcome(r)'
  BY <1>0, <1>1, <1>5, <1>6, AnswerFacts DEF RunOK, IncidentFollowsOutcome
<1>9. SealedIsChained(r)'
  <2>1. CASE packet'[r] = Error
    BY <1>5, <2>1, AnswerFacts DEF SealedIsChained
  <2>2. CASE chain'[t] = q
    <3>1. Len(q) \in 1..Len(q)
      BY <1>3
    <3>2. \E i \in 1..Len(chain'[t]) : chain'[t][i] = r
      BY <1>3, <2>2, <3>1
    <3>3. QED
      BY <1>2, <3>2 DEF SealedIsChained
  <2>3. QED
    BY <1>6, <2>1, <2>2
<1>10. QED
  BY <1>4, <1>7, <1>8, <1>9 DEF RunOK

\* Every step of a run keeps what is known of that run.
LEMMA ActorKeeps ==
    ASSUME IInv, IInv', DInv, NEW r \in Runs, Begin(r) \/ RunStep(r)
    PROVE  RunOK(r)'
<1>1. CASE MissingAgent(r)
  BY <1>1, HaltAndReturnLeaves DEF MissingAgent, shared
<1>2. CASE AgentFails(r)
  BY <1>2, HaltAndReturnLeaves DEF AgentFails, shared
<1>3. CASE Dispatch(r)
  <2>1. pc[r] = "stage" /\ UNCHANGED <<rekor, chain, request, stage, decisions, verdict, events>>
    BY <1>3 DEF Dispatch, stores
  <2>2. CASE Worker(r) \in quarantined'
    <3>1. HaltAndReturn(r)
      BY <1>3, <2>2 DEF Dispatch
    <3>2. QED
      BY <2>1, <3>1, HaltAndReturnLeaves
  <2>3. CASE Worker(r) \notin quarantined'
    <3>1. pc'[r] = "agent" /\ UNCHANGED <<outcome, packet>>
      BY <1>3, <2>3 DEF Dispatch, Goto, IInv, ControlOK
    <3>2. RunOK(r)
      BY DEF DInv
    <3>3. DecisionsFollowStage(r)' /\ IncidentFollowsOutcome(r)' /\ LogTakesFinished(r)'
      BY <2>1, <3>1, <3>2 DEF RunOK, DecisionsFollowStage, IncidentFollowsOutcome, LogTakesFinished,
         Prologue
    <3>4. SealedIsChained(r)'
      BY <2>1, <3>1, <3>2 DEF RunOK, SealedIsChained, Tenant
    <3>5. QED
      BY <3>3, <3>4 DEF RunOK
  <2>4. QED
    BY <2>2, <2>3
<1>4. QED
  BY <1>1, <1>2, <1>3, PrologueKeeps, DecidingKeeps, CheckingKeeps, FinishingKeeps, AnchoringKeeps,
     SealingKeeps DEF RunStep

\* Every step keeps the types of what the runs share and leave behind.
LEMMA StepData ==
    ASSUME IInv, IInv', DInv, [Next]_vars
    PROVE  DataOK'
<1>0. DataOK
  BY DEF DInv
<1>1. CASE UNCHANGED vars
  BY <1>0, <1>1 DEF DataOK, vars, shared, local
<1>2. CASE Approve \/ Forget
  <2>1. approvals' \in 0..(MaxApprovals + 1)
    BY <1>0, <1>2, ApprovalsAssumption DEF DataOK, Approve, Forget
  <2>2. UNCHANGED <<registry, count, quarantined, machines, rekor, chain, request, decisions,
                    failed, events>>
    BY <1>2 DEF Approve, Forget, stores, local
  <2>3. QED
    BY <1>0, <2>1, <2>2 DEF DataOK
<1>3. ASSUME NEW a \in Agents, Unquarantine(a) PROVE DataOK'
  <2>1. count' \in [Agents -> 0..RogueThreshold] /\ quarantined' \in SUBSET Agents
    BY <1>0, <1>3, RogueAssumption DEF DataOK, Unquarantine
  <2>2. UNCHANGED <<registry, approvals, machines, rekor, chain, request, decisions, failed, events>>
    BY <1>3 DEF Unquarantine, stores, local
  <2>3. QED
    BY <1>0, <2>1, <2>2 DEF DataOK
<1>4. ASSUME NEW r \in Runs, Begin(r) \/ RunStep(r) PROVE DataOK'
  <2>1. registry' = registry /\ approvals' = approvals
    BY <1>4 DEF Begin, RunStep, OpenRoom, AnnounceRun, RoomReply, AdvanceMachine, MissingAgent,
       Dispatch, AgentFails, AgentDecides, CheckBaaar, Finish, Anchor, Seal, shared, defense
  <2>2. count' \in [Agents -> 0..RogueThreshold] /\ quarantined' \in SUBSET Agents
    <3>1. CASE Dispatch(r)
      <4>1. Worker(r) \in Agents
        BY FirstFacts DEF IInv, ControlOK, Worker
      <4>2. Bumped(Worker(r)) \in 0..RogueThreshold
        BY <1>0, <4>1, RogueAssumption DEF DataOK, Bumped
      <4>3. QED
        BY <1>0, <3>1, <4>1, <4>2, ZenonT(60) DEF DataOK, Dispatch
    <3>2. CASE ~Dispatch(r)
      <4>1. UNCHANGED <<count, quarantined>>
        BY <1>4, <3>2 DEF Begin, RunStep, OpenRoom, AnnounceRun, RoomReply, AdvanceMachine,
           MissingAgent, AgentFails, AgentDecides, CheckBaaar, Finish, Anchor, Seal, shared, defense
      <4>2. QED
        BY <1>0, <4>1 DEF DataOK
    <3>3. QED
      BY <3>1, <3>2
  <2>3. /\ machines' \in [Tenants \X Invoices -> InvoiceStates \cup {"none"}]
        /\ rekor' \in SUBSET Runs
    <3>1. CASE Anchor(r)
      <4>1. sm[r] \in InvoiceStates
        BY DEF IInv, ControlOK
      <4>2. \/ rekor' = rekor \/ rekor' = rekor \cup {r}
        BY <3>1 DEF Anchor
      <4>3. machines' = [machines EXCEPT ![<<Tenant(r), request[r].invoice>>] = sm[r]]
        BY <3>1 DEF Anchor
      <4>4. machines \in [Tenants \X Invoices -> InvoiceStates \cup {"none"}] /\ rekor \subseteq Runs
        BY <1>0 DEF DataOK
      <4>5. QED
        BY <4>1, <4>2, <4>3, <4>4
    <3>2. CASE ~Anchor(r)
      <4>1. UNCHANGED <<machines, rekor>>
        BY <1>4, <3>2 DEF Begin, RunStep, OpenRoom, AnnounceRun, RoomReply, AdvanceMachine,
           MissingAgent, Dispatch, AgentFails, AgentDecides, CheckBaaar, Finish, Seal, shared, stores
      <4>2. QED
        BY <1>0, <4>1 DEF DataOK
    <3>3. QED
      BY <3>1, <3>2
  <2>4. chain' \in [Tenants -> Seq(Runs)]
    BY <1>0, <1>4, OnlySealChains, SealingKeeps DEF DataOK
  <2>5. request' \in [Runs -> Requests \cup {NoRequest}]
    BY <1>0, <1>4 DEF DataOK, Begin, RunStep, OpenRoom, AnnounceRun, RoomReply, AdvanceMachine,
       MissingAgent, Dispatch, AgentFails, AgentDecides, CheckBaaar, Finish, Anchor, Seal
  <2>6. failed' \in [Runs -> BOOLEAN]
    <3>1. failed' = failed \/ failed' = [failed EXCEPT ![r] = TRUE]
      BY <1>4 DEF Begin, RunStep, OpenRoom, AnnounceRun, RoomReply, AdvanceMachine, MissingAgent,
         Dispatch, AgentFails, AgentDecides, CheckBaaar, Finish, Anchor, Seal, HaltAndReturn
    <3>2. failed \in [Runs -> BOOLEAN]
      BY <1>0 DEF DataOK
    <3>3. QED
      BY <3>1, <3>2
  <2>7. decisions' \in [Runs -> Seq(Agents)] /\ events' \in [Runs -> Seq(Events)]
    <3>1. AgentDecides(r) \/ decisions' = decisions
      BY <1>4 DEF Begin, RunStep, OpenRoom, AnnounceRun, RoomReply, AdvanceMachine, MissingAgent,
         Dispatch, AgentFails, CheckBaaar, Finish, Anchor, Seal
    <3>2. AgentDecides(r) \/ CheckBaaar(r) \/ Anchor(r) \/ events' = events
      BY <1>4 DEF Begin, RunStep, OpenRoom, AnnounceRun, RoomReply, AdvanceMachine, MissingAgent,
         Dispatch, AgentFails, Finish, Seal
    <3>3. QED
      BY <1>0, <3>1, <3>2, DecidingKeeps, CheckingKeeps, AnchoringKeeps DEF DataOK
  <2>8. QED
    BY <2>1, <2>2, <2>3, <2>4, <2>5, <2>6, <2>7, <1>0 DEF DataOK
<1>5. QED
  BY <1>1, <1>2, <1>3, <1>4 DEF Next

\* A run is chained once: when it is sealed it is not yet in any chain.
LEMMA StepChain ==
    ASSUME IInv, IInv', DInv, [Next]_vars
    PROVE  ChainOK'
<1>0. /\ ChainOK /\ chain \in [Tenants -> Seq(Runs)] /\ pc \in [Runs -> Points]
      /\ \A t \in Tenants : \A i \in 1..Len(chain[t]) : chain[t][i] \in Runs
  BY LenProperties DEF DInv, DataOK, IInv, ControlOK
<1>1. CASE UNCHANGED <<pc, chain>>
  BY <1>0, <1>1 DEF ChainOK
<1>2. ASSUME NEW r \in Runs, Begin(r) \/ RunStep(r) PROVE ChainOK'
  <2>1. pc[r] # "answered"
    BY <1>2 DEF Begin, RunStep, OpenRoom, AnnounceRun, RoomReply, AdvanceMachine, MissingAgent,
       Dispatch, AgentFails, AgentDecides, CheckBaaar, Finish, Anchor, Seal
  <2>2. ASSUME NEW d \in Runs, pc[d] = "answered" PROVE pc'[d] = "answered" /\ d # r
    BY <1>2, <2>1, <2>2, OthersUntouched DEF DInv
  <2>3. CASE chain' = chain
    BY <1>0, <2>2, <2>3 DEF ChainOK
  <2>4. CASE Seal(r) /\ chain' = [chain EXCEPT ![Tenant(r)] = Append(@, r)]
    <3> SUFFICES ASSUME NEW t \in Tenants, NEW i \in 1..Len(chain'[t])
                 PROVE  /\ pc'[chain'[t][i]] = "answered"
                        /\ \A j \in 1..Len(chain'[t]) : chain'[t][i] = chain'[t][j] => i = j
      BY DEF ChainOK
    <3>1. CASE t # Tenant(r)
      <4>1. chain'[t] = chain[t]
        BY <1>0, <2>4, <3>1
      <4>2. QED
        BY <1>0, <2>2, <4>1 DEF ChainOK
    <3>2. CASE t = Tenant(r)
      <4> DEFINE q == chain[t]
                 n == Len(q)
      <4>1. chain'[t] = Append(q, r) /\ q \in Seq(Runs)
        BY <1>0, <2>4, <3>2
      <4>2. /\ Len(chain'[t]) = n + 1 /\ n \in Nat /\ chain'[t][n + 1] = r
            /\ \A j \in 1..n : chain'[t][j] = q[j]
        BY <4>1, AppendProperties, LenProperties
      <4>3. \A j \in 1..n : /\ q[j] \in Runs /\ pc[q[j]] = "answered"
                            /\ \A k \in 1..n : q[j] = q[k] => j = k
        BY <1>0 DEF ChainOK
      <4>4. pc'[r] = "answered"
        BY <1>0, <2>4 DEF Seal, Goto
      <4> HIDE DEF q, n
      <4>5. \A j \in 1..n : pc'[q[j]] = "answered" /\ q[j] # r
        BY <2>2, <4>3
      <4>6. \A j \in 1..n + 1 : j \in 1..n \/ j = n + 1
        BY <4>2
      <4>7. pc'[chain'[t][i]] = "answered"
        BY <4>2, <4>4, <4>5, <4>6
      <4>8. ASSUME NEW j \in 1..n + 1, chain'[t][i] = chain'[t][j] PROVE i = j
        <5>1. i \in 1..n + 1
          BY <4>2
        <5>2. CASE i \in 1..n /\ j \in 1..n
          BY <4>2, <4>3, <4>8, <5>2
        <5>3. CASE i = n + 1 \/ j = n + 1
          BY <4>2, <4>5, <4>6, <4>8, <5>1, <5>3
        <5>4. QED
          BY <4>6, <5>1, <5>2, <5>3
      <4>9. QED
        BY <4>2, <4>7, <4>8
    <3>3. QED
      BY <3>1, <3>2
  <2>5. QED
    BY <1>2, <2>3, <2>4, OnlySealChains
<1>3. QED
  BY <1>1, <1>2 DEF Next, Approve, Forget, Unquarantine, vars, shared, stores, local

\* Every step of every run, of the human and of the monitor keeps what is known
\* of the runs and of what they leave behind.
LEMMA StepRuns == IInv /\ IInv' /\ DInv /\ [Next]_vars => DInv'
<1> SUFFICES ASSUME IInv, IInv', DInv, [Next]_vars PROVE DInv'
  OBVIOUS
<1>1. ASSUME NEW d \in Runs PROVE RunOK(d)'
  <2>1. RunOK(d)
    BY DEF DInv
  <2>2. CASE UNCHANGED <<pc, packet, request, stage, decisions, verdict, outcome, events, rekor, chain>>
    <3>1. DecisionsFollowStage(d)' /\ IncidentFollowsOutcome(d)' /\ LogTakesFinished(d)'
      BY <2>1, <2>2 DEF RunOK, DecisionsFollowStage, IncidentFollowsOutcome, LogTakesFinished
    <3>2. SealedIsChained(d)'
      BY <2>1, <2>2 DEF RunOK, SealedIsChained, Tenant
    <3>3. QED
      BY <3>1, <3>2 DEF RunOK
  <2>3. ASSUME NEW r \in Runs, Begin(r) \/ RunStep(r) PROVE RunOK(d)'
    <3>1. CASE d = r
      BY <2>3, <3>1, ActorKeeps
    <3>2. CASE d # r
      BY <2>3, <3>2, OthersKeep
    <3>3. QED
      BY <3>1, <3>2
  <2>4. QED
    BY <2>2, <2>3 DEF Next, Approve, Forget, Unquarantine, vars, shared, stores, local
<1>2. QED
  BY <1>1, StepData, StepChain DEF DInv

\* What is known of the runs holds in every state.
LEMMA RunsAreSound == Spec => [](IInv /\ DInv)
<1>1. Init => IInv /\ DInv
  BY InitInvariant, InitData
<1>2. (IInv /\ DInv) /\ [Next]_vars => (IInv /\ DInv)'
  BY StepInvariant, StepRuns
<1>3. QED
  BY <1>1, <1>2, PTL DEF Spec

\* Every variable of the orchestrator and of its runs keeps its type.
THEOREM PipelineKeepsTypes == Spec => []TypeOK
<1>1. IInv /\ DInv => TypeOK
  BY TableFacts DEF IInv, ControlOK, DInv, DataOK, TypeOK
<1>2. QED
  BY <1>1, RunsAreSound, PTL

\* After a BAAAR halt no further agent decides, the Article 73 incident is
\* published once and only for a halt, and the transparency log takes no run
\* that failed on the way: for any number of runs that share an orchestrator.
THEOREM HaltsAreFinal == Spec => []HaltIsFinal
<1>1. IInv /\ DInv => HaltIsFinal
  <2> SUFFICES ASSUME IInv, DInv PROVE HaltIsFinal
    OBVIOUS
  <2>1. NothingAfterHalt
    BY DEF DInv, RunOK, DecisionsFollowStage, NothingAfterHalt, First
  <2>2. AnchoredRanToTheEnd
    BY DEF DInv, DataOK, RunOK, LogTakesFinished, AnchoredRanToTheEnd
  <2>3. ASSUME NEW r \in Runs, packet[r].kind = "packet"
        PROVE  Incidents(r) = IF packet[r].outcome = "Halt" THEN 1 ELSE 0
    <3>1. RunOK(r) /\ events[r] \in Seq(Events)
      BY DEF DInv, DataOK
    <3>2. Incidents(r) = Cardinality(IncidentAt(events[r]))
      <4>1. DOMAIN events[r] = 1..Len(events[r])
        BY <3>1, LenProperties
      <4>2. QED
        BY <4>1 DEF Incidents, IncidentAt
    <3>3. packet[r].outcome = outcome[r]
      BY <2>3, <3>1 DEF RunOK, IncidentFollowsOutcome
    <3>4. CASE outcome[r] = "Halt"
      <4>1. PICK k : IncidentAt(events[r]) = {k}
        BY <3>1, <3>4 DEF RunOK, IncidentFollowsOutcome
      <4>2. QED
        BY <3>2, <3>3, <3>4, <4>1, FS_Singleton
    <3>5. CASE outcome[r] # "Halt"
      <4>1. IncidentAt(events[r]) = {}
        BY <3>1, <3>5 DEF RunOK, IncidentFollowsOutcome
      <4>2. QED
        BY <3>2, <3>3, <3>5, <4>1, FS_EmptySet
    <3>6. QED
      BY <3>4, <3>5
  <2>4. QED
    BY <2>1, <2>2, <2>3 DEF HaltIsFinal, IncidentsMatchHalts
<1>2. QED
  BY <1>1, RunsAreSound, PTL

\* process_invoice_sealed: an answer that carries a packet is in the evidence
\* chain of its tenant, exactly once, whatever other runs seal meanwhile.
THEOREM SealedAnswersAreChained == Spec => []SealedAnswerIsInChain
<1>1. IInv /\ DInv => SealedAnswerIsInChain
  <2> SUFFICES ASSUME IInv, DInv, NEW r \in Runs, pc[r] = "answered", request[r].sealing,
                      packet[r].kind = "packet"
               PROVE  Cardinality({i \in DOMAIN chain[Tenant(r)] : chain[Tenant(r)][i] = r}) = 1
    BY DEF SealedAnswerIsInChain
  <2>1. Tenant(r) \in Tenants /\ \E i \in 1..Len(chain[Tenant(r)]) : chain[Tenant(r)][i] = r
    BY DEF DInv, RunOK, SealedIsChained
  <2>2. PICK k \in 1..Len(chain[Tenant(r)]) : chain[Tenant(r)][k] = r
    BY <2>1
  <2>3. \A i \in 1..Len(chain[Tenant(r)]) : chain[Tenant(r)][i] = r => i = k
    BY <2>1, <2>2 DEF DInv, ChainOK
  <2>4. DOMAIN chain[Tenant(r)] = 1..Len(chain[Tenant(r)])
    BY <2>1, LenProperties DEF DInv, DataOK
  <2>5. {i \in DOMAIN chain[Tenant(r)] : chain[Tenant(r)][i] = r} = {k}
    BY <2>2, <2>3, <2>4
  <2>6. QED
    BY <2>5, FS_Singleton
<1>2. QED
  BY <1>1, RunsAreSound, PTL
=============================================================================
