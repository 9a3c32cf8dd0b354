----------------------------- MODULE AgentsProofs -----------------------------
(***************************************************************************)
(* Proofs about the agents, for any number of threads and calls and any    *)
(* threshold, budget, window, capacity and bound: the monitors             *)
(* (AgentMonitors), the gate and the stages of a run (InvoiceAgents) and   *)
(* the metrics of the model calls (LlmCalls), and then the composition of  *)
(* MCAgents.                                                               *)
(***************************************************************************)
EXTENDS MCAgents, SequenceTheorems, FiniteSetTheorems, TLAPS

-----------------------------------------------------------------------------
\* No counter is ahead of the messages that were counted.
CountsAreOfMessages == \A a \in Agents : count[a] <= messages

\* Where a message that must be held back can be: on its way to the quarantine
\* with grounds to flag its agent, or behind it with the agent in quarantine.
HeldIsOnItsWay ==
    \A t \in Workers : held[t] =>
        /\ rmPc[t] \in {"counted", "looked", "recorded", "halted"}
        /\ rmPc[t] \in {"counted", "looked"} =>
               mine[t] >= Threshold \/ agent[t] \in quarantined
        /\ rmPc[t] = "recorded" => agent[t] \in quarantined

rmInv == rmTypeOK /\ CountsAreOfMessages /\ HeldIsOnItsWay

\* The inductive invariant of RogueMonitor holds initially.
LEMMA MonitorStarts == rmInit => rmInv
  BY MessagesAssumption, SMTT(30)
     DEF rmInit, rmInv, rmTypeOK, Points, CountsAreOfMessages, HeldIsOnItsWay

\* Every step of every thread, at each of the two mutexes, keeps it.
LEMMA MonitorSteps == rmInv /\ [rmNext]_rmVars => rmInv'
<1> SUFFICES ASSUME rmInv, [rmNext]_rmVars PROVE rmInv'
  OBVIOUS
<1> USE ThresholdAssumption, MessagesAssumption
<1>0. rmTypeOK /\ CountsAreOfMessages /\ HeldIsOnItsWay
  BY DEF rmInv
<1>1. ASSUME NEW t \in Workers, NEW a \in Agents, Count(t, a) PROVE rmInv'
  <2>1. count[a] + 1 \in 0..MaxMessages /\ messages + 1 \in 0..MaxMessages
    BY <1>0, <1>1 DEF Count, rmTypeOK, CountsAreOfMessages
  <2>2. /\ count' = [count EXCEPT ![a] = count[a] + 1]
        /\ mine' = [mine EXCEPT ![t] = count[a] + 1]
        /\ held' = [held EXCEPT ![t] = count[a] + 1 >= Threshold \/ a \in quarantined]
    BY <1>0, <1>1 DEF Count, rmTypeOK
  <2>3. rmTypeOK'
    BY <1>0, <1>1, <2>1, <2>2 DEF Count, Goto, rmTypeOK, Points
  <2>4. CountsAreOfMessages'
    BY <1>0, <1>1, <2>2 DEF Count, rmTypeOK, CountsAreOfMessages
  <2>5. HeldIsOnItsWay'
    BY <1>0, <1>1, <2>1, <2>2 DEF Count, Goto, rmTypeOK, HeldIsOnItsWay
  <2>6. QED
    BY <2>3, <2>4, <2>5 DEF rmInv
<1>2. ASSUME NEW t \in Workers, NEW a \in Agents, MentionCount(t, a) PROVE rmInv'
  BY <1>0, <1>2
     DEF MentionCount, Goto, rmInv, rmTypeOK, Points, CountsAreOfMessages, HeldIsOnItsWay
<1>3. ASSUME NEW t \in Workers, NEW a \in Agents, LiftQuarantine(t, a) PROVE rmInv'
  <2>1. rmTypeOK' /\ CountsAreOfMessages'
    BY <1>0, <1>3 DEF LiftQuarantine, Release, Goto, rmTypeOK, Points, CountsAreOfMessages
  <2>2. HeldIsOnItsWay'
    BY <1>0, <1>3 DEF LiftQuarantine, Release, Goto, rmTypeOK, HeldIsOnItsWay
  <2>3. QED
    BY <2>1, <2>2 DEF rmInv
<1>4. ASSUME NEW t \in Workers, Look(t) PROVE rmInv'
  BY <1>0, <1>4
     DEF Look, Goto, rmInv, rmTypeOK, Points, CountsAreOfMessages, HeldIsOnItsWay
<1>5. ASSUME NEW t \in Workers, Flag(t) PROVE rmInv'
  BY <1>0, <1>5
     DEF Flag, Goto, rmInv, rmTypeOK, Points, CountsAreOfMessages, HeldIsOnItsWay
<1>6. ASSUME NEW t \in Workers, Decide(t) PROVE rmInv'
  BY <1>0, <1>6
     DEF Decide, Goto, rmInv, rmTypeOK, Points, CountsAreOfMessages, HeldIsOnItsWay
<1>7. ASSUME NEW t \in Workers, MentionQuarantine(t) PROVE rmInv'
  <2>1. rmTypeOK' /\ CountsAreOfMessages'
    BY <1>0, <1>7
       DEF MentionQuarantine, Release, Goto, rmTypeOK, Points, CountsAreOfMessages
  <2>2. HeldIsOnItsWay'
    BY <1>0, <1>7 DEF MentionQuarantine, Release, Goto, rmTypeOK, HeldIsOnItsWay
  <2>3. QED
    BY <2>1, <2>2 DEF rmInv
<1>8. ASSUME NEW t \in Workers, LiftCount(t) PROVE rmInv'
  BY <1>0, <1>8
     DEF LiftCount, Goto, rmInv, rmTypeOK, Points, CountsAreOfMessages, HeldIsOnItsWay
<1>9. ASSUME NEW t \in Workers, Done(t) PROVE rmInv'
  BY <1>0, <1>9
     DEF Done, Goto, rmInv, rmTypeOK, Points, CountsAreOfMessages, HeldIsOnItsWay
<1>10. CASE UNCHANGED rmVars
  BY <1>0, <1>10 DEF rmVars, rmInv, rmTypeOK, CountsAreOfMessages, HeldIsOnItsWay
<1>11. QED
  BY <1>1, <1>2, <1>3, <1>4, <1>5, <1>6, <1>7, <1>8, <1>9, <1>10 DEF rmNext

\* For any number of concurrent callers, no interleaving of the counter's and
\* the quarantine's mutex lets a message through that was over the threshold or
\* whose agent was quarantined (record_message, is_quarantined).
THEOREM HeldMessagesStayHeld == rmSpec => []HeldIsNotDispatched
<1>1. rmInv => HeldIsNotDispatched
  BY DEF rmInv, HeldIsOnItsWay, HeldIsNotDispatched
<1>2. QED
  BY <1>1, MonitorStarts, MonitorSteps, PTL DEF rmSpec
-----------------------------------------------------------------------------
\* A set of natural numbers that is not empty has a least element.
LEMMA LeastNatural ==
  ASSUME NEW S \in SUBSET Nat, S # {}
  PROVE  \E m \in S : \A k \in S : m <= k
<1>1. PICK m \in S : \A k \in S : ~(<<k, m>> \in OpToRel(<, Nat))
  BY WFMin, NatLessThanWellFounded
<1>2. ASSUME NEW k \in S PROVE m <= k
  <2>1. ~(k < m)
    BY <1>1 DEF OpToRel
  <2>2. QED
    BY <2>1
<1>3. QED
  BY <1>2

\* The loop that pops aged stamps takes a prefix off the queue, and everything
\* in that prefix is out of the window.
LEMMA PruneDropsAged ==
  ASSUME NEW q \in Seq(Times), NEW t \in Times
  PROVE  \E k \in 0..Len(q) :
            /\ Prune(q, t) \in Seq(Times)
            /\ Len(Prune(q, t)) = Len(q) - k
            /\ \A i \in 1..(Len(q) - k) : Prune(q, t)[i] = q[k + i]
            /\ \A i \in 1..k : Aged(q[i], t)
<1>0. Len(q) \in Nat /\ q \in [1..Len(q) -> Times]
  BY LenProperties
<1>1. CASE \A i \in 1..Len(q) : Aged(q[i], t)
  <2>1. Prune(q, t) = <<>>
    BY <1>1 DEF Prune
  <2>2. Prune(q, t) \in Seq(Times) /\ Len(Prune(q, t)) = Len(q) - Len(q)
    BY <1>0, <2>1
  <2>3. Len(q) \in 0..Len(q) /\ \A i \in 1..(Len(q) - Len(q)) : Prune(q, t)[i] = q[Len(q) + i]
    BY <1>0
  <2>4. QED
    BY <1>1, <2>2, <2>3
<1>2. CASE ~(\A i \in 1..Len(q) : Aged(q[i], t))
  <2> DEFINE FirstYoung(k) == ~Aged(q[k], t) /\ \A i \in 1..(k - 1) : Aged(q[i], t)
             S == {k \in 1..Len(q) : ~Aged(q[k], t)}
  <2>1. \E k \in 1..Len(q) : FirstYoung(k)
    <3>1. S \in SUBSET Nat /\ S # {}
      BY <1>0, <1>2
    <3>2. PICK m \in S : \A k \in S : m <= k
      BY <3>1, LeastNatural
    <3>3. ASSUME NEW i \in 1..(m - 1) PROVE Aged(q[i], t)
      BY <1>0, <3>2
    <3>4. QED
      BY <1>0, <3>2, <3>3
  <2> DEFINE k == CHOOSE x \in 1..Len(q) : FirstYoung(x)
  <2>2. k \in 1..Len(q) /\ FirstYoung(k)
    BY <2>1
  <2>3. Prune(q, t) = SubSeq(q, k, Len(q))
    BY <1>2 DEF Prune
  <2> HIDE DEF k
  <2>4. /\ SubSeq(q, k, Len(q)) \in Seq(Times)
        /\ Len(SubSeq(q, k, Len(q))) = Len(q) - k + 1
        /\ \A i \in 1..(Len(q) - k + 1) : SubSeq(q, k, Len(q))[i] = q[k + i - 1]
    BY <1>0, <2>2, SubSeqProperties
  <2>5. k - 1 \in 0..Len(q) /\ Len(q) - (k - 1) = Len(q) - k + 1
    BY <1>0, <2>2
  <2>6. \A i \in 1..(Len(q) - (k - 1)) : Prune(q, t)[i] = q[(k - 1) + i]
    BY <1>0, <2>2, <2>3, <2>4, <2>5
  <2>7. QED
    BY <2>2, <2>3, <2>4, <2>5, <2>6
<1>3. QED
  BY <1>1, <1>2

\* What is out of the window stays out of it.
LEMMA AgedStaysAged ==
  ASSUME NEW stamp \in Times, NEW t \in Times, NEW u \in Times, t <= u, Aged(stamp, t)
  PROVE  Aged(stamp, u)
  BY BoundsAssumption, WindowAssumption DEF Aged, Times

\* No thread's clock reading is ahead of the clock.
ReadingsArePast == \A t \in Approvers : now[t] <= clock

afInv == afTypeOK /\ ReadingsArePast /\ NeverUndercounts /\ AuthorisedWithinBudget

\* The inductive invariant of AlertFatigue holds initially.
LEMMA DetectorStarts == afInit => afInv
<1> SUFFICES ASSUME afInit PROVE afInv
  OBVIOUS
<1>1. afTypeOK /\ ReadingsArePast
  BY BoundsAssumption DEF afInit, afTypeOK, ReadingsArePast, Times
<1>2. NeverUndercounts /\ AuthorisedWithinBudget
  BY DEF afInit, NeverUndercounts, AuthorisedWithinBudget
<1>3. QED
  BY <1>1, <1>2 DEF afInv

\* Pruning at a reading of the clock, whoever made it and however late it is
\* used, leaves a tail of what was recorded whose missing part has aged.
LEMMA PruningUndercountsNothing ==
  ASSUME afTypeOK, NeverUndercounts, NEW t \in Times, t <= clock
  PROVE  /\ Prune(queue, t) \in Seq(Times)
         /\ Len(Prune(queue, t)) <= Len(recorded)
         /\ \A i \in 1..Len(Prune(queue, t)) :
               Prune(queue, t)[i] = recorded[Len(recorded) - Len(Prune(queue, t)) + i]
         /\ \A i \in 1..(Len(recorded) - Len(Prune(queue, t))) : Aged(recorded[i], clock)
<1>0. /\ queue \in Seq(Times) /\ recorded \in Seq(Times) /\ clock \in Times
      /\ Len(queue) \in Nat /\ Len(recorded) \in Nat
      /\ recorded \in [1..Len(recorded) -> Times]
  BY LenProperties DEF afTypeOK
<1> DEFINE p == Prune(queue, t)
           gone == Len(recorded) - Len(queue)
<1>1. PICK k \in 0..Len(queue) :
            /\ p \in Seq(Times)
            /\ Len(p) = Len(queue) - k
            /\ \A i \in 1..(Len(queue) - k) : p[i] = queue[k + i]
            /\ \A i \in 1..k : Aged(queue[i], t)
  BY <1>0, PruneDropsAged
<1>2. /\ gone \in Nat
      /\ \A i \in 1..Len(queue) : queue[i] = recorded[gone + i]
      /\ \A i \in 1..gone : Aged(recorded[i], clock)
  BY <1>0 DEF NeverUndercounts, Fresh
<1> HIDE DEF p
<1>3. Len(p) <= Len(recorded) /\ Len(recorded) - Len(p) = gone + k
  BY <1>0, <1>1, <1>2
<1>4. ASSUME NEW i \in 1..Len(p) PROVE p[i] = recorded[Len(recorded) - Len(p) + i]
  <2>1. k + i \in 1..Len(queue) /\ p[i] = queue[k + i]
    BY <1>0, <1>1, SMTT(60)
  <2>2. gone + (k + i) = Len(recorded) - Len(p) + i
    BY <1>0, <1>1, <1>2, <1>3
  <2>3. QED
    BY <1>2, <2>1, <2>2
<1>5. ASSUME NEW i \in 1..(Len(recorded) - Len(p)) PROVE Aged(recorded[i], clock)
  <2>1. CASE i \in 1..gone
    BY <1>2, <2>1
  <2>2. CASE i \notin 1..gone
    <3>1. i - gone \in 1..k /\ gone + (i - gone) = i
      BY <1>0, <1>1, <1>2, <1>3, <2>2
    <3>2. Aged(queue[i - gone], t) /\ queue[i - gone] = recorded[i]
      BY <1>0, <1>1, <1>2, <3>1, SMTT(60)
    <3>3. recorded[i] \in Times
      BY <1>0, <1>1, <1>2, <1>3
    <3>4. QED
      BY <1>0, <3>2, <3>3, AgedStaysAged
  <2>3. QED
    BY <2>1, <2>2
<1>6. QED
  BY <1>1, <1>3, <1>4, <1>5 DEF p

\* The answer Ok is right when the queue that was left is within the budget:
\* the approvals inside the window are all in the queue.
LEMMA OkIsWithinBudget ==
  ASSUME NEW q \in Seq(Times), NEW r \in Seq(Times), NEW c \in Times,
         Len(q) <= Len(r), Len(q) <= MaxApprovals,
         \A i \in 1..(Len(r) - Len(q)) : Aged(r[i], c)
  PROVE  Cardinality({i \in 1..Len(r) : ~Aged(r[i], c)}) <= MaxApprovals
<1>0. Len(q) \in Nat /\ Len(r) \in Nat
  BY LenProperties
<1> DEFINE F == {i \in 1..Len(r) : ~Aged(r[i], c)}
           I == (Len(r) - Len(q) + 1)..Len(r)
<1>1. F \subseteq I
  BY <1>0
<1>2. IsFiniteSet(I) /\ Cardinality(I) = Len(q)
  <2> DEFINE a == Len(r) - Len(q) + 1
             b == Len(r)
  <2>1. a \in Int /\ b \in Int /\ a <= b + 1 /\ b - a + 1 = Len(q)
    BY <1>0
  <2> HIDE DEF a, b
  <2>2. IsFiniteSet(a..b) /\ Cardinality(a..b) = IF a > b THEN 0 ELSE b - a + 1
    BY <2>1, FS_Interval
  <2>3. Cardinality(a..b) = Len(q)
    BY <1>0, <2>1, <2>2
  <2>4. QED
    BY <2>2, <2>3 DEF a, b
<1>3. IsFiniteSet(F) /\ Cardinality(F) <= Cardinality(I)
  BY <1>1, <1>2, FS_Subset
<1>4. Cardinality(F) \in Nat
  BY <1>3, FS_CardinalityType
<1>5. QED
  BY <1>0, <1>2, <1>3, <1>4, ApprovalsAssumption

\* Every step keeps the invariant, in whichever order the threads' readings of
\* the clock enter the queue.
LEMMA DetectorSteps == afInv /\ [afNext]_afVars => afInv'
<1> SUFFICES ASSUME afInv, [afNext]_afVars PROVE afInv'
  OBVIOUS
<1> USE BoundsAssumption, ApprovalsAssumption
<1>0. /\ afTypeOK /\ ReadingsArePast /\ NeverUndercounts /\ AuthorisedWithinBudget
      /\ Len(queue) \in Nat /\ Len(recorded) \in Nat
  BY LenProperties DEF afInv, afTypeOK
<1>1. ASSUME NEW t \in Approvers, ReadClock(t) PROVE afInv'
  <2>1. afTypeOK' /\ ReadingsArePast'
    BY <1>0, <1>1 DEF ReadClock, afTypeOK, ReadingsArePast, Times
  <2>2. NeverUndercounts' /\ AuthorisedWithinBudget'
    BY <1>0, <1>1 DEF ReadClock, NeverUndercounts, AuthorisedWithinBudget, Fresh
  <2>3. QED
    BY <2>1, <2>2 DEF afInv
<1>2. ASSUME NEW t \in Approvers, Record(t) PROVE afInv'
  <2> DEFINE p == Prune(queue, now[t])
  <2>1. now[t] \in Times /\ now[t] <= clock
    BY <1>0 DEF afTypeOK, ReadingsArePast
  <2>2. /\ p \in Seq(Times) /\ Len(p) \in Nat /\ Len(p) <= Len(recorded)
        /\ \A i \in 1..Len(p) : p[i] = recorded[Len(recorded) - Len(p) + i]
        /\ \A i \in 1..(Len(recorded) - Len(p)) : Aged(recorded[i], clock)
    BY <1>0, <2>1, PruningUndercountsNothing, LenProperties
  <2>3. /\ queue' = Append(p, now[t]) /\ recorded' = Append(recorded, now[t])
        /\ clock' = clock /\ now' = now /\ gate' = "none"
        /\ Len(recorded) < MaxRecorded
        /\ afPc' = [afPc EXCEPT ![t] = IF Len(queue') > MaxApprovals
                                       THEN "suspending" ELSE "idle"]
    BY <1>2 DEF Record
  <2> HIDE DEF p
  <2>4. /\ queue' \in Seq(Times) /\ Len(queue') = Len(p) + 1
        /\ \A i \in 1..Len(p) : queue'[i] = p[i]
        /\ queue'[Len(p) + 1] = now[t]
    BY <2>1, <2>2, <2>3, AppendProperties
  <2>5. /\ recorded' \in Seq(Times) /\ Len(recorded') = Len(recorded) + 1
        /\ \A i \in 1..Len(recorded) : recorded'[i] = recorded[i]
        /\ recorded'[Len(recorded) + 1] = now[t]
    BY <1>0, <2>1, <2>3, AppendProperties DEF afTypeOK
  <2>6. afTypeOK' /\ ReadingsArePast'
    BY <1>0, <2>3, <2>4, <2>5 DEF afTypeOK, ReadingsArePast
  <2>7. Len(recorded') - Len(queue') = Len(recorded) - Len(p)
    BY <1>0, <2>2, <2>4, <2>5
  <2>8. NeverUndercounts'
    <3>1. ASSUME NEW i \in 1..Len(queue')
          PROVE  queue'[i] = recorded'[Len(recorded) - Len(p) + i]
      <4>1. CASE i \in 1..Len(p)
        <5>1. Len(recorded) - Len(p) + i \in 1..Len(recorded)
          BY <1>0, <2>2, <4>1
        <5>2. QED
          BY <2>2, <2>4, <2>5, <4>1, <5>1
      <4>2. CASE i = Len(p) + 1
        <5>1. i = Len(p) + 1 /\ Len(recorded) - Len(p) + i = Len(recorded) + 1
          BY <1>0, <2>2, <4>2
        <5>2. QED
          BY <2>4, <2>5, <5>1
      <4>3. i \in 1..Len(p) \/ i = Len(p) + 1
        BY <2>2, <2>4
      <4>4. QED
        BY <4>1, <4>2, <4>3
    <3>2. ASSUME NEW i \in 1..(Len(recorded) - Len(p)) PROVE Aged(recorded'[i], clock')
      BY <1>0, <2>2, <2>3, <2>5
    <3>3. QED
      BY <1>0, <2>2, <2>7, <3>1, <3>2, SMTT(60) DEF NeverUndercounts, Fresh
  <2>9. AuthorisedWithinBudget'
    BY <2>3 DEF AuthorisedWithinBudget
  <2>10. QED
    BY <2>6, <2>8, <2>9 DEF afInv
<1>3. ASSUME NEW t \in Approvers, ReadUntil(t) PROVE afInv'
  <2>1. afTypeOK' /\ ReadingsArePast'
    BY <1>0, <1>3 DEF ReadUntil, afTypeOK, ReadingsArePast
  <2>2. NeverUndercounts' /\ AuthorisedWithinBudget'
    BY <1>0, <1>3 DEF ReadUntil, NeverUndercounts, AuthorisedWithinBudget, Fresh
  <2>3. QED
    BY <2>1, <2>2 DEF afInv
<1>4. CASE CheckAuthorization
  <2>1. clock \in Times /\ clock <= clock
    BY <1>0 DEF afTypeOK, Times
  <2>2. /\ queue' \in Seq(Times) /\ Len(queue') \in Nat /\ Len(queue') <= Len(recorded)
        /\ \A i \in 1..Len(queue') : queue'[i] = recorded[Len(recorded) - Len(queue') + i]
        /\ \A i \in 1..(Len(recorded) - Len(queue')) : Aged(recorded[i], clock)
    BY <1>0, <1>4, <2>1, PruningUndercountsNothing, LenProperties DEF CheckAuthorization
  <2>3. afTypeOK' /\ ReadingsArePast'
    BY <1>0, <1>4, <2>2 DEF CheckAuthorization, afTypeOK, ReadingsArePast
  <2>4. NeverUndercounts'
    BY <1>0, <1>4, <2>2 DEF CheckAuthorization, NeverUndercounts, Fresh
  <2>5. AuthorisedWithinBudget'
    <3>1. SUFFICES ASSUME gate' = "Ok"
                   PROVE  Cardinality({i \in 1..Len(recorded) : ~Aged(recorded[i], clock)})
                             <= MaxApprovals
      BY <1>4 DEF CheckAuthorization, AuthorisedWithinBudget, Fresh
    <3>2. Len(queue') <= MaxApprovals
      BY <1>4, <2>2, <3>1 DEF CheckAuthorization
    <3>3. recorded \in Seq(Times)
      BY <1>0 DEF afTypeOK
    <3>4. QED
      BY <2>1, <2>2, <3>2, <3>3, OkIsWithinBudget
  <2>6. QED
    BY <2>3, <2>4, <2>5 DEF afInv
<1>5. CASE ResetAfterReauth
  <2>1. afTypeOK' /\ ReadingsArePast'
    BY <1>0, <1>5 DEF ResetAfterReauth, afTypeOK, ReadingsArePast
  <2>2. NeverUndercounts' /\ AuthorisedWithinBudget'
    BY <1>5 DEF ResetAfterReauth, NeverUndercounts, AuthorisedWithinBudget
  <2>3. QED
    BY <2>1, <2>2 DEF afInv
<1>6. CASE Tick
  <2>1. /\ clock' = clock + 1 /\ clock \in Times /\ clock' \in Times /\ gate' = "none"
        /\ UNCHANGED <<queue, afPc, now, recorded>>
    BY <1>0, <1>6 DEF Tick, afTypeOK, Times
  <2>2. afTypeOK' /\ ReadingsArePast'
    BY <1>0, <2>1 DEF afTypeOK, ReadingsArePast, Times
  <2>3. NeverUndercounts'
    <3>1. recorded \in [1..Len(recorded) -> Times]
      BY <1>0, LenProperties DEF afTypeOK
    <3>2. ASSUME NEW i \in 1..(Len(recorded) - Len(queue)) PROVE Aged(recorded[i], clock')
      <4>1. i \in 1..Len(recorded) /\ clock <= clock'
        BY <1>0, <2>1 DEF Times
      <4>2. recorded[i] \in Times /\ Aged(recorded[i], clock)
        BY <1>0, <3>1, <4>1 DEF NeverUndercounts, Fresh
      <4>3. QED
        BY <2>1, <4>1, <4>2, AgedStaysAged
    <3>3. QED
      BY <1>0, <2>1, <3>2 DEF NeverUndercounts, Fresh
  <2>4. AuthorisedWithinBudget'
    BY <2>1 DEF AuthorisedWithinBudget
  <2>5. QED
    BY <2>2, <2>3, <2>4 DEF afInv
<1>7. CASE UNCHANGED afVars
  BY <1>0, <1>7
     DEF afVars, afInv, afTypeOK, ReadingsArePast, NeverUndercounts, AuthorisedWithinBudget, Fresh
<1>8. QED
  BY <1>1, <1>2, <1>3, <1>4, <1>5, <1>6, <1>7 DEF afNext
-----------------------------------------------------------------------------
(* BaaarGate                                                               *)

\* What from_decision_payload returns.
AssessmentOK(a) ==
  /\ a.risk_score \in Int /\ a.coherence_score \in Int /\ a.debate_rounds \in Int
  /\ a.explicit_halt \in BOOLEAN

\* A report whose fields are numbers or missing.
ReportOK(r) ==
  /\ r.risk_score \in Int /\ r.coherence_score \in Int
  /\ r.debate_rounds \in Nat \cup {Absent} /\ r.explicit_halt \in BOOLEAN

bgInv ==
  v1 # "none" => ReportOK(report) /\ assessment = FromPayload(report) /\ v1 = Check(assessment)

\* An agent's report is one.
LEMMA ReportsAreOK == ASSUME NEW r \in Reports PROVE ReportOK(r)
<1>1. /\ r.risk_score \in Scores \cup {Absent} /\ r.coherence_score \in Scores \cup {Absent}
      /\ r.debate_rounds \in Rounds \cup {Absent} /\ r.explicit_halt \in BOOLEAN
  BY DEF Reports
<1>2. Absent \in Int /\ Scores \subseteq Int /\ Rounds \subseteq Nat
  BY ScoresAssumption DEF Absent
<1>3. r.risk_score \in Int /\ r.coherence_score \in Int
  BY <1>1, <1>2
<1>4. r.debate_rounds \in Nat \cup {Absent}
  BY <1>1, <1>2
<1> QED
  BY <1>1, <1>3, <1>4 DEF ReportOK

\* What is read out of a report has its types, and is what was sent if the
\* count of rounds fits.
LEMMA ReadsAssessment ==
  ASSUME NEW r, ReportOK(r)
  PROVE  /\ AssessmentOK(FromPayload(r)) /\ AssessmentOK(AsSent(r))
         /\ FitsU32(r) => FromPayload(r) = AsSent(r)
<1>1. RoundsModulus \in Nat /\ RoundsModulus > 0
  BY ModulusAssumption DEF MAX_DEBATE_ROUNDS
<1>2. /\ Default(r.risk_score, 0) \in Int /\ Default(r.coherence_score, 100) \in Int
      /\ Default(r.debate_rounds, 0) \in Nat
  BY DEF ReportOK, Default, Absent
<1>3. Default(r.debate_rounds, 0) % RoundsModulus \in Int
  BY <1>1, <1>2
<1>4. AssessmentOK(FromPayload(r)) /\ AssessmentOK(AsSent(r))
  BY <1>2, <1>3 DEF AssessmentOK, FromPayload, AsSent, ReportOK
<1>5. ASSUME FitsU32(r) PROVE FromPayload(r) = AsSent(r)
  <2>1. Default(r.debate_rounds, 0) < RoundsModulus
    BY <1>1, <1>5 DEF FitsU32, Default, Absent, ReportOK
  <2>2. Default(r.debate_rounds, 0) % RoundsModulus = Default(r.debate_rounds, 0)
    BY <1>1, <1>2, <2>1
  <2> QED
    BY <2>2 DEF FromPayload, AsSent
<1> QED
  BY <1>4, <1>5

\* The verdict is the one of what was read out of the report, from the first
\* report on.
LEMMA GateSteps == bgInv /\ [bgNext]_bgVars => bgInv'
<1> SUFFICES ASSUME bgInv, [bgNext]_bgVars PROVE bgInv'
  OBVIOUS
<1>1. CASE Judge
  <2>1. report' \in Reports /\ assessment' = FromPayload(report') /\ v1' = Check(assessment')
    BY <1>1 DEF Judge
  <2>2. ReportOK(report')
    <3> DEFINE r == report'
    <3>1. r \in Reports
      BY <2>1
    <3> HIDE DEF r
    <3>2. ReportOK(r)
      BY <3>1, ReportsAreOK
    <3> QED
      BY <3>2 DEF r
  <2> QED
    BY <2>1, <2>2 DEF bgInv
<1>2. CASE Consult \/ UNCHANGED bgVars
  <2>1. v1' = v1 /\ assessment' = assessment /\ report' = report
    BY <1>2 DEF Consult, bgVars
  <2> QED
    BY <2>1 DEF bgInv
<1> QED
  BY <1>1, <1>2 DEF bgNext

\* The first condition met is the one named.
LEMMA NamesTheFirst == bgInv => NamesFirstCondition
<1> DEFINE a == AsSent(report)
<1> SUFFICES ASSUME bgInv, v1 # "none", FitsU32(report)
             PROVE  /\ v1 = "Approve" <=> \A i \in 1..5 : ~Meets(a, i)
                    /\ \A i \in 1..5 : v1 = Ranked[i] =>
                          Meets(a, i) /\ \A j \in 1..(i - 1) : ~Meets(a, j)
  BY DEF NamesFirstCondition
<1>1. AssessmentOK(a) /\ v1 = Check(a)
  BY ReadsAssessment DEF bgInv
<1>2. /\ Meets(a, 1) <=> a.risk_score > 85
      /\ Meets(a, 2) <=> "SecretLeak" \in a.findings
      /\ Meets(a, 3) <=> a.coherence_score < 30
      /\ Meets(a, 4) <=> a.debate_rounds >= 5
      /\ Meets(a, 5) <=> a.explicit_halt
  BY <1>1 DEF Meets, AssessmentOK
<1> HIDE DEF a
<1>3. v1 = IF Meets(a, 1) THEN "RiskScoreExceeded"
           ELSE IF Meets(a, 2) THEN "SecretLeakDetected"
           ELSE IF Meets(a, 3) THEN "CoherenceTooLow"
           ELSE IF Meets(a, 4) THEN "MaxDebateRoundsReached"
           ELSE IF Meets(a, 5) THEN "ExplicitHaltRequested" ELSE "Approve"
  BY <1>1, <1>2 DEF Check, AssessmentOK, RISK_SCORE_HALT, COHERENCE_FLOOR, MAX_DEBATE_ROUNDS
<1>4. /\ Ranked[1] = "RiskScoreExceeded" /\ Ranked[2] = "SecretLeakDetected"
      /\ Ranked[3] = "CoherenceTooLow" /\ Ranked[4] = "MaxDebateRoundsReached"
      /\ Ranked[5] = "ExplicitHaltRequested"
  BY DEF Ranked
<1>5. v1 = "Approve" <=> \A i \in 1..5 : ~Meets(a, i)
  <2>1. (\A i \in 1..5 : ~Meets(a, i)) <=>
          ~Meets(a, 1) /\ ~Meets(a, 2) /\ ~Meets(a, 3) /\ ~Meets(a, 4) /\ ~Meets(a, 5)
    OBVIOUS
  <2> QED
    BY <1>3, <2>1
<1>6. ASSUME NEW i \in 1..5, v1 = Ranked[i]
      PROVE  Meets(a, i) /\ \A j \in 1..(i - 1) : ~Meets(a, j)
  <2>1. CASE i = 1
    BY <1>3, <1>4, <1>6, <2>1
  <2>2. CASE i = 2
    BY <1>3, <1>4, <1>6, <2>2
  <2>3. CASE i = 3
    BY <1>3, <1>4, <1>6, <2>3
  <2>4. CASE i = 4
    BY <1>3, <1>4, <1>6, <2>4
  <2>5. CASE i = 5
    BY <1>3, <1>4, <1>6, <2>5
  <2> QED
    BY <2>1, <2>2, <2>3, <2>4, <2>5
<1> QED
  BY <1>5, <1>6 DEF a

\* What is worse in every respect is halted too, whatever its scores.
LEMMA WorseIsHalted ==
  ASSUME NEW a, NEW b, AssessmentOK(a), AssessmentOK(b), Worse(b, a), Check(a) # "Approve"
  PROVE  Check(b) # "Approve"
BY DEF AssessmentOK, Worse, Check, RISK_SCORE_HALT, COHERENCE_FLOOR, MAX_DEBATE_ROUNDS

\* In particular the reports that the run compares it with.
LEMMA GateIsMonotone == bgInv => WorseIsNotApproved
<1> SUFFICES ASSUME bgInv, v1 \notin {"none", "Approve"},
                    NEW b \in [risk_score : {report.risk_score, 100},
                               findings : {report.findings, Kinds},
                               coherence_score : {report.coherence_score, 0},
                               debate_rounds : {report.debate_rounds, RoundsModulus - 1},
                               explicit_halt : BOOLEAN],
                    FitsU32(b), Worse(AsSent(b), AsSent(report))
             PROVE  Check(FromPayload(b)) # "Approve"
  BY DEF WorseIsNotApproved
<1>1. ReportOK(report) /\ Check(FromPayload(report)) # "Approve"
  BY DEF bgInv
<1>2. RoundsModulus \in Nat /\ RoundsModulus - 1 \in Nat /\ RoundsModulus > 0
  BY ModulusAssumption DEF MAX_DEBATE_ROUNDS
<1>3. ReportOK(b)
  BY <1>1, <1>2 DEF ReportOK
<1>4. /\ FromPayload(b) = AsSent(b)
      /\ AssessmentOK(AsSent(b)) /\ AssessmentOK(AsSent(report))
  BY <1>1, <1>3, ReadsAssessment
<1>5. FitsU32(report)
  <2>1. Default(b.debate_rounds, 0) >= Default(report.debate_rounds, 0)
    BY DEF Worse, AsSent
  <2> QED
    BY <1>1, <1>2, <1>3, <2>1 DEF FitsU32, Default, Absent, ReportOK
<1>6. FromPayload(report) = AsSent(report)
  BY <1>1, <1>5, ReadsAssessment
<1> QED
  BY <1>1, <1>4, <1>6, WorseIsHalted

-----------------------------------------------------------------------------
(* InvoiceAgents                                                           *)

\* A sequence, of whatever it holds.
IsList(s) == s \in Seq(Range(s))

\* What the provenance signer put over the first four decisions.
SignedOver(p, decisions) ==
  /\ IsList(p.canonical) /\ Len(p.canonical) = 4
  /\ \A i \in 1..4 : p.canonical[i] = decisions[i]
  /\ p.blake3 = Hex(Hash(p.canonical)) /\ p.public_key = SigningKey
  /\ p.signature = Sign(SigningKey, Bytes(Hash(p.canonical)))

iaInv ==
  /\ IsList(iaDecisions) /\ Len(iaDecisions) <= 8
  /\ iaEnd = "no" => Len(iaDecisions) < 8
  /\ Len(iaDecisions) < 3 => iaVerdict = "none"
  /\ GatesAgree
  /\ ~iaStubs => \A i \in 1..Len(iaDecisions) : iaDecisions[i].type = TypeOfStage(Stages[i])
  /\ ~iaStubs /\ Len(iaDecisions) >= 5 => SignedOver(iaDecisions[5].payload, iaDecisions)
  /\ ~iaStubs /\ Len(iaDecisions) >= 7 => iaDecisions[7].payload.verified

\* What Append does to a list of anything.
LEMMA ListGrows ==
  ASSUME NEW s, IsList(s), NEW d
  PROVE  /\ IsList(Append(s, d)) /\ Len(s) \in Nat /\ Len(Append(s, d)) = Len(s) + 1
         /\ \A i \in 1..Len(s) : Append(s, d)[i] = s[i]
         /\ Append(s, d)[Len(s) + 1] = d
<1> DEFINE T == Range(s) \cup {d}
           t == Append(s, d)
<1>1. s \in Seq(T) /\ Len(s) \in Nat
  <2>1. s \in Seq(Range(s)) /\ Range(s) \subseteq T
    BY DEF IsList
  <2> HIDE DEF T
  <2> QED
    BY <2>1, LenProperties
<1>2. d \in T
  OBVIOUS
<1> HIDE DEF T
<1>3. /\ t \in Seq(T) /\ Len(t) = Len(s) + 1
      /\ \A i \in 1..Len(s) : t[i] = s[i]
      /\ t[Len(s) + 1] = d
  BY <1>1, <1>2, AppendProperties
<1>4. t \in Seq(Range(t))
  <2>1. Len(t) \in Nat /\ t \in [1..Len(t) -> T]
    BY <1>3, LenProperties
  <2>2. t \in [1..Len(t) -> Range(t)]
    BY <2>1 DEF Range
  <2> HIDE DEF t
  <2> QED
    BY <2>1, <2>2, SeqDef
<1> QED
  BY <1>1, <1>3, <1>4 DEF IsList

\* Before the first stage nothing is decided.
LEMMA AgentsStart == iaInit => iaInv
<1> SUFFICES ASSUME iaInit PROVE iaInv
  OBVIOUS
<1>1. iaDecisions = <<>> /\ iaVerdict = "none" /\ IsList(<<>>) /\ Len(iaDecisions) = 0
  BY DEF iaInit, IsList
<1> QED
  BY <1>1 DEF iaInv, GatesAgree

\* The stages by their place in process_invoice.
LEMMA StageNames ==
  /\ Stages[1] = "extractor" /\ Stages[2] = "po_matcher" /\ Stages[3] = "fraud_auditor"
  /\ Stages[4] = "gaap_classifier" /\ Stages[5] = "provenance_signer" /\ Stages[6] = "demo_narrator"
  /\ Stages[7] = "regression_tester" /\ Stages[8] = "audit_watchdog" /\ Len(Stages) = 8
BY DEF Stages

\* The types of the decisions tell the stages apart.
LEMMA StageTypes ==
  /\ TypeOfStage(Stages[1]) = "extracted" /\ TypeOfStage(Stages[2]) = "po_matched"
  /\ TypeOfStage(Stages[3]) = "fraud_assessed" /\ TypeOfStage(Stages[4]) = "gaap_classified"
  /\ TypeOfStage(Stages[5]) = "provenance_signed" /\ TypeOfStage(Stages[6]) = "narrated"
  /\ TypeOfStage(Stages[7]) = "regression_result" /\ TypeOfStage(Stages[8]) = "watchdog_alert"
BY StageNames DEF TypeOfStage

\* An answer is one decision.
LEMMA OkIsOne ==
  ASSUME NEW type, NEW confidence, NEW payload
  PROVE  LET d == Decision(type, confidence, payload)
         IN  /\ Ok(type, confidence, payload) = {d} /\ d.type = type /\ d.payload = payload
BY DEF Ok, Decision

\* An agent refuses, or answers with one decision of its own type.
LEMMA AgentAnswers ==
  ASSUME NEW k \in 1..8, NEW upstream, NEW text
  PROVE  LET answers == Process(Stages[k], upstream, text) IN
         \/ answers = Err
         \/ \E c, p : answers = Ok(TypeOfStage(Stages[k]), c, p)
<1> DEFINE answers == Process(Stages[k], upstream, text)
           Goal == answers = Err \/ \E c, p : answers = Ok(TypeOfStage(Stages[k]), c, p)
<1>1. CASE k = 1
  <2>1. answers = Extract(text)
    BY <1>1, StageNames DEF Process
  <2> QED
    BY <1>1, <2>1, StageTypes, ZenonT(60) DEF Extract
<1>2. CASE k = 2
  <2>1. answers = PoMatch(upstream)
    BY <1>2, StageNames DEF Process
  <2> QED
    BY <1>2, <2>1, StageTypes, ZenonT(60) DEF PoMatch
<1>3. CASE k = 3
  <2>1. answers = FraudAudit(text)
    BY <1>3, StageNames DEF Process
  <2> QED
    BY <1>3, <2>1, StageTypes, ZenonT(60) DEF FraudAudit
<1>4. CASE k = 4
  <2>1. answers = GaapClassify(upstream, text)
    BY <1>4, StageNames DEF Process
  <2> QED
    BY <1>4, <2>1, StageTypes, ZenonT(60) DEF GaapClassify
<1>5. CASE k = 5
  <2>1. answers = ProvenanceSign(upstream)
    BY <1>5, StageNames DEF Process
  <2> QED
    BY <1>5, <2>1, StageTypes, ZenonT(60) DEF ProvenanceSign
<1>6. CASE k = 6
  <2>1. answers = Narrate(upstream, text)
    BY <1>6, StageNames DEF Process
  <2> QED
    BY <1>6, <2>1, StageTypes, ZenonT(60) DEF Narrate
<1>7. CASE k = 7
  <2>1. answers = RegressionTest(upstream)
    BY <1>7, StageNames DEF Process
  <2> DEFINE p == First(upstream, "provenance_signed").payload
             chain == Hex(Hash(p.canonical)) = p.blake3
             sig == VerifyEd25519(p.public_key, Bytes(p.blake3.hex), p.signature)
             told == [verified |-> chain /\ sig, hash_chain |-> chain, signature |-> sig]
  <2>2. answers = IF ~Has(upstream, "provenance_signed") THEN Err
                  ELSE Ok("regression_result", 100, told)
    BY <2>1 DEF RegressionTest
  <2> HIDE DEF told, answers
  <2> QED
    BY <1>7, <2>2, StageTypes, ZenonT(60) DEF answers
<1>8. CASE k = 8
  <2>1. answers = Watch(upstream)
    BY <1>8, StageNames DEF Process
  <2> QED
    BY <1>8, <2>1, StageTypes, ZenonT(60) DEF Watch
<1> HIDE DEF answers
<1> QED
  BY <1>1, <1>2, <1>3, <1>4, <1>5, <1>6, <1>7, <1>8 DEF answers

\* What the auditor writes is what it was told.
LEMMA WrittenBack ==
  ASSUME NEW v
  PROVE  Written(SerializeOutcome(v)) = v
BY DEF Written, SerializeOutcome

\* The assessment read back out of the payload is judged as it was.
LEMMA ReadBackAlike ==
  ASSUME NEW f, f.risk_score # Absent, f.coherence_score # Absent,
         f.debate_rounds \in 0 .. RoundsModulus - 1
  PROVE  Check(FromPayload(f)) = Check(f)
<1> DEFINE g == FromPayload(f)
<1>2. RoundsModulus \in Nat /\ RoundsModulus > 0 /\ Absent = -1
  BY ModulusAssumption DEF MAX_DEBATE_ROUNDS, Absent
<1>3. f.debate_rounds % RoundsModulus = f.debate_rounds /\ f.debate_rounds # Absent
  BY <1>2
<1>4. /\ g.risk_score = f.risk_score /\ g.coherence_score = f.coherence_score
      /\ g.debate_rounds = f.debate_rounds /\ g.findings = f.findings
      /\ g.explicit_halt = f.explicit_halt
  BY <1>3 DEF FromPayload, Default
<1> HIDE DEF g
<1>5. Check(g) = Check(f)
  BY <1>4 DEF Check
<1> QED
  BY <1>5 DEF g

\* So is every fixture: its scores meet the condition its outcome names.
LEMMA FixturesAlike ==
  ASSUME NEW reason
  PROVE  LET p == FixturePayload(reason)
         IN  Written(p.outcome) = Check(FromPayload(p.assessment))
<1> DEFINE p == FixturePayload(reason)
           a == p.assessment
           g == FromPayload(a)
<1>1. RoundsModulus \in Nat /\ RoundsModulus > 5 /\ Absent = -1
  BY ModulusAssumption DEF MAX_DEBATE_ROUNDS, Absent
<1>3. ASSUME a.risk_score \in Nat, a.coherence_score \in Nat, a.debate_rounds \in {1, 5}
      PROVE  Check(FromPayload(a)) = Check(a)
  <2>1. /\ a.risk_score # Absent /\ a.coherence_score # Absent
        /\ a.debate_rounds \in 0 .. RoundsModulus - 1
    BY <1>1, <1>3
  <2> QED
    BY <2>1, ReadBackAlike
<1>4. CASE reason = "none"
  <2>1. /\ a.risk_score = 10 /\ a.coherence_score = 90 /\ a.debate_rounds = 1 /\ a.findings = {}
        /\ a.explicit_halt = FALSE
    BY <1>4 DEF FixturePayload
  <2>2. Written(p.outcome) = "Approve"
    BY <1>4 DEF FixturePayload, Written
  <2> HIDE DEF a
  <2>3. Check(FromPayload(a)) = "Approve"
    BY <1>3, <2>1 DEF Check, RISK_SCORE_HALT, COHERENCE_FLOOR, MAX_DEBATE_ROUNDS
  <2> QED
    BY <2>2, <2>3 DEF a
<1>5. ASSUME reason # "none" PROVE a = FixtureScores(reason) /\ Written(p.outcome) = ReasonOf(reason)
  BY <1>5 DEF FixturePayload, Written
<1>6. CASE reason = "secret_leak_detected"
  <2>1. /\ a.risk_score = 50 /\ a.coherence_score = 70 /\ a.debate_rounds = 1
        /\ a.findings = {"SecretLeak"} /\ a.explicit_halt = FALSE
    BY <1>5, <1>6 DEF FixtureScores
  <2>2. Written(p.outcome) = "SecretLeakDetected"
    BY <1>5, <1>6 DEF ReasonOf
  <2> HIDE DEF a
  <2>3. Check(FromPayload(a)) = "SecretLeakDetected"
    BY <1>3, <2>1 DEF Check, RISK_SCORE_HALT, COHERENCE_FLOOR, MAX_DEBATE_ROUNDS
  <2> QED
    BY <2>2, <2>3 DEF a
<1>7. CASE reason = "coherence_too_low"
  <2>1. /\ a.risk_score = 50 /\ a.coherence_score = 10 /\ a.debate_rounds = 1
        /\ a.findings = {} /\ a.explicit_halt = FALSE
    BY <1>5, <1>7 DEF FixtureScores
  <2>2. Written(p.outcome) = "CoherenceTooLow"
    BY <1>5, <1>7 DEF ReasonOf
  <2> HIDE DEF a
  <2>3. Check(FromPayload(a)) = "CoherenceTooLow"
    BY <1>3, <2>1 DEF Check, RISK_SCORE_HALT, COHERENCE_FLOOR, MAX_DEBATE_ROUNDS
  <2> QED
    BY <2>2, <2>3 DEF a
<1>8. CASE reason = "max_debate_rounds_reached"
  <2>1. /\ a.risk_score = 50 /\ a.coherence_score = 70 /\ a.debate_rounds = 5
        /\ a.findings = {} /\ a.explicit_halt = FALSE
    BY <1>5, <1>8 DEF FixtureScores
  <2>2. Written(p.outcome) = "MaxDebateRoundsReached"
    BY <1>5, <1>8 DEF ReasonOf
  <2> HIDE DEF a
  <2>3. Check(FromPayload(a)) = "MaxDebateRoundsReached"
    BY <1>3, <2>1 DEF Check, RISK_SCORE_HALT, COHERENCE_FLOOR, MAX_DEBATE_ROUNDS
  <2> QED
    BY <2>2, <2>3 DEF a
<1>9. CASE reason = "explicit_halt_requested"
  <2>1. /\ a.risk_score = 50 /\ a.coherence_score = 70 /\ a.debate_rounds = 1
        /\ a.findings = {} /\ a.explicit_halt = TRUE
    BY <1>5, <1>9 DEF FixtureScores
  <2>2. Written(p.outcome) = "ExplicitHaltRequested"
    BY <1>5, <1>9 DEF ReasonOf
  <2> HIDE DEF a
  <2>3. Check(FromPayload(a)) = "ExplicitHaltRequested"
    BY <1>3, <2>1 DEF Check, RISK_SCORE_HALT, COHERENCE_FLOOR, MAX_DEBATE_ROUNDS
  <2> QED
    BY <2>2, <2>3 DEF a
<1>10. CASE reason \notin {"none", "secret_leak_detected", "coherence_too_low",
                          "max_debate_rounds_reached", "explicit_halt_requested"}
  <2>1. /\ a.risk_score = 95 /\ a.coherence_score = 70 /\ a.debate_rounds = 1
        /\ a.findings = {} /\ a.explicit_halt = FALSE
    BY <1>5, <1>10 DEF FixtureScores
  <2>2. Written(p.outcome) = "RiskScoreExceeded"
    BY <1>5, <1>10 DEF ReasonOf
  <2> HIDE DEF a
  <2>3. Check(FromPayload(a)) = "RiskScoreExceeded"
    BY <1>3, <2>1 DEF Check, RISK_SCORE_HALT, COHERENCE_FLOOR, MAX_DEBATE_ROUNDS
  <2> QED
    BY <2>2, <2>3 DEF a
<1> QED
  BY <1>4, <1>6, <1>7, <1>8, <1>9, <1>10

\* A decision that is what its stage owes the later ones can be appended.
LEMMA DecisionKeeps ==
  ASSUME iaInv, iaEnd = "no", NEW d, Take({d}), iaStubs' = iaStubs,
         Len(iaDecisions) = 2
           => Written(d.payload.outcome) = Check(FromPayload(d.payload.assessment)),
         ~iaStubs => d.type = TypeOfStage(Stages[Len(iaDecisions) + 1]),
         ~iaStubs /\ Len(iaDecisions) = 4 => SignedOver(d.payload, iaDecisions),
         ~iaStubs /\ Len(iaDecisions) = 6 => d.payload.verified
  PROVE  iaInv'
<1> DEFINE n == Len(iaDecisions)
           t == Append(iaDecisions, d)
           v == IF Stages[n + 1] = "fraud_auditor"
                THEN Check(FromPayload(d.payload.assessment)) ELSE iaVerdict
<1>1. /\ IsList(t) /\ n \in Nat /\ n < 8 /\ Len(t) = n + 1
      /\ \A i \in 1..n : t[i] = iaDecisions[i]
      /\ t[n + 1] = d
  BY ListGrows DEF iaInv
<1>2. /\ iaDecisions' = t /\ iaVerdict' = v
      /\ iaEnd' = IF v \notin {"none", "Approve"} THEN "halted"
                  ELSE IF n + 1 = Len(Stages) THEN "done" ELSE "no"
  <2>1. {d} # Err /\ (CHOOSE x \in {d} : TRUE) = d
    BY DEF Err
  <2> QED
    BY <2>1 DEF Take
<1>3. Stages[n + 1] = "fraud_auditor" <=> n = 2
  <2> HIDE DEF n, t, v
  <2>1. n \in {0, 1, 2, 3, 4, 5, 6, 7}
    <3>1. n \in Nat /\ n < 8
      BY <1>1
    <3> QED
      BY <3>1
  <2>2. \A k \in {0, 1, 2, 3, 4, 5, 6, 7} : Stages[k + 1] = "fraud_auditor" <=> k = 2
    BY StageNames
  <2> QED
    BY <2>1, <2>2
<1> HIDE DEF n, t, v
<1>4. Len(iaDecisions') <= 8 /\ (iaEnd' = "no" => Len(iaDecisions') < 8)
  BY <1>1, <1>2, StageNames
<1>5. Len(iaDecisions') < 3 => iaVerdict' = "none"
  <2> SUFFICES ASSUME n < 2 PROVE v = "none"
    BY <1>1, <1>2
  <2>1. v = iaVerdict
    BY <1>3 DEF v
  <2>2. n < 3
    BY <1>1
  <2> QED
    BY <2>1, <2>2 DEF iaInv, n
<1>6. GatesAgree'
  <2>1. CASE n = 2
    BY <1>1, <1>2, <1>3, <2>1 DEF GatesAgree, v, n
  <2>2. CASE n >= 3
    <3>1. t[3] = iaDecisions[3] /\ iaVerdict' = iaVerdict
      BY <1>1, <1>2, <1>3, <2>2 DEF v
    <3> QED
      BY <1>1, <1>2, <2>2, <3>1 DEF iaInv, GatesAgree, n
  <2>3. CASE n < 2
    BY <1>1, <1>2, <2>3 DEF GatesAgree
  <2> QED
    BY <1>1, <2>1, <2>2, <2>3
<1>7. ~iaStubs' => \A i \in 1..Len(iaDecisions') : iaDecisions'[i].type = TypeOfStage(Stages[i])
  <2> SUFFICES ASSUME ~iaStubs, NEW i \in 1..(n + 1)
               PROVE  t[i].type = TypeOfStage(Stages[i])
    BY <1>1, <1>2
  <2>1. CASE i = n + 1
    BY <1>1, <2>1 DEF n
  <2>2. CASE i # n + 1
    <3>1. i \in 1..n
      BY <1>1, <2>2
    <3> QED
      BY <1>1, <3>1 DEF iaInv, n
  <2> QED
    BY <2>1, <2>2
<1>8. ~iaStubs' /\ Len(iaDecisions') >= 5 => SignedOver(iaDecisions'[5].payload, iaDecisions')
  <2> SUFFICES ASSUME ~iaStubs, n >= 4 PROVE SignedOver(t[5].payload, t)
    BY <1>1, <1>2
  <2>1. SignedOver(t[5].payload, iaDecisions)
    <3>1. CASE n = 4
      BY <1>1, <3>1 DEF n
    <3>2. CASE n >= 5
      BY <1>1, <3>2 DEF iaInv, n
    <3> QED
      BY <1>1, <3>1, <3>2
  <2>2. \A i \in 1..4 : t[i] = iaDecisions[i]
    BY <1>1
  <2> QED
    BY <2>1, <2>2 DEF SignedOver
<1>9. ~iaStubs' /\ Len(iaDecisions') >= 7 => iaDecisions'[7].payload.verified
  <2> SUFFICES ASSUME ~iaStubs, n >= 6 PROVE t[7].payload.verified
    BY <1>1, <1>2
  <2>1. CASE n = 6
    BY <1>1, <2>1 DEF n
  <2>2. CASE n >= 7
    BY <1>1, <2>2 DEF iaInv, n
  <2> QED
    BY <1>1, <2>1, <2>2
<1> QED
  BY <1>1, <1>2, <1>4, <1>5, <1>6, <1>7, <1>8, <1>9 DEF iaInv

\* An agent's error ends the run where it stands.
LEMMA ErrorKeeps ==
  ASSUME iaInv, Take(Err), iaStubs' = iaStubs
  PROVE  iaInv'
<1>1. UNCHANGED <<iaDecisions, iaVerdict>> /\ iaEnd' = "failed"
  BY DEF Take
<1> QED
  BY <1>1 DEF iaInv, GatesAgree

\* The tester finds the signer's decision and accepts it.
LEMMA TesterAccepts ==
  ASSUME iaInv, ~iaStubs, Len(iaDecisions) = 6, NEW text
  PROVE  \E d : /\ Process(Stages[7], iaDecisions, text) = {d}
                /\ d.type = TypeOfStage(Stages[7]) /\ d.payload.verified
<1>1. \A i \in 1..6 : iaDecisions[i].type = TypeOfStage(Stages[i])
  BY DEF iaInv
<1>2. /\ iaDecisions[5].type = "provenance_signed"
      /\ \A i \in 1..6 : iaDecisions[i].type = "provenance_signed" => i = 5
  <2>1. /\ iaDecisions[1].type = "extracted" /\ iaDecisions[2].type = "po_matched"
        /\ iaDecisions[3].type = "fraud_assessed" /\ iaDecisions[4].type = "gaap_classified"
        /\ iaDecisions[5].type = "provenance_signed" /\ iaDecisions[6].type = "narrated"
    BY <1>1, StageTypes
  <2> QED
    BY <2>1
<1>3. DOMAIN iaDecisions = 1..6
  BY LenProperties DEF iaInv, IsList
<1>4. Has(iaDecisions, "provenance_signed")
  BY <1>2, <1>3 DEF Has
<1>5. First(iaDecisions, "provenance_signed") = iaDecisions[5]
  <2> DEFINE P(i) == /\ iaDecisions[i].type = "provenance_signed"
                     /\ \A j \in 1 .. i - 1 : iaDecisions[j].type # "provenance_signed"
  <2>1. P(5) /\ \A i \in 1..6 : P(i) => i = 5
    BY <1>2
  <2> HIDE DEF P
  <2>2. (CHOOSE i \in 1..6 : P(i)) = 5
    BY <2>1
  <2> QED
    BY <1>3, <2>2 DEF First, P
<1> DEFINE p == iaDecisions[5].payload
           chain == Hex(Hash(p.canonical)) = p.blake3
           sig == VerifyEd25519(p.public_key, Bytes(p.blake3.hex), p.signature)
           told == [verified |-> chain /\ sig, hash_chain |-> chain, signature |-> sig]
<1>6. /\ p.blake3 = Hex(Hash(p.canonical)) /\ p.public_key = SigningKey
      /\ p.signature = Sign(SigningKey, Bytes(Hash(p.canonical)))
  BY DEF iaInv, SignedOver
<1>7. chain /\ sig
  <2>1. Hex(Hash(p.canonical)).hex = Hash(p.canonical)
    BY DEF Hex
  <2> HIDE DEF p
  <2> QED
    BY <1>6, <2>1 DEF VerifyEd25519
<1>8. Process(Stages[7], iaDecisions, text) = Ok("regression_result", 100, told)
  <2>1. Process(Stages[7], iaDecisions, text) = RegressionTest(iaDecisions)
    BY StageNames DEF Process
  <2> QED
    BY <1>4, <1>5, <2>1 DEF RegressionTest
<1>9. told.verified
  BY <1>7
<1> HIDE DEF told
<1> DEFINE d == Decision("regression_result", 100, told)
<1>10. Ok("regression_result", 100, told) = {d} /\ d.type = "regression_result" /\ d.payload = told
  BY OkIsOne
<1> HIDE DEF d
<1> QED
  BY <1>8, <1>9, <1>10, StageTypes

\* The signer signs all there is.
LEMMA SignerSigns ==
  ASSUME iaInv, Len(iaDecisions) = 4, NEW text
  PROVE  \E d : /\ Process(Stages[5], iaDecisions, text) = {d}
                /\ d.type = TypeOfStage(Stages[5]) /\ SignedOver(d.payload, iaDecisions)
<1> DEFINE h == Hash(iaDecisions)
           p == [canonical |-> iaDecisions, blake3 |-> Hex(h),
                 signature |-> Sign(SigningKey, Bytes(h)), public_key |-> SigningKey]
           d == Decision("provenance_signed", 100, p)
<1>1. iaDecisions # <<>>
  OBVIOUS
<1>2. Process(Stages[5], iaDecisions, text) = Ok("provenance_signed", 100, p)
  <2>1. Process(Stages[5], iaDecisions, text) = ProvenanceSign(iaDecisions)
    BY StageNames DEF Process
  <2> QED
    BY <1>1, <2>1 DEF ProvenanceSign
<1>3. SignedOver(p, iaDecisions)
  BY DEF SignedOver, iaInv
<1> HIDE DEF p
<1>4. Ok("provenance_signed", 100, p) = {d} /\ d.type = "provenance_signed" /\ d.payload = p
  BY OkIsOne
<1> HIDE DEF d
<1> QED
  BY <1>2, <1>3, <1>4, StageTypes

\* The auditor's own verdict is the one read back out of its payload.
LEMMA AuditorAgrees ==
  ASSUME NEW up, NEW text, text.body \in Assessments \cup {Garbage},
         Process(Stages[3], up, text) # Err
  PROVE  \E d : /\ Process(Stages[3], up, text) = {d} /\ d.type = TypeOfStage(Stages[3])
                /\ Written(d.payload.outcome) = Check(FromPayload(d.payload.assessment))
<1> DEFINE b == StripCodeFences(text)
           p == [assessment |-> b.fields, outcome |-> SerializeOutcome(Check(b.fields))]
           d == Decision("fraud_assessed", 85, p)
<1>1. Process(Stages[3], up, text) = FraudAudit(text)
  BY StageNames DEF Process
<1>2. b.kind = "assessment" /\ Process(Stages[3], up, text) = Ok("fraud_assessed", 85, p)
  BY <1>1 DEF FraudAudit
<1>3. b \in Assessments
  BY <1>2 DEF StripCodeFences, Garbage
<1>4. Check(FromPayload(b.fields)) = Check(b.fields)
  <2> HIDE DEF b
  <2>1. /\ b.fields.risk_score # Absent /\ b.fields.coherence_score # Absent
        /\ b.fields.debate_rounds \in 0 .. RoundsModulus - 1
    BY <1>3, AssessmentsAssumption
  <2> QED
    BY <2>1, ReadBackAlike
<1>5. Written(p.outcome) = Check(FromPayload(p.assessment))
  <2> HIDE DEF b
  <2>1. p.outcome = SerializeOutcome(Check(b.fields)) /\ p.assessment = b.fields
    OBVIOUS
  <2> HIDE DEF p
  <2> QED
    BY <1>4, <2>1, WrittenBack
<1> HIDE DEF p
<1>6. Ok("fraud_assessed", 85, p) = {d} /\ d.type = "fraud_assessed" /\ d.payload = p
  BY OkIsOne
<1> HIDE DEF d
<1> QED
  BY <1>2, <1>5, <1>6, StageTypes

\* The bodies a model may write are those of the stage that runs.
LEMMA NextStage ==
  ASSUME NEW n \in Nat, n < 8
  PROVE  Min({n + 1, Len(Stages)}) = n + 1
<1>1. Len(Stages) = 8
  BY StageNames
<1>2. \A y \in {n + 1, 8} : n + 1 <= y
  OBVIOUS
<1>3. \A x \in {n + 1, 8} : (\A y \in {n + 1, 8} : x <= y) => x = n + 1
  OBVIOUS
<1> QED
  BY <1>1, <1>2, <1>3 DEF Min

\* A stage run by an agent of the crate.
LEMMA RealKeeps ==
  ASSUME iaInv, NEW fence, NEW body \in Bodies(Stages[Min({Len(iaDecisions) + 1, Len(Stages)})]),
         RunAgent(fence, body)
  PROVE  iaInv'
<1> DEFINE n == Len(iaDecisions)
           text == [fence |-> fence, body |-> body]
           answers == Process(Stages[n + 1], iaDecisions, text)
<1>1. iaEnd = "no" /\ ~iaStubs /\ iaStubs' = iaStubs /\ Take(answers)
  BY DEF RunAgent
<1>2. n \in Nat /\ n < 8
  BY <1>1, LenProperties DEF iaInv, IsList
<1>3. text.body = body /\ body \in Bodies(Stages[n + 1])
  BY <1>2, NextStage
<1> HIDE DEF text
<1>4. CASE answers = Err
  BY <1>1, <1>4, ErrorKeeps
<1>5. CASE answers # Err
  <2>1. PICK d : /\ answers = {d} /\ d.type = TypeOfStage(Stages[n + 1])
                 /\ n = 2 => Written(d.payload.outcome) = Check(FromPayload(d.payload.assessment))
                 /\ n = 4 => SignedOver(d.payload, iaDecisions)
                 /\ n = 6 => d.payload.verified
    <3>1. CASE n = 2
      <4>1. Stages[n + 1] = Stages[3] /\ Bodies(Stages[n + 1]) = Assessments \cup {Garbage}
        BY <3>1, StageNames DEF Bodies
      <4>2. Process(Stages[3], iaDecisions, text) # Err /\ text.body \in Assessments \cup {Garbage}
        BY <1>3, <1>5, <4>1
      <4>3. PICK d : /\ Process(Stages[3], iaDecisions, text) = {d} /\ d.type = TypeOfStage(Stages[3])
                     /\ Written(d.payload.outcome) = Check(FromPayload(d.payload.assessment))
        BY <4>2, AuditorAgrees
      <4> QED
        BY <3>1, <4>1, <4>3
    <3>2. CASE n = 4
      <4>1. Stages[n + 1] = Stages[5]
        BY <3>2
      <4>2. PICK d : /\ Process(Stages[5], iaDecisions, text) = {d} /\ d.type = TypeOfStage(Stages[5])
                     /\ SignedOver(d.payload, iaDecisions)
        BY <3>2, SignerSigns
      <4> QED
        BY <3>2, <4>1, <4>2
    <3>3. CASE n = 6
      <4>1. Stages[n + 1] = Stages[7]
        BY <3>3
      <4>2. PICK d : /\ Process(Stages[7], iaDecisions, text) = {d} /\ d.type = TypeOfStage(Stages[7])
                     /\ d.payload.verified
        BY <1>1, <3>3, TesterAccepts
      <4> QED
        BY <3>3, <4>1, <4>2
    <3>4. CASE n \notin {2, 4, 6}
      <4> HIDE DEF n
      <4>1. n + 1 \in 1..8
        BY <1>2
      <4>2. PICK c, p : answers = Ok(TypeOfStage(Stages[n + 1]), c, p)
        BY <1>5, <4>1, AgentAnswers
      <4> DEFINE d == Decision(TypeOfStage(Stages[n + 1]), c, p)
      <4>3. answers = {d} /\ d.type = TypeOfStage(Stages[n + 1])
        BY <4>2, OkIsOne
      <4> HIDE DEF d
      <4> QED
        BY <3>4, <4>3
    <3> QED
      BY <3>1, <3>2, <3>3, <3>4
  <2> QED
    BY <1>1, <2>1, DecisionKeeps
<1> QED
  BY <1>4, <1>5

\* The stub of the auditor tells what its fixture's scores come to.
LEMMA StubKeeps ==
  ASSUME iaInv, NEW reason, RunStub(reason)
  PROVE  iaInv'
<1> DEFINE n == Len(iaDecisions)
           p == IF Stages[n + 1] = "fraud_auditor" THEN FixturePayload(reason)
                ELSE [outcome |-> [json |-> "string", value |-> "approve"]]
           d == Decision(TypeOfStage(Stages[n + 1]), 90, p)
<1>1. /\ iaEnd = "no" /\ iaStubs /\ iaStubs' = iaStubs
      /\ Take(Ok(TypeOfStage(Stages[n + 1]), 90, p))
  BY DEF RunStub, StubProcess
<1>2. n = 2 => p = FixturePayload(reason)
  BY StageNames
<1> HIDE DEF p
<1>3. Ok(TypeOfStage(Stages[n + 1]), 90, p) = {d} /\ d.payload = p
  BY OkIsOne
<1> HIDE DEF d
<1>4. n = 2 => Written(d.payload.outcome) = Check(FromPayload(d.payload.assessment))
  BY <1>2, <1>3, FixturesAlike
<1>5. Take({d})
  BY <1>1, <1>3
<1> QED
  BY <1>1, <1>4, <1>5, DecisionKeeps

\* Every stage hands on what the later ones rely on.
LEMMA AgentsStep == iaInv /\ [iaNext]_iaVars => iaInv'
<1> SUFFICES ASSUME iaInv, [iaNext]_iaVars PROVE iaInv'
  OBVIOUS
<1>1. CASE RegisterStubs
  <2>1. UNCHANGED <<iaDecisions, iaEnd, iaVerdict>> /\ iaDecisions = <<>>
    BY <1>1 DEF RegisterStubs
  <2>2. iaStubs'
    BY <1>1 DEF RegisterStubs
  <2> QED
    BY <2>1, <2>2 DEF iaInv, GatesAgree
<1>2. ASSUME NEW fence \in {"none", "closed", "open"},
             NEW body \in Bodies(Stages[Min({Len(iaDecisions) + 1, Len(Stages)})]),
             RunAgent(fence, body)
      PROVE  iaInv'
  BY <1>2, RealKeeps
<1>3. ASSUME NEW reason, RunStub(reason) PROVE iaInv'
  BY <1>3, StubKeeps
<1>4. CASE UNCHANGED iaVars
  <2>1. UNCHANGED <<iaDecisions, iaEnd, iaVerdict>>
    BY <1>4 DEF iaVars
  <2>2. iaStubs' = iaStubs
    BY <1>4 DEF iaVars
  <2> QED
    BY <2>1, <2>2 DEF iaInv, GatesAgree
<1> QED
  BY <1>1, <1>2, <1>3, <1>4 DEF iaNext

\* Then the tester's verdict and the signed prefix are as they should be.
LEMMA ChainVerifies == iaInv => HonestChainVerifies
<1> SUFFICES ASSUME iaInv, ~iaStubs, Len(iaDecisions) >= 7
             PROVE  /\ iaDecisions[7].payload.verified
                    /\ iaDecisions[5].payload.canonical = SubSeq(iaDecisions, 1, 4)
  BY DEF HonestChainVerifies
<1> DEFINE c == iaDecisions[5].payload.canonical
           T == Range(c) \cup Range(iaDecisions)
           s == SubSeq(iaDecisions, 1, 4)
<1>1. iaDecisions[7].payload.verified
  BY DEF iaInv
<1>2. IsList(iaDecisions) /\ Len(iaDecisions) \in Nat
  BY LenProperties DEF iaInv, IsList
<1>3. IsList(c) /\ Len(c) = 4 /\ \A i \in 1..4 : c[i] = iaDecisions[i]
  BY <1>2 DEF iaInv, SignedOver
<1>4. c \in Seq(T) /\ iaDecisions \in Seq(T)
  <2>1. c \in Seq(Range(c)) /\ iaDecisions \in Seq(Range(iaDecisions))
    BY <1>2, <1>3 DEF IsList
  <2>2. Range(c) \subseteq T /\ Range(iaDecisions) \subseteq T
    OBVIOUS
  <2> HIDE DEF c, T
  <2> QED
    BY <2>1, <2>2, SeqMonotonic
<1> HIDE DEF c, T
<1>5. s \in Seq(T) /\ Len(s) = 4 /\ \A i \in 1..4 : s[i] = iaDecisions[i]
  BY <1>2, <1>4, SubSeqProperties
<1>6. c = s
  <2> HIDE DEF s
  <2>1. Len(c) = Len(s) /\ \A i \in 1..Len(c) : c[i] = s[i]
    BY <1>3, <1>5
  <2>2. c \in Seq(T) /\ s \in Seq(T)
    BY <1>4, <1>5
  <2> QED
    BY <2>1, <2>2, SeqEqual, ZenonT(60)
<1> QED
  BY <1>1, <1>6 DEF c

-----------------------------------------------------------------------------
(* LlmCalls                                                                *)

\* The calls that were recorded, and those of them with content.
Told == {c \in Calls : Reported(c)}
ToldOk == {c \in Calls : Reported(c) /\ lmCall[c].result = "ok"}

CallOK(s) ==
  /\ DOMAIN s = {"at", "agent", "attempt", "result", "how", "records"}
  /\ s.at # "done" => s.records = 0

\* The place the next latency goes to, and whether the ring has wrapped.
RingOK(s, log) ==
  /\ log \in Seq(Latencies)
  /\ DOMAIN s.ring = 0 .. LATENCY_RING_CAP - 1 /\ s.ring_idx \in 0 .. LATENCY_RING_CAP - 1
  /\ s.ring_filled \in BOOLEAN
  /\ s.ring_filled <=> Len(log) >= LATENCY_RING_CAP
  /\ ~s.ring_filled => s.ring_idx = Len(log)
  /\ \A age \in 0 .. RingLen(s) - 1 : s.ring[Slot(s, age)] = log[Len(log) - age]

\* No call is made before the routing table is there, which is built once.
lmInv ==
  /\ DOMAIN lmCall = Calls /\ \A c \in Calls : CallOK(lmCall[c])
  /\ DOMAIN lmTable = {} => \A c \in Calls : lmCall[c].at = "idle"
  /\ \A c \in Calls : lmCall[c].records = IF Reported(c) THEN 1 ELSE 0
  /\ lmSink.calls = Cardinality(Told) /\ lmSink.successes = Cardinality(ToldOk)
  /\ RingOK(lmSink, lmLog)

\* The reported calls are finitely many.
LEMMA ToldIsFinite ==
  IsFiniteSet(Told) /\ IsFiniteSet(ToldOk) /\ Cardinality(Told) \in Nat /\ Cardinality(ToldOk) \in Nat
<1>1. Told \subseteq Calls /\ ToldOk \subseteq Calls
  BY DEF Told, ToldOk
<1>2. IsFiniteSet(Told) /\ IsFiniteSet(ToldOk)
  BY <1>1, FiniteCallsAssumption, FS_Subset
<1> QED
  BY <1>2, FS_CardinalityType

\* Nothing is counted and the ring is empty.
LEMMA MetricsStart == lmInit => lmInv
<1> SUFFICES ASSUME lmInit PROVE lmInv
  OBVIOUS
<1>1. /\ DOMAIN lmCall = Calls /\ \A c \in Calls : CallOK(lmCall[c])
      /\ \A c \in Calls : lmCall[c].at = "idle" /\ lmCall[c].records = 0
  BY DEF lmInit, NoCall, CallOK
<1>2. /\ \A c \in Calls : ~Reported(c)
      /\ lmSink.calls = Cardinality(Told) /\ lmSink.successes = Cardinality(ToldOk)
  <2>1. \A c \in Calls : ~Reported(c)
    BY <1>1 DEF Reported
  <2>2. Told = {} /\ ToldOk = {}
    BY <2>1 DEF Told, ToldOk
  <2>3. lmSink.calls = 0 /\ lmSink.successes = 0
    BY DEF lmInit, NoMetrics
  <2> QED
    BY <2>1, <2>2, <2>3, FS_EmptySet
<1>3. RingOK(lmSink, lmLog)
  <2>1. /\ lmSink.ring = [i \in 0 .. LATENCY_RING_CAP - 1 |-> 0] /\ lmSink.ring_idx = 0
        /\ lmSink.ring_filled = FALSE /\ lmLog = <<>>
    BY DEF lmInit, NoMetrics
  <2>2. RingLen(lmSink) = 0
    BY <2>1 DEF RingLen
  <2>3. lmLog \in Seq(Latencies) /\ Len(lmLog) = 0
    BY <2>1, EmptySeq
  <2>4. DOMAIN lmSink.ring = 0 .. LATENCY_RING_CAP - 1 /\ lmSink.ring_idx \in 0 .. LATENCY_RING_CAP - 1
    BY <2>1, LatencyRingAssumption
  <2>5. ~(Len(lmLog) >= LATENCY_RING_CAP) /\ \A age \in 0 .. RingLen(lmSink) - 1 : FALSE
    BY <2>2, <2>3, LatencyRingAssumption
  <2>6. lmSink.ring_filled \in BOOLEAN /\ ~lmSink.ring_filled
    BY <2>1
  <2> QED
    BY <2>1, <2>3, <2>4, <2>5, <2>6, ZenonT(60) DEF RingOK
<1> QED
  BY <1>1, <1>2, <1>3 DEF lmInv

\* One more latency goes over the oldest, and the others grow older by one.
LEMMA RecordKeeps ==
  ASSUME NEW s, NEW log, RingOK(s, log), NEW o, o.latency \in Latencies
  PROVE  RingOK(RecordCall(s, o), Append(log, o.latency))
<1> DEFINE cap == LATENCY_RING_CAP
           i == s.ring_idx
           t == RecordCall(s, o)
           new == Append(log, o.latency)
           n == Len(log)
<1>1. cap \in Nat /\ cap > 0 /\ i \in 0 .. cap - 1 /\ n \in Nat /\ log \in Seq(Latencies)
  BY LatencyRingAssumption, LenProperties DEF RingOK
<1>2. /\ new \in Seq(Latencies) /\ Len(new) = n + 1
      /\ \A k \in 1..n : new[k] = log[k]
      /\ new[n + 1] = o.latency
  BY <1>1, AppendProperties
<1>3. /\ t.ring = [s.ring EXCEPT ![i] = o.latency] /\ t.ring_idx = (i + 1) % cap
      /\ t.ring_filled = (s.ring_filled \/ (i + 1) % cap = 0)
  BY DEF RecordCall
<1>a. /\ DOMAIN s.ring = 0 .. cap - 1 /\ s.ring_filled \in BOOLEAN
      /\ s.ring_filled <=> n >= cap
      /\ ~s.ring_filled => i = n
  BY DEF RingOK
<1>b. \A age \in 0 .. RingLen(s) - 1 : s.ring[Slot(s, age)] = log[n - age]
  BY DEF RingOK
<1>c. RingLen(s) = IF s.ring_filled THEN cap ELSE i
  BY DEF RingLen
<1>d. RingLen(t) = IF t.ring_filled THEN cap ELSE t.ring_idx
  BY DEF RingLen
<1>e. \A age : Slot(s, age) = IF age < i THEN i - 1 - age ELSE cap + i - 1 - age
  BY DEF Slot
<1>f. \A age : Slot(t, age) = IF age < t.ring_idx THEN t.ring_idx - 1 - age ELSE cap + t.ring_idx - 1 - age
  BY DEF Slot
<1> HIDE DEF cap, i, t, new, n
<1>4. (i + 1) % cap = IF i + 1 = cap THEN 0 ELSE i + 1
  BY <1>1
<1>5. t.ring_idx = IF i + 1 = cap THEN 0 ELSE i + 1
  BY <1>3, <1>4
<1>6. t.ring_filled <=> s.ring_filled \/ i + 1 = cap
  <2>1. (i + 1) % cap = 0 <=> i + 1 = cap
    BY <1>1, <1>4
  <2> QED
    BY <1>3, <2>1, ZenonT(60)
<1>7. /\ DOMAIN t.ring = 0 .. cap - 1 /\ t.ring[i] = o.latency
      /\ \A j \in 0 .. cap - 1 : j # i => t.ring[j] = s.ring[j]
  BY <1>1, <1>3, <1>a
<1>8. /\ t.ring_idx \in 0 .. cap - 1 /\ t.ring_filled \in BOOLEAN
      /\ t.ring_filled <=> n + 1 >= cap
      /\ ~t.ring_filled => t.ring_idx = n + 1
  <2>1. t.ring_filled \in BOOLEAN
    BY <1>3
  <2>2. t.ring_idx \in 0 .. cap - 1
    BY <1>1, <1>5
  <2>3. t.ring_filled <=> n + 1 >= cap
    BY <1>1, <1>6, <1>a
  <2>4. ~t.ring_filled => t.ring_idx = n + 1
    BY <1>1, <1>5, <1>6, <1>a
  <2> QED
    BY <2>1, <2>2, <2>3, <2>4
<1>9. ASSUME NEW age \in 0 .. RingLen(t) - 1
      PROVE  t.ring[Slot(t, age)] = new[n + 1 - age]
  <2>1. age \in Nat /\ age < cap /\ (~t.ring_filled => age < n + 1)
    BY <1>1, <1>8, <1>d
  <2>2. CASE age = 0
    <3>1. Slot(t, age) = i
      BY <1>1, <1>5, <1>f, <2>2
    <3> QED
      BY <1>1, <1>2, <1>7, <2>2, <3>1
  <2>3. CASE age # 0
    <3> DEFINE old == age - 1
    <3>1. old \in 0 .. RingLen(s) - 1 /\ old \in Nat /\ old < cap
      BY <1>1, <1>5, <1>6, <1>8, <1>a, <1>c, <1>d, <2>1, <2>3
    <3>2. Slot(t, age) = Slot(s, old)
      BY <1>1, <1>5, <1>e, <1>f, <2>1, <2>3
    <3>3. Slot(s, old) \in 0 .. cap - 1 /\ Slot(s, old) # i
      BY <1>1, <1>e, <2>1, <2>3
    <3>4. s.ring[Slot(s, old)] = log[n - old]
      BY <1>b, <3>1
    <3>5. n + 1 - age = n - old /\ n - old \in 1..n
      BY <1>1, <1>8, <1>a, <1>c, <2>1, <2>3, <3>1
    <3> HIDE DEF old
    <3>6. new[n - old] = log[n - old]
      BY <1>2, <3>5
    <3>7. t.ring[Slot(s, old)] = s.ring[Slot(s, old)]
      BY <1>7, <3>3
    <3> QED
      BY <3>2, <3>4, <3>5, <3>6, <3>7
  <2> QED
    BY <2>2, <2>3
<1>10. RingOK(t, new)
  <2>1. \A age \in 0 .. RingLen(t) - 1 : t.ring[Slot(t, age)] = new[Len(new) - age]
    <3> SUFFICES ASSUME NEW age \in 0 .. RingLen(t) - 1
                 PROVE  t.ring[Slot(t, age)] = new[Len(new) - age]
      OBVIOUS
    <3>1. age \in Int /\ n \in Int /\ Len(new) = n + 1
      BY <1>1, <1>2
    <3>2. Len(new) - age = n + 1 - age
      BY <3>1
    <3>3. t.ring[Slot(t, age)] = new[n + 1 - age]
      BY <1>9
    <3> QED
      BY <3>2, <3>3, ZenonT(60)
  <2>2. (t.ring_filled <=> Len(new) >= cap) /\ (~t.ring_filled => t.ring_idx = Len(new))
    BY <1>2, <1>8
  <2> QED
    BY <1>2, <1>7, <1>8, <2>1, <2>2, ZenonT(60) DEF RingOK, cap
<1> QED
  BY <1>10 DEF t, new

\* A step of one call leaves what the others reported.
LEMMA OthersStay ==
  ASSUME lmInv, NEW c \in Calls, lmCall[c].at # "done", NEW s, CallOK(s),
         lmCall' = [lmCall EXCEPT ![c] = s], lmTable' = lmTable
  PROVE  /\ DOMAIN lmCall' = Calls /\ lmCall'[c] = s /\ \A d \in Calls : CallOK(lmCall'[d])
         /\ \A d \in Calls \ {c} : lmCall'[d] = lmCall[d] /\ (Reported(d)' <=> Reported(d))
         /\ c \notin Told /\ c \notin ToldOk
         /\ Told' = Told \cup {d \in {c} : Reported(d)'}
         /\ ToldOk' = ToldOk \cup {d \in {c} : Reported(d)' /\ s.result = "ok"}
<1>1. /\ DOMAIN lmCall' = Calls /\ lmCall'[c] = s
      /\ \A d \in Calls \ {c} : lmCall'[d] = lmCall[d]
  BY DEF lmInv
<1>2. \A d \in Calls : CallOK(lmCall'[d])
  BY <1>1 DEF lmInv
<1>3. \A d \in Calls \ {c} : Reported(d)' <=> Reported(d)
  BY <1>1 DEF Reported, Backend
<1>4. c \notin Told /\ c \notin ToldOk
  BY DEF Told, ToldOk, Reported
<1>5. Told' = Told \cup {d \in {c} : Reported(d)'}
  BY <1>3, <1>4 DEF Told
<1>6. ToldOk' = ToldOk \cup {d \in {c} : Reported(d)' /\ s.result = "ok"}
  BY <1>1, <1>3, <1>4 DEF ToldOk
<1> QED
  BY <1>1, <1>2, <1>3, <1>4, <1>5, <1>6

\* A call ends once; then, and only then, it is recorded if it is to be.
LEMMA SettleKeeps ==
  ASSUME lmInv, DOMAIN lmTable # {}, NEW c \in Calls, lmCall[c].at # "done", NEW how, NEW result,
         NEW reports \in BOOLEAN, reports <=> how \in {"answered", "refused", "limited"},
         NEW latency, reports => latency \in Latencies, NEW tokens,
         Settle(c, how, result, reports, latency, tokens)
  PROVE  lmInv'
<1> DEFINE told == reports /\ Backend(c).metered
           o == [success |-> result = "ok", latency |-> latency,
                 tokens |-> tokens, model |-> Backend(c).model]
           one == IF told THEN 1 ELSE 0
           s == [lmCall[c] EXCEPT !.at = "done", !.how = how, !.result = result,
                                  !.records = @ + one]
<1>1. CallOK(lmCall[c]) /\ lmCall[c].records = 0
  BY DEF lmInv, CallOK
<1>2. lmCall' = [lmCall EXCEPT ![c] = s] /\ lmTable' = lmTable
  BY DEF Settle
<1>3. /\ CallOK(s) /\ s.at = "done" /\ s.agent = lmCall[c].agent /\ s.how = how
      /\ s.result = result /\ s.records = one
  <2>1. /\ DOMAIN s = {"at", "agent", "attempt", "result", "how", "records"} /\ s.at = "done"
        /\ s.records = 0 + one /\ s.agent = lmCall[c].agent /\ s.how = how /\ s.result = result
    BY <1>1 DEF CallOK
  <2>2. 0 + one = one
    OBVIOUS
  <2> QED
    BY <2>1, <2>2 DEF CallOK
<1> HIDE DEF s
<1>4. /\ DOMAIN lmCall' = Calls /\ lmCall'[c] = s /\ \A d \in Calls : CallOK(lmCall'[d])
      /\ \A d \in Calls \ {c} : lmCall'[d] = lmCall[d] /\ (Reported(d)' <=> Reported(d))
      /\ c \notin Told /\ c \notin ToldOk
      /\ Told' = Told \cup {d \in {c} : Reported(d)'}
      /\ ToldOk' = ToldOk \cup {d \in {c} : Reported(d)' /\ s.result = "ok"}
  BY <1>2, <1>3, OthersStay
<1>5. Reported(c)' <=> told
  BY <1>2, <1>3, <1>4 DEF Reported, Backend
<1>6. \A d \in Calls : lmCall'[d].records = IF Reported(d)' THEN 1 ELSE 0
  BY <1>3, <1>4, <1>5 DEF lmInv
<1>7. DOMAIN lmTable' # {}
  BY <1>2
<1>8. lmSink.calls = Cardinality(Told) /\ lmSink.successes = Cardinality(ToldOk)
  BY DEF lmInv
<1>9. /\ lmSink'.calls = Cardinality(Told') /\ lmSink'.successes = Cardinality(ToldOk')
      /\ RingOK(lmSink', lmLog')
  <2>1. CASE told
    <3>1. lmSink' = RecordCall(lmSink, o) /\ lmLog' = Append(lmLog, latency)
      BY <2>1 DEF Settle
    <3>2. o.latency = latency /\ latency \in Latencies /\ (o.success <=> result = "ok")
      BY <2>1
    <3> HIDE DEF o
    <3>3. /\ lmSink'.calls = lmSink.calls + 1
          /\ lmSink'.successes = lmSink.successes + (IF result = "ok" THEN 1 ELSE 0)
      BY <3>1, <3>2 DEF RecordCall
    <3>4. RingOK(lmSink', lmLog')
      BY <3>1, <3>2, RecordKeeps DEF lmInv
    <3>a. Told' = Told \cup {c}
      BY <1>4, <1>5, <2>1
    <3>5. Cardinality(Told') = Cardinality(Told) + 1
      BY <1>4, <3>a, ToldIsFinite, FS_AddElement
    <3>6. CASE result = "ok"
      <4>a. ToldOk' = ToldOk \cup {c}
        BY <1>3, <1>4, <1>5, <2>1, <3>6
      <4>1. Cardinality(ToldOk') = Cardinality(ToldOk) + 1
        BY <1>4, <4>a, ToldIsFinite, FS_AddElement
      <4> QED
        BY <1>8, <3>3, <3>4, <3>5, <3>6, <4>1
    <3>7. CASE result # "ok"
      <4>1. ToldOk' = ToldOk
        BY <1>3, <1>4, <3>7
      <4>2. lmSink.successes + 0 = lmSink.successes
        BY <1>8, ToldIsFinite
      <4> QED
        BY <1>8, <3>3, <3>4, <3>5, <3>7, <4>1, <4>2
    <3> QED
      BY <3>6, <3>7
  <2>2. CASE ~told
    <3>1. lmSink' = lmSink /\ lmLog' = lmLog
      BY <2>2 DEF Settle
    <3>2. Told' = Told /\ ToldOk' = ToldOk
      BY <1>4, <1>5, <2>2
    <3> QED
      BY <1>8, <3>1, <3>2 DEF lmInv
  <2> QED
    BY <2>1, <2>2
<1> QED
  BY <1>4, <1>6, <1>7, <1>9 DEF lmInv

\* A step of a call that goes on, or that a mock ends.
LEMMA UnreportedKeeps ==
  ASSUME lmInv, DOMAIN lmTable # {}, NEW c \in Calls, NEW s, CallOK(s), s.records = 0,
         s.at # "done" \/ s.how = "mocked", lmCall[c].at # "done",
         lmCall' = [lmCall EXCEPT ![c] = s], UNCHANGED <<lmTable, lmSink, lmLog>>
  PROVE  lmInv'
<1>1. /\ DOMAIN lmCall' = Calls /\ lmCall'[c] = s /\ \A d \in Calls : CallOK(lmCall'[d])
      /\ \A d \in Calls \ {c} : lmCall'[d] = lmCall[d] /\ (Reported(d)' <=> Reported(d))
      /\ Told' = Told \cup {d \in {c} : Reported(d)'}
      /\ ToldOk' = ToldOk \cup {d \in {c} : Reported(d)' /\ s.result = "ok"}
  BY OthersStay
<1>2. ~Reported(c)'
  BY <1>1 DEF Reported
<1>3. Told' = Told /\ ToldOk' = ToldOk
  BY <1>1, <1>2
<1>4. \A d \in Calls : lmCall'[d].records = IF Reported(d)' THEN 1 ELSE 0
  BY <1>1, <1>2 DEF lmInv
<1> QED
  BY <1>1, <1>3, <1>4 DEF lmInv

\* Every step of a call leaves the sink in step with the calls.
LEMMA MetricsStep == lmInv /\ [lmNext]_lmVars => lmInv'
<1> SUFFICES ASSUME lmInv, [lmNext]_lmVars PROVE lmInv'
  OBVIOUS
<1>0. \A c \in Calls : /\ CallOK(lmCall[c])
                       /\ lmCall[c].at # "done" => lmCall[c].records = 0
  BY DEF lmInv, CallOK
<1>1. ASSUME UNCHANGED <<lmTable, lmCall, lmSink, lmLog>> PROVE lmInv'
  <2>1. \A c \in Calls : Reported(c)' <=> Reported(c)
    BY <1>1 DEF Reported, Backend
  <2>2. Told' = Told /\ ToldOk' = ToldOk
    BY <1>1, <2>1 DEF Told, ToldOk
  <2> QED
    BY <1>1, <2>1, <2>2 DEF lmInv
<1>2. ASSUME NEW keys, NEW file, Boot(keys, file) PROVE lmInv'
  <2>1. DOMAIN lmTable = {} /\ UNCHANGED <<lmCall, lmSink, lmLog>>
    BY <1>2 DEF Boot
  <2>2. \A c \in Calls : lmCall[c].at = "idle"
    BY <2>1 DEF lmInv
  <2>3. \A c \in Calls : ~Reported(c) /\ ~Reported(c)'
    BY <2>1, <2>2 DEF Reported
  <2>4. Told' = Told /\ ToldOk' = ToldOk
    BY <2>1, <2>3 DEF Told, ToldOk
  <2> QED
    BY <2>1, <2>2, <2>3, <2>4 DEF lmInv
<1>3. ASSUME NEW c \in Calls, NEW who, Complete(c, who) PROVE lmInv'
  <2> DEFINE s == [NoCall EXCEPT !.at = "send", !.agent = who]
  <2>1. /\ lmCall[c].at # "done" /\ lmCall' = [lmCall EXCEPT ![c] = s]
        /\ DOMAIN lmTable # {} /\ UNCHANGED <<lmTable, lmSink, lmLog>>
    BY <1>3 DEF Complete
  <2>2. CallOK(s) /\ s.at # "done" /\ s.records = 0
    BY DEF CallOK, NoCall
  <2> HIDE DEF s
  <2> QED
    BY <2>1, <2>2, UnreportedKeeps
<1>a. \A c \in Calls : lmCall[c].at \in {"send", "sleep"} => DOMAIN lmTable # {}
  BY DEF lmInv
<1>4. ASSUME NEW c \in Calls, NEW latency \in Latencies, RateLimited(c, latency) PROVE lmInv'
  <2>1. lmCall[c].at # "done" /\ DOMAIN lmTable # {}
    BY <1>4, <1>a DEF RateLimited
  <2>2. CASE lmCall[c].attempt < BACKOFFS
    <3> DEFINE s == [lmCall[c] EXCEPT !.at = "sleep"]
    <3>1. lmCall' = [lmCall EXCEPT ![c] = s] /\ UNCHANGED <<lmTable, lmSink, lmLog>>
      BY <1>4, <2>2 DEF RateLimited
    <3>b. CallOK(lmCall[c]) /\ lmCall[c].records = 0
      BY <1>0, <2>1
    <3>a. DOMAIN lmCall[c] = {"at", "agent", "attempt", "result", "how", "records"} /\ lmCall[c].records = 0
      BY <3>b DEF CallOK
    <3>2. DOMAIN s = {"at", "agent", "attempt", "result", "how", "records"} /\ s.at = "sleep" /\ s.records = 0
      BY <3>a
    <3> HIDE DEF s
    <3>3. CallOK(s) /\ s.at # "done"
      BY <3>2 DEF CallOK
    <3> QED
      BY <2>1, <3>1, <3>2, <3>3, UnreportedKeeps
  <2>3. CASE ~(lmCall[c].attempt < BACKOFFS)
    <3>1. Settle(c, "limited", "RateLimited", TRUE, latency, 0)
      BY <1>4, <2>3 DEF RateLimited
    <3> QED
      BY <2>1, <3>1, SettleKeeps
  <2> QED
    BY <2>2, <2>3
<1>5. ASSUME NEW c \in Calls, Wake(c) PROVE lmInv'
  <2> DEFINE s == [lmCall[c] EXCEPT !.at = "send", !.attempt = @ + 1]
  <2>1. /\ lmCall[c].at = "sleep" /\ lmCall' = [lmCall EXCEPT ![c] = s]
        /\ DOMAIN lmTable # {} /\ UNCHANGED <<lmTable, lmSink, lmLog>>
    BY <1>5, <1>a DEF Wake
  <2>b. CallOK(lmCall[c]) /\ lmCall[c].records = 0
    BY <1>0, <2>1
  <2>a. DOMAIN lmCall[c] = {"at", "agent", "attempt", "result", "how", "records"} /\ lmCall[c].records = 0
    BY <2>b DEF CallOK
  <2>2. DOMAIN s = {"at", "agent", "attempt", "result", "how", "records"} /\ s.at = "send" /\ s.records = 0
    BY <2>a
  <2> HIDE DEF s
  <2>3. CallOK(s) /\ s.at # "done" /\ lmCall[c].at # "done"
    BY <2>1, <2>2 DEF CallOK
  <2> QED
    BY <2>1, <2>2, <2>3, UnreportedKeeps
<1>6. ASSUME NEW c \in Calls, NEW why, NEW latency \in Latencies, Refused(c, why, latency) PROVE lmInv'
  <2>1. lmCall[c].at # "done" /\ DOMAIN lmTable # {}
    BY <1>6, <1>a DEF Refused
  <2>2. PICK result : Settle(c, "refused", result, TRUE, latency, 0)
    BY <1>6 DEF Refused
  <2> QED
    BY <2>1, <2>2, SettleKeeps
<1>7. ASSUME NEW c \in Calls, NEW why, BadBody(c, why) PROVE lmInv'
  <2>1. lmCall[c].at # "done" /\ DOMAIN lmTable # {}
    BY <1>7, <1>a DEF BadBody
  <2>2. PICK result : Settle(c, "unreadable", result, FALSE, 0, 0)
    BY <1>7 DEF BadBody
  <2> QED
    BY <2>1, <2>2, SettleKeeps
<1>8. ASSUME NEW c \in Calls, NEW latency \in Latencies, NEW tokens, Answered(c, latency, tokens)
      PROVE  lmInv'
  <2>1. /\ lmCall[c].at # "done" /\ DOMAIN lmTable # {}
        /\ Settle(c, "answered", "ok", TRUE, latency, tokens)
    BY <1>8, <1>a DEF Answered
  <2> QED
    BY <2>1, SettleKeeps
<1>9. ASSUME NEW c \in Calls, MockComplete(c) PROVE lmInv'
  <2>1. PICK result : lmCall' = [lmCall EXCEPT ![c].at = "done", ![c].how = "mocked",
                                               ![c].result = result]
    BY <1>9 DEF MockComplete
  <2> DEFINE s == [lmCall[c] EXCEPT !.at = "done", !.how = "mocked", !.result = result]
  <2>2. /\ lmCall[c].at # "done" /\ lmCall' = [lmCall EXCEPT ![c] = s]
        /\ DOMAIN lmTable # {} /\ UNCHANGED <<lmTable, lmSink, lmLog>>
    BY <1>9, <1>a, <2>1 DEF MockComplete
  <2>b. CallOK(lmCall[c]) /\ lmCall[c].records = 0
    BY <1>0, <2>2
  <2>a. DOMAIN lmCall[c] = {"at", "agent", "attempt", "result", "how", "records"} /\ lmCall[c].records = 0
    BY <2>b DEF CallOK
  <2>3. DOMAIN s = {"at", "agent", "attempt", "result", "how", "records"} /\ s.at = "done" /\ s.how = "mocked" /\ s.records = 0
    BY <2>a
  <2> HIDE DEF s
  <2>4. CallOK(s)
    BY <2>3 DEF CallOK
  <2> QED
    BY <2>2, <2>3, <2>4, UnreportedKeeps
<1>10. CASE UNCHANGED lmVars
  BY <1>1, <1>10 DEF lmVars
<1> QED
  BY <1>2, <1>3, <1>4, <1>5, <1>6, <1>7, <1>8, <1>9, <1>10 DEF lmNext, lmStep

\* Then the ring and the counters are those of the calls.
LEMMA MetricsFollow == lmInv => MetricsAreOfTheCalls
<1> SUFFICES ASSUME lmInv PROVE MetricsAreOfTheCalls
  OBVIOUS
<1>1. CountedExactlyOnce
  BY DEF lmInv, CountedExactlyOnce, Told, ToldOk
<1>2. RingLen(lmSink) = IF Len(lmLog) < LATENCY_RING_CAP THEN Len(lmLog) ELSE LATENCY_RING_CAP
  <2>1. Len(lmLog) \in Nat /\ LATENCY_RING_CAP \in Nat
    BY LenProperties, LatencyRingAssumption DEF lmInv, RingOK
  <2>2. CASE lmSink.ring_filled
    BY <2>1, <2>2 DEF lmInv, RingOK, RingLen
  <2>3. CASE ~lmSink.ring_filled
    BY <2>1, <2>3 DEF lmInv, RingOK, RingLen
  <2> QED
    BY <2>2, <2>3
<1>3. SlotsAreTheLatest
  BY <1>2 DEF lmInv, RingOK, SlotsAreTheLatest
<1> QED
  BY <1>1, <1>3 DEF MetricsAreOfTheCalls

-----------------------------------------------------------------------------
\* A step of the composition is a step of each part or leaves it alone.
LEMMA MonitorsRunAlone == [Next]_vars => [rmNext]_rmVars /\ [afNext]_afVars
  BY DEF Next, vars, rmVars, afVars

\* The same of the gate, the agents and their calls.
LEMMA AgentsRunAlone == [Next]_vars => [bgNext]_bgVars /\ [iaNext]_iaVars /\ [lmNext]_lmVars
<1> SUFFICES ASSUME [Next]_vars PROVE [bgNext]_bgVars /\ [iaNext]_iaVars /\ [lmNext]_lmVars
  OBVIOUS
<1>1. CASE Next
  BY <1>1 DEF Next
<1>2. CASE UNCHANGED vars
  BY <1>2 DEF vars
<1>3. QED
  BY <1>1, <1>2

\* In the composition of the agents' parts, both monitors keep their types.
THEOREM MonitorsKeepTypes == Spec => []TypeOK
<1>1. Init => rmInv /\ afInv
  BY MonitorStarts, DetectorStarts DEF Init
<1>2. rmInv /\ afInv => TypeOK
  BY DEF rmInv, afInv, TypeOK
<1>3. QED
  BY <1>1, <1>2, MonitorSteps, DetectorSteps, MonitorsRunAlone, PTL DEF Spec

\* For any number of approving threads, budget and window, whoever is
\* authorised has at most the budgeted number of approvals inside the window,
\* and no approval inside the window is forgotten (record_approval_at,
\* check_authorization).
THEOREM BudgetHolds == Spec => []BudgetIsKept
<1>1. Init => afInv
  BY DetectorStarts DEF Init
<1>2. afInv => BudgetIsKept
  BY DEF afInv, BudgetIsKept
<1>3. QED
  BY <1>1, <1>2, DetectorSteps, MonitorsRunAlone, PTL DEF Spec

\* Whatever the agents report, the gate names the first condition met and is
\* monotone in bad news (BaaarGate::check); the verdict the fraud auditor wrote
\* is the one the orchestrator reads back out of its payload, for every
\* assessment and every fixture; and the tester accepts the signature the
\* signer put over the decisions before it.
THEOREM VerdictsStaySound == Spec => []VerdictsAreSound
<1>1. Init => bgInv /\ iaInv
  BY AgentsStart DEF Init, bgInit, bgInv
<1>2. (bgInv /\ iaInv) /\ [Next]_vars => (bgInv /\ iaInv)'
  BY AgentsRunAlone, GateSteps, AgentsStep
<1>3. bgInv /\ iaInv => VerdictsAreSound
  BY NamesTheFirst, GateIsMonotone, ChainVerifies DEF iaInv, VerdictsAreSound
<1>4. QED
  BY <1>1, <1>2, <1>3, PTL DEF Spec

\* For any number of calls and any capacity, the ring's slots are the latest
\* latencies in the order they were recorded (record_call), and every call that
\* was answered, refused or turned away for good is recorded exactly once,
\* however often the provider turned it away before.
THEOREM MetricsStayInStep == Spec => []MetricsAreOfTheCalls
<1>1. Init => lmInv
  BY MetricsStart DEF Init
<1>2. lmInv /\ [Next]_vars => lmInv'
  BY AgentsRunAlone, MetricsStep
<1>3. QED
  BY <1>1, <1>2, MetricsFollow, PTL DEF Spec
=============================================================================
