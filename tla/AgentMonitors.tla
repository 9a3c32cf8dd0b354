---------------------------- MODULE AgentMonitors -----------------------------
(***************************************************************************)
(* The two monitors of a run's agents: how many approvals a human gives,   *)
(* and how many messages an agent sends.  The two share no state.          *)
(***************************************************************************)
EXTENDS Integers, Sequences, FiniteSets

(***************************************************************************)
(* AlertFatigueDetector                                                    *)
(* (crates/themis-orchestrator/src/human_guard.rs): at most                *)
(* max_approvals_per_window human approvals inside a sliding window.       *)
(*                                                                         *)
(* record_approval reads the clock before it takes the mutex, so approvals *)
(* of two threads may enter the queue in either order; and it takes the    *)
(* mutex a second time to compute `until`.  check_authorization reads the  *)
(* clock under the mutex.                                                  *)
(***************************************************************************)

CONSTANTS
    Approvers,        \* threads that record approvals
    MaxApprovals,   \* max_approvals_per_window
    Window,         \* window, in ticks
    MaxClock,       \* bound on the clock
    MaxRecorded     \* bound on approvals since the last reset

ASSUME ApprovalsAssumption == MaxApprovals \in Nat \ {0}
ASSUME WindowAssumption == Window \in Nat
ASSUME BoundsAssumption == MaxClock \in Nat /\ MaxRecorded \in Nat

VARIABLES
    queue,      \* AlertFatigueDetector::approvals
    clock,
    afPc, now,    \* record_approval of each thread and its clock reading
    recorded,   \* every approval since the last reset, in queue order
    gate        \* what check_authorization answered, until the next change

afVars == <<queue, clock, afPc, now, recorded, gate>>

Times == 0..MaxClock

\* Every variable keeps its type.
afTypeOK ==
    /\ queue \in Seq(Times)
    /\ clock \in Times
    /\ afPc \in [Approvers -> {"idle", "recording", "suspending"}]
    /\ now \in [Approvers -> Times]
    /\ recorded \in Seq(Times)
    /\ Len(recorded) <= MaxRecorded
    /\ gate \in {"none", "Ok", "RequiresReauth"}

afInit ==
    /\ queue = <<>>
    /\ clock = 0
    /\ afPc = [t \in Approvers |-> "idle"]
    /\ now = [t \in Approvers |-> 0]
    /\ recorded = <<>>
    /\ gate = "none"
-----------------------------------------------------------------------------
\* duration_since(stamp) >= window; it is zero for a stamp that lies ahead.
Aged(stamp, t) == t - stamp >= Window /\ t >= stamp

\* A mutant of Prune: the queue keeps no more than the budget.
PruneToBudget(q, t) ==
    IF Len(q) > MaxApprovals THEN Tail(q) ELSE q

\* The loop that pops aged stamps off the front, and stops at the first that
\* is not.
Prune(q, t) ==
    IF \A i \in 1..Len(q) : Aged(q[i], t) THEN <<>>
    ELSE SubSeq(q,
                CHOOSE k \in 1..Len(q) :
                    /\ ~Aged(q[k], t)
                    /\ \A i \in 1..(k - 1) : Aged(q[i], t),
                Len(q))

\* record_approval: Instant::now, before the mutex.
ReadClock(t) ==
    /\ afPc[t] = "idle"
    /\ now' = [now EXCEPT ![t] = clock]
    /\ afPc' = [afPc EXCEPT ![t] = "recording"]
    /\ UNCHANGED <<queue, clock, recorded, gate>>

\* record_approval_at: prune, push and count under the mutex.
Record(t) ==
    /\ afPc[t] = "recording"
    /\ Len(recorded) < MaxRecorded
    /\ queue' = Append(Prune(queue, now[t]), now[t])
    /\ recorded' = Append(recorded, now[t])
    /\ afPc' = [afPc EXCEPT ![t] = IF Len(queue') > MaxApprovals
                               THEN "suspending" ELSE "idle"]
    /\ gate' = "none"
    /\ UNCHANGED <<clock, now>>

\* record_approval_at: `until` is read under the mutex taken again.
ReadUntil(t) ==
    /\ afPc[t] = "suspending"
    /\ afPc' = [afPc EXCEPT ![t] = "idle"]
    /\ UNCHANGED <<queue, clock, now, recorded, gate>>

\* check_authorization
CheckAuthorization ==
    /\ queue' = Prune(queue, clock)
    /\ gate' = IF Len(queue') > MaxApprovals THEN "RequiresReauth" ELSE "Ok"
    /\ UNCHANGED <<clock, afPc, now, recorded>>

\* reset_after_reauth
ResetAfterReauth ==
    /\ queue' = <<>>
    /\ recorded' = <<>>
    /\ gate' = "none"
    /\ UNCHANGED <<clock, afPc, now>>

Tick ==
    /\ clock < MaxClock
    /\ clock' = clock + 1
    /\ gate' = "none"
    /\ UNCHANGED <<queue, afPc, now, recorded>>

afNext ==
    \/ \E t \in Approvers : ReadClock(t) \/ Record(t) \/ ReadUntil(t)
    \/ CheckAuthorization \/ ResetAfterReauth \/ Tick

afSpec == afInit /\ [][afNext]_afVars
-----------------------------------------------------------------------------
Fresh(i) == ~Aged(recorded[i], clock)

\* The queue is the tail of what was recorded, and what pruning took off was
\* out of the window: in whichever order approvals enter the queue, none
\* inside the window is ever forgotten.
NeverUndercounts ==
    LET gone == Len(recorded) - Len(queue) IN
    /\ gone >= 0
    /\ \A i \in 1..Len(queue) : queue[i] = recorded[gone + i]
    /\ \A i \in 1..gone : ~Fresh(i)

\* Nobody is authorised beyond the budget: when check_authorization answers
\* Ok, at most the budgeted number of approvals lie inside the window.
AuthorisedWithinBudget ==
    gate = "Ok" => Cardinality({i \in 1..Len(recorded) : Fresh(i)}) <= MaxApprovals

-----------------------------------------------------------------------------
(***************************************************************************)
(* RogueMonitor (crates/themis-orchestrator/src/rogue_monitor.rs), called  *)
(* by several threads.  The counters and the quarantine set have a mutex   *)
(* each, and every operation takes them in turn, so each lock scope is a   *)
(* step.  The caller is process_invoice: record_message, then              *)
(* is_quarantined, then the agent is dispatched or the run is halted.      *)
(***************************************************************************)

CONSTANTS
    Workers,        \* concurrent callers
    Agents,
    Threshold,      \* RogueMonitor::threshold
    MaxMessages     \* bound: messages counted over all threads

ASSUME ThresholdAssumption == Threshold \in Nat \ {0}
ASSUME MessagesAssumption == MaxMessages \in Nat

VARIABLES
    count,          \* per_agent_counts
    quarantined,
    rmPc, agent,
    mine,           \* the count that record_message worked with
    already,        \* its already_quarantined
    answer,         \* what it returned
    messages,       \* messages counted so far
    held            \* the message was over the threshold or came from a
                    \* quarantined agent, and no quarantine was lifted since

rmVars == <<count, quarantined, rmPc, agent, mine, already, answer, messages, held>>

Points == {"idle", "counted", "looked", "recorded", "dispatched", "halted",
           "mentioned", "lifting"}

\* Every variable keeps its type.
rmTypeOK ==
    /\ count \in [Agents -> 0..MaxMessages]
    /\ quarantined \in SUBSET Agents
    /\ rmPc \in [Workers -> Points]
    /\ agent \in [Workers -> Agents]
    /\ mine \in [Workers -> 0..MaxMessages]
    /\ already \in [Workers -> BOOLEAN]
    /\ answer \in [Workers -> {"none", "Active", "Quarantined"}]
    /\ messages \in 0..MaxMessages
    /\ held \in [Workers -> BOOLEAN]

rmInit ==
    /\ count = [a \in Agents |-> 0]
    /\ quarantined = {}
    /\ rmPc = [t \in Workers |-> "idle"]
    /\ agent \in [Workers -> Agents]
    /\ mine = [t \in Workers |-> 0]
    /\ already = [t \in Workers |-> FALSE]
    /\ answer = [t \in Workers |-> "none"]
    /\ messages = 0
    /\ held = [t \in Workers |-> FALSE]
-----------------------------------------------------------------------------
Goto(t, p) == rmPc' = [rmPc EXCEPT ![t] = p]

\* The messages of agent a that were held back no longer are.
Release(a) == held' = [t \in Workers |-> held[t] /\ agent[t] # a]

\* A mutant of Count: the counter is bumped twice.
CountTwice(t, a) ==
    /\ rmPc[t] = "idle"
    /\ messages < MaxMessages
    /\ messages' = messages + 1
    /\ agent' = [agent EXCEPT ![t] = a]
    /\ count' = [count EXCEPT ![a] = @ + 2]
    /\ mine' = [mine EXCEPT ![t] = count'[a]]
    /\ held' = [held EXCEPT ![t] = count'[a] >= Threshold \/ a \in quarantined]
    /\ Goto(t, "counted")
    /\ UNCHANGED <<quarantined, already, answer>>

\* record_message without a mention: the counter is bumped.
Count(t, a) ==
    /\ rmPc[t] = "idle"
    /\ messages < MaxMessages
    /\ messages' = messages + 1
    /\ agent' = [agent EXCEPT ![t] = a]
    /\ count' = [count EXCEPT ![a] = @ + 1]
    /\ mine' = [mine EXCEPT ![t] = count'[a]]
    /\ held' = [held EXCEPT ![t] = count'[a] >= Threshold \/ a \in quarantined]
    /\ Goto(t, "counted")
    /\ UNCHANGED <<quarantined, already, answer>>

\* record_message: the quarantine is looked up.
Look(t) ==
    /\ rmPc[t] = "counted"
    /\ already' = [already EXCEPT ![t] = agent[t] \in quarantined]
    /\ Goto(t, "looked")
    /\ UNCHANGED <<count, quarantined, agent, mine, answer, messages, held>>

\* A mutant of Flag: only the message that reaches the threshold flags.
FlagOnce(t) ==
    /\ rmPc[t] = "looked"
    /\ quarantined' = IF mine[t] = Threshold
                      THEN quarantined \cup {agent[t]} ELSE quarantined
    /\ answer' = [answer EXCEPT ![t] = "Active"]
    /\ Goto(t, "recorded")
    /\ UNCHANGED <<count, agent, mine, already, messages, held>>

\* record_message: over the threshold, the agent is quarantined.  The answer
\* is Quarantined only for the message that found it free.
Flag(t) ==
    /\ rmPc[t] = "looked"
    /\ IF mine[t] >= Threshold
       THEN /\ quarantined' = quarantined \cup {agent[t]}
            /\ answer' = [answer EXCEPT ![t] =
                             IF already[t] THEN "Active" ELSE "Quarantined"]
       ELSE /\ answer' = [answer EXCEPT ![t] = "Active"]
            /\ UNCHANGED quarantined
    /\ Goto(t, "recorded")
    /\ UNCHANGED <<count, agent, mine, already, messages, held>>

\* is_quarantined decides what process_invoice does with the message.
Decide(t) ==
    /\ rmPc[t] = "recorded"
    /\ Goto(t, IF agent[t] \in quarantined THEN "halted" ELSE "dispatched")
    /\ UNCHANGED <<count, quarantined, agent, mine, already, answer, messages,
                   held>>

\* record_message with a mention: the counter, then the quarantine, is cleared.
MentionCount(t, a) ==
    /\ rmPc[t] = "idle"
    /\ agent' = [agent EXCEPT ![t] = a]
    /\ count' = [count EXCEPT ![a] = 0]
    /\ Goto(t, "mentioned")
    /\ UNCHANGED <<quarantined, mine, already, answer, messages, held>>

MentionQuarantine(t) ==
    /\ rmPc[t] = "mentioned"
    /\ quarantined' = quarantined \ {agent[t]}
    /\ Release(agent[t])
    /\ answer' = [answer EXCEPT ![t] = "none"]
    /\ Goto(t, "idle")
    /\ UNCHANGED <<count, agent, mine, already, messages>>

\* unquarantine: the quarantine, then the counter, is cleared.
LiftQuarantine(t, a) ==
    /\ rmPc[t] = "idle"
    /\ agent' = [agent EXCEPT ![t] = a]
    /\ quarantined' = quarantined \ {a}
    /\ Release(a)
    /\ Goto(t, "lifting")
    /\ UNCHANGED <<count, mine, already, answer, messages>>

LiftCount(t) ==
    /\ rmPc[t] = "lifting"
    /\ count' = [count EXCEPT ![agent[t]] = 0]
    /\ Goto(t, "idle")
    /\ UNCHANGED <<quarantined, agent, mine, already, answer, messages, held>>

\* The thread is done with the message.
Done(t) ==
    /\ rmPc[t] \in {"dispatched", "halted"}
    /\ Goto(t, "idle")
    /\ answer' = [answer EXCEPT ![t] = "none"]
    /\ held' = [held EXCEPT ![t] = FALSE]
    /\ UNCHANGED <<count, quarantined, agent, mine, already, messages>>

rmNext ==
    \E t \in Workers :
        \/ \E a \in Agents : \/ Count(t, a)
                             \/ MentionCount(t, a)
                             \/ LiftQuarantine(t, a)
        \/ Look(t) \/ Flag(t) \/ Decide(t)
        \/ MentionQuarantine(t) \/ LiftCount(t) \/ Done(t)

rmSpec == rmInit /\ [][rmNext]_rmVars
-----------------------------------------------------------------------------
\* No interleaving of the two mutexes lets a held message through: an agent
\* is dispatched for a message over the threshold, or sent while it was
\* quarantined, only if a quarantine was lifted in between.
HeldIsNotDispatched ==
    \A t \in Workers : rmPc[t] = "dispatched" => ~held[t]
=============================================================================
