------------------------------ MODULE FrontProofs ------------------------------
(***************************************************************************)
(* Proofs about the HTTP front and the evidence behind it, for any number  *)
(* of requests, subscribers, tenants and any bounds: the parts of          *)
(* TrustServer, Vouch and Evidence, each on its own and then in the        *)
(* composition of MCFront.                                                 *)
(***************************************************************************)
EXTENDS MCFront, SequenceTheorems, FiniteSetTheorems, TLAPS

-----------------------------------------------------------------------------
(* TrustServer                                                             *)

\* How far a handler is, and what it has stored on the way there.
Progress ==
    \A c \in HttpCalls :
        /\ hsPc[c] # "idle" => kind[c] \in Kinds
        /\ hsPc[c] \in {"report", "packet"} => kind[c] = "invoices"
        /\ hsPc[c] \in {"appending", "stamping", "sealed"} => Sealing(c)
        /\ hsPc[c] \in {"stamping", "sealed"} => c \in chained
        /\ Sealing(c) /\ hsPc[c] \in {"report", "packet"} => c \in chained
        /\ hsPc[c] = "sealed" => c \in packets
        /\ Sealing(c) /\ hsPc[c] \in {"announce", "finish", "replied"} => c \in sealed
        /\ hsPc[c] = "task" => kind[c] = "a2a"

\* A packet in the map is one that POST /invoices stored, and EvidenceSealed
\* goes out when both maps are filled.
Stored ==
    \A c \in HttpCalls :
        /\ c \in packets => /\ kind[c] = "invoices"
                            /\ hsPc[c] \in {"sealed", "announce", "finish", "replied"}
        /\ Published("EvidenceSealed", c) => hsPc[c] \in {"finish", "task", "replied"}

hsInv ==
    /\ hsTypeOK /\ Progress /\ Stored
    /\ SealsAliasPackets /\ ToldDownloadsCarrySeal /\ RepliedTasksAreKnown

\* The inductive invariant of TrustServer holds initially.
LEMMA ServerStarts == hsInit => hsInv
<1> SUFFICES ASSUME hsInit PROVE hsInv
  OBVIOUS
<1>1. hsTypeOK
  BY DEF hsInit, hsTypeOK, hsPoints
<1>2. Progress /\ Stored
  BY DEF hsInit, Progress, Stored, Published
<1>3. SealsAliasPackets /\ ToldDownloadsCarrySeal /\ RepliedTasksAreKnown
  BY DEF hsInit, SealsAliasPackets, ToldDownloadsCarrySeal, RepliedTasksAreKnown
<1>4. QED
  BY <1>1, <1>2, <1>3 DEF hsInv

\* A handler that only moves on, or answers with an error, disturbs nothing
\* that it or another handler has stored.
LEMMA ServerSteps == hsInv /\ [hsNext]_hsVars => hsInv'
<1> SUFFICES ASSUME hsInv, [hsNext]_hsVars PROVE hsInv'
  OBVIOUS
<1> USE EvidenceAssumption, DownloadsAssumption
<1> USE DEF Inside, Awaiting
<1>0. /\ hsTypeOK /\ Progress /\ Stored
      /\ SealsAliasPackets /\ ToldDownloadsCarrySeal /\ RepliedTasksAreKnown
  BY DEF hsInv
<1> DEFINE Same == SealsAliasPackets' /\ ToldDownloadsCarrySeal' /\ RepliedTasksAreKnown'
<1>1. ASSUME NEW c \in HttpCalls, Arrive(c) PROVE hsInv'
  <2>1. hsTypeOK'
    BY <1>0, <1>1 DEF Arrive, hsGoto, stores, hsTypeOK, hsPoints, Event, EventTypes
  <2>2. Progress' /\ Stored'
    BY <1>0, <1>1 DEF Arrive, hsGoto, stores, hsTypeOK, Progress, Stored, Sealing, Published, Event
  <2>3. Same
    BY <1>0, <1>1
       DEF Arrive, hsGoto, stores, hsTypeOK, SealsAliasPackets, ToldDownloadsCarrySeal,
           RepliedTasksAreKnown
  <2>4. QED
    BY <2>1, <2>2, <2>3 DEF hsInv
<1>2. ASSUME NEW c \in HttpCalls, Acquire(c) PROVE hsInv'
  BY <1>0, <1>2
     DEF Acquire, hsGoto, stores, hsInv, hsTypeOK, hsPoints, Progress, Stored, Sealing, Published,
         SealsAliasPackets, ToldDownloadsCarrySeal, RepliedTasksAreKnown
<1>3. ASSUME NEW c \in HttpCalls, NEW p \in Inside, Fails(c, p) PROVE hsInv'
  BY <1>0, <1>3
     DEF Fails, hsGoto, stores, hsInv, hsTypeOK, hsPoints, Progress, Stored, Sealing, Published,
         SealsAliasPackets, ToldDownloadsCarrySeal, RepliedTasksAreKnown
<1>4. ASSUME NEW c \in HttpCalls, RunReturns(c) PROVE hsInv'
  <2>1. hsTypeOK'
    BY <1>0, <1>4 DEF RunReturns, hsGoto, stores, hsTypeOK, hsPoints
  <2>2. Progress' /\ Stored'
    BY <1>0, <1>4
       DEF RunReturns, hsGoto, stores, hsTypeOK, Progress, Stored, Sealing, Published, Kinds
  <2>3. Same
    BY <1>0, <1>4
       DEF RunReturns, hsGoto, stores, hsTypeOK, SealsAliasPackets, ToldDownloadsCarrySeal,
           RepliedTasksAreKnown
  <2>4. QED
    BY <2>1, <2>2, <2>3 DEF hsInv
<1>5. ASSUME NEW c \in HttpCalls, AppendToChain(c) PROVE hsInv'
  BY <1>0, <1>5
     DEF AppendToChain, hsGoto, stores, hsInv, hsTypeOK, hsPoints, Progress, Stored, Sealing,
         Published, SealsAliasPackets, ToldDownloadsCarrySeal, RepliedTasksAreKnown
<1>6. ASSUME NEW c \in HttpCalls, SealReturns(c) PROVE hsInv'
  BY <1>0, <1>6
     DEF SealReturns, hsGoto, stores, hsInv, hsTypeOK, hsPoints, Progress, Stored, Sealing,
         Published, SealsAliasPackets, ToldDownloadsCarrySeal, RepliedTasksAreKnown
<1>7. ASSUME NEW c \in HttpCalls, StoreRun(c) PROVE hsInv'
  <2>1. bus' \subseteq bus \cup {Event("AgentDispute", c)} /\ bus \subseteq bus'
    BY <1>7 DEF StoreRun
  <2>2. hsTypeOK'
    BY <1>0, <1>7, <2>1 DEF StoreRun, hsGoto, hsTypeOK, hsPoints, Event, EventTypes
  <2>3. \A d \in HttpCalls : Published("EvidenceSealed", d)' => Published("EvidenceSealed", d)
    BY <2>1 DEF Published, Event
  <2>4. Progress' /\ Stored'
    BY <1>0, <1>7, <2>3 DEF StoreRun, hsGoto, hsTypeOK, Progress, Stored, Sealing
  <2>5. Same
    BY <1>0, <1>7
       DEF StoreRun, hsGoto, hsTypeOK, SealsAliasPackets, ToldDownloadsCarrySeal,
           RepliedTasksAreKnown
  <2>6. QED
    BY <2>2, <2>4, <2>5 DEF hsInv
<1>8. ASSUME NEW c \in HttpCalls, StorePacket(c) PROVE hsInv'
  BY <1>0, <1>8
     DEF StorePacket, hsGoto, stores, hsInv, hsTypeOK, hsPoints, Progress, Stored, Sealing,
         Published, SealsAliasPackets, ToldDownloadsCarrySeal, RepliedTasksAreKnown
<1>9. ASSUME NEW c \in HttpCalls, StoreSealed(c) PROVE hsInv'
  BY <1>0, <1>9
     DEF StoreSealed, hsGoto, stores, hsInv, hsTypeOK, hsPoints, Progress, Stored, Sealing,
         Published, SealsAliasPackets, ToldDownloadsCarrySeal, RepliedTasksAreKnown
<1>10. ASSUME NEW c \in HttpCalls, AnnounceSealed(c) PROVE hsInv'
  <2>1. hsTypeOK'
    BY <1>0, <1>10 DEF AnnounceSealed, hsGoto, stores, hsTypeOK, hsPoints, Event, EventTypes
  <2>2. \A d \in HttpCalls :
           Published("EvidenceSealed", d)' => d = c \/ Published("EvidenceSealed", d)
    BY <1>10 DEF AnnounceSealed, Published, Event
  <2>3. Progress' /\ Stored'
    BY <1>0, <1>10, <2>2 DEF AnnounceSealed, hsGoto, stores, hsTypeOK, Progress, Stored, Sealing
  <2>4. Same
    BY <1>0, <1>10
       DEF AnnounceSealed, hsGoto, stores, hsTypeOK, SealsAliasPackets, ToldDownloadsCarrySeal,
           RepliedTasksAreKnown
  <2>5. QED
    BY <2>1, <2>3, <2>4 DEF hsInv
<1>11. ASSUME NEW c \in HttpCalls, FinishRun(c) PROVE hsInv'
  <2>1. hsTypeOK'
    BY <1>0, <1>11 DEF FinishRun, hsGoto, stores, hsTypeOK, hsPoints, Event, EventTypes
  <2>2. \A d \in HttpCalls : Published("EvidenceSealed", d)' => Published("EvidenceSealed", d)
    BY <1>11 DEF FinishRun, Published, Event
  <2>3. Progress' /\ Stored'
    BY <1>0, <1>11, <2>2 DEF FinishRun, hsGoto, stores, hsTypeOK, Progress, Stored, Sealing
  <2>4. Same
    BY <1>0, <1>11
       DEF FinishRun, hsGoto, stores, hsTypeOK, SealsAliasPackets, ToldDownloadsCarrySeal,
           RepliedTasksAreKnown
  <2>5. QED
    BY <2>1, <2>3, <2>4 DEF hsInv
<1>12. ASSUME NEW c \in HttpCalls, StoreTask(c) PROVE hsInv'
  BY <1>0, <1>12
     DEF StoreTask, hsGoto, stores, hsInv, hsTypeOK, hsPoints, Progress, Stored, Sealing,
         Published, SealsAliasPackets, ToldDownloadsCarrySeal, RepliedTasksAreKnown
<1>13. ASSUME NEW c \in HttpCalls, Disconnect(c) PROVE hsInv'
  BY <1>0, <1>13
     DEF Disconnect, hsGoto, stores, hsInv, hsTypeOK, hsPoints, Progress, Stored, Sealing,
         Published, SealsAliasPackets, ToldDownloadsCarrySeal, RepliedTasksAreKnown
<1>14. ASSUME NEW c \in HttpCalls, Download(c) PROVE hsInv'
  <2> DEFINE d == [call |-> c, seal |-> c \in sealed, told |-> Published("EvidenceSealed", c)]
  <2>1. d \in [call : HttpCalls, seal : BOOLEAN, told : BOOLEAN]
    BY DEF Published
  <2>2. d.told /\ HasEvidence => d.seal
    BY <1>0, <1>14 DEF Download, Progress, Stored, Sealing
  <2>3. downloads' = Append(downloads, d)
    BY <1>14 DEF Download
  <2> HIDE DEF d
  <2>4. /\ downloads' \in Seq([call : HttpCalls, seal : BOOLEAN, told : BOOLEAN])
        /\ Len(downloads') = Len(downloads) + 1
        /\ \A i \in 1..Len(downloads) : downloads'[i] = downloads[i]
        /\ downloads'[Len(downloads) + 1] = d
    BY <1>0, <2>1, <2>3, AppendProperties DEF hsTypeOK
  <2>5. ToldDownloadsCarrySeal'
    <3>1. /\ DOMAIN downloads = 1..Len(downloads) /\ Len(downloads) \in Nat
          /\ DOMAIN downloads' = 1..Len(downloads')
      BY <1>0, <2>4, LenProperties DEF hsTypeOK
    <3>2. \A i \in DOMAIN downloads' : i \in DOMAIN downloads \/ i = Len(downloads) + 1
      BY <2>4, <3>1
    <3>3. QED
      BY <1>0, <2>2, <2>4, <3>1, <3>2 DEF ToldDownloadsCarrySeal
  <2>6. hsTypeOK' /\ Progress' /\ Stored' /\ SealsAliasPackets' /\ RepliedTasksAreKnown'
    BY <1>0, <1>14, <2>4
       DEF Download, stores, hsTypeOK, Progress, Stored, Sealing, Published,
           SealsAliasPackets, RepliedTasksAreKnown
  <2>7. QED
    BY <2>5, <2>6 DEF hsInv
<1>15. ASSUME NEW c \in HttpCalls, HumanOverride(c) PROVE hsInv'
  <2>1. hsTypeOK'
    BY <1>0, <1>15 DEF HumanOverride, stores, hsTypeOK, Event, EventTypes
  <2>2. \A d \in HttpCalls : Published("EvidenceSealed", d)' => Published("EvidenceSealed", d)
    BY <1>15 DEF HumanOverride, Published, Event
  <2>3. Progress' /\ Stored'
    BY <1>0, <1>15, <2>2 DEF HumanOverride, stores, Progress, Stored, Sealing
  <2>4. Same
    BY <1>0, <1>15
       DEF HumanOverride, stores, SealsAliasPackets, ToldDownloadsCarrySeal, RepliedTasksAreKnown
  <2>5. QED
    BY <2>1, <2>3, <2>4 DEF hsInv
<1>16. ASSUME NEW c \in HttpCalls, AttachVerdict(c) PROVE hsInv'
  BY <1>0, <1>16
     DEF AttachVerdict, stores, hsInv, hsTypeOK, Progress, Stored, Sealing,
         Published, SealsAliasPackets, ToldDownloadsCarrySeal, RepliedTasksAreKnown
<1>17. CASE UNCHANGED hsVars
  BY <1>0, <1>17
     DEF hsVars, stores, hsInv, hsTypeOK, Progress, Stored, Sealing,
         Published, SealsAliasPackets, ToldDownloadsCarrySeal, RepliedTasksAreKnown
<1>18. QED
  BY <1>1, <1>2, <1>3, <1>4, <1>5, <1>6, <1>7, <1>8, <1>9, <1>10, <1>11, <1>12, <1>13, <1>14,
     <1>15, <1>16, <1>17 DEF hsNext, HttpStep
-----------------------------------------------------------------------------
(* EventBus                                                                *)

\* Where the cursor of a receiver is, and what its client has at each point.
CursorsAreRight ==
    \A s \in Subscribers :
        /\ joined[s] < cursor[s] /\ cursor[s] <= sent + 1
        /\ ebPc[s] \in {"off", "greeting"} => seen[s] = <<>> /\ ~lagged[s]
        /\ ebPc[s] = "greeting" => cursor[s] = joined[s] + 1
        /\ ebPc[s] = "streaming" => Len(seen[s]) >= 1
        /\ \A i \in 1..Len(seen[s]) : seen[s][i] < cursor[s]

ebInv == ebTypeOK /\ CursorsAreRight /\ InOrderOnce /\ NothingMissed

\* The inductive invariant of EventBus holds initially.
LEMMA BusStarts == ebInit => ebInv
<1> SUFFICES ASSUME ebInit PROVE ebInv
  OBVIOUS
<1>1. ebTypeOK
  BY EventsAssumption DEF ebInit, ebTypeOK
<1>2. CursorsAreRight
  BY DEF ebInit, CursorsAreRight
<1>3. InOrderOnce /\ NothingMissed
  BY DEF ebInit, InOrderOnce, NothingMissed, Increasing
<1>4. QED
  BY <1>1, <1>2, <1>3 DEF ebInv

\* Appending an event above all the others keeps an account in order.
LEMMA AppendKeepsOrder ==
  ASSUME NEW q \in Seq(0..MaxEvents), NEW n \in 0..MaxEvents, Increasing(q),
         \A i \in 1..Len(q) : q[i] < n
  PROVE  /\ Append(q, n) \in Seq(0..MaxEvents)
         /\ Len(Append(q, n)) = Len(q) + 1 /\ Len(q) \in Nat
         /\ \A i \in 1..Len(q) : Append(q, n)[i] = q[i]
         /\ Append(q, n)[Len(q) + 1] = n
         /\ Increasing(Append(q, n))
         /\ \A i \in 1..Len(Append(q, n)) : Append(q, n)[i] < n + 1
<1>1. /\ Append(q, n) \in Seq(0..MaxEvents)
      /\ Len(Append(q, n)) = Len(q) + 1
      /\ \A i \in 1..Len(q) : Append(q, n)[i] = q[i]
      /\ Append(q, n)[Len(q) + 1] = n
  BY AppendProperties
<1>2. Len(q) \in Nat /\ q \in [1..Len(q) -> 0..MaxEvents]
  BY LenProperties
<1> DEFINE r == Append(q, n)
<1> HIDE DEF r
<1>3. /\ Len(r) = Len(q) + 1 /\ (\A i \in 1..Len(q) : r[i] = q[i]) /\ r[Len(q) + 1] = n
  BY <1>1 DEF r
<1>4. Increasing(r)
  <2>1. ASSUME NEW i \in 1..Len(q) PROVE r[i] < r[i + 1]
    <3>1. CASE i < Len(q)
      <4>1. i + 1 \in 1..Len(q) /\ i \in 1..(Len(q) - 1)
        BY <1>2, <3>1
      <4>2. QED
        BY <1>3, <4>1 DEF Increasing
    <3>2. CASE i = Len(q)
      BY <1>3, <3>2
    <3>3. i < Len(q) \/ i = Len(q)
      <4> DEFINE k == Len(q)
      <4>1. k \in Nat /\ i \in 1..k
        BY <1>2
      <4> HIDE DEF k
      <4>2. i < k \/ i = k
        BY <4>1
      <4>3. QED
        BY <4>2 DEF k
    <3>4. QED
      BY <3>1, <3>2, <3>3
  <2>2. Len(r) - 1 = Len(q)
    BY <1>2, <1>3
  <2>3. QED
    BY <2>1, <2>2 DEF Increasing
<1>5. ASSUME NEW i \in 1..Len(r) PROVE r[i] < n + 1
  <2>1. i \in 1..Len(q) \/ i = Len(q) + 1
    BY <1>2, <1>3
  <2>2. CASE i \in 1..Len(q)
    BY <1>2, <1>3, <2>2, EventsAssumption, SMTT(60)
  <2>3. CASE i = Len(q) + 1
    BY <1>3, <2>3, EventsAssumption
  <2>4. QED
    BY <2>1, <2>2, <2>3
<1>6. QED
  BY <1>1, <1>2, <1>4, <1>5 DEF r

\* Every step of the publishers and of the streams keeps the invariant.
LEMMA BusSteps == ebInv /\ [ebNext]_ebVars => ebInv'
<1> SUFFICES ASSUME ebInv, [ebNext]_ebVars PROVE ebInv'
  OBVIOUS
<1> USE EventsAssumption, BufferAssumption
<1>0. ebTypeOK /\ CursorsAreRight /\ InOrderOnce /\ NothingMissed
  BY DEF ebInv
<1>t. \A s \in Subscribers : /\ seen[s] \in Seq(0..MaxEvents) /\ Len(seen[s]) \in Nat
                             /\ cursor[s] \in 1..(MaxEvents + 1) /\ joined[s] \in 0..MaxEvents
  BY <1>0, LenProperties DEF ebTypeOK
<1>1. CASE Publish
  <2>1. ebTypeOK' /\ CursorsAreRight'
    BY <1>0, <1>1 DEF Publish, ebTypeOK, CursorsAreRight
  <2>2. InOrderOnce' /\ NothingMissed'
    BY <1>0, <1>1 DEF Publish, InOrderOnce, NothingMissed
  <2>3. QED
    BY <2>1, <2>2 DEF ebInv
<1>2. ASSUME NEW s \in Subscribers, Join(s) PROVE ebInv'
  <2>1. seen[s] = <<>> /\ Len(seen[s]) = 0
    BY <1>0, <1>2 DEF Join, CursorsAreRight
  <2>2. ebTypeOK'
    BY <1>0, <1>2 DEF Join, ebTypeOK
  <2>3. CursorsAreRight'
    BY <1>0, <1>2, <2>1, SMTT(60) DEF Join, ebTypeOK, CursorsAreRight
  <2>4. InOrderOnce'
    BY <1>0, <1>2, <2>1, SMTT(60) DEF Join, ebTypeOK, InOrderOnce
  <2>5. NothingMissed'
    BY <1>0, <1>2 DEF Join, ebTypeOK, NothingMissed
  <2>6. QED
    BY <2>2, <2>3, <2>4, <2>5 DEF ebInv
<1>3. ASSUME NEW s \in Subscribers, Greet(s) PROVE ebInv'
  <2>1. seen[s] = <<>> /\ ~lagged[s] /\ cursor[s] = joined[s] + 1
    BY <1>0, <1>3 DEF Greet, CursorsAreRight
  <2>2. seen' = [seen EXCEPT ![s] = <<0>>]
    BY <1>0, <1>3, <2>1 DEF Greet, ebTypeOK
  <2>3. ebTypeOK'
    BY <1>0, <1>3, <2>2 DEF Greet, ebTypeOK
  <2>4. CursorsAreRight'
    BY <1>0, <1>t, <1>3, <2>1, <2>2 DEF Greet, ebTypeOK, CursorsAreRight
  <2>5. InOrderOnce'
    <3>1. ASSUME NEW u \in Subscribers
          PROVE  /\ Increasing(seen'[u])
                 /\ \A i \in 2..Len(seen'[u]) : seen'[u][i] > joined[u]
      <4>1. CASE u = s
        BY <1>0, <2>2, <4>1 DEF ebTypeOK, Increasing
      <4>2. CASE u # s
        BY <1>0, <2>2, <4>2 DEF ebTypeOK, InOrderOnce
      <4>3. QED
        BY <4>1, <4>2
    <3>2. QED
      BY <1>3, <3>1 DEF Greet, InOrderOnce
  <2>6. NothingMissed'
    BY <1>0, <1>t, <1>3, <2>1, <2>2 DEF Greet, ebTypeOK, NothingMissed
  <2>7. QED
    BY <2>3, <2>4, <2>5, <2>6 DEF ebInv
<1>4. ASSUME NEW s \in Subscribers, Forward(s) PROVE ebInv'
  <2> DEFINE q == seen[s]
             r == Append(seen[s], cursor[s])
  <2>1. /\ q \in Seq(0..MaxEvents) /\ Len(q) \in Nat /\ Len(q) >= 1
        /\ Increasing(q) /\ \A i \in 1..Len(q) : q[i] < cursor[s]
    BY <1>0, <1>t, <1>4 DEF Forward, CursorsAreRight, InOrderOnce
  <2>2. cursor[s] \in 0..MaxEvents /\ cursor[s] <= sent /\ sent \in 0..MaxEvents
    BY <1>0, <1>4 DEF Forward, Oldest, ebTypeOK
  <2>3. /\ r \in Seq(0..MaxEvents)
        /\ Len(r) = Len(q) + 1
        /\ \A i \in 1..Len(q) : r[i] = q[i]
        /\ r[Len(q) + 1] = cursor[s]
        /\ Increasing(r)
        /\ \A i \in 1..Len(r) : r[i] < cursor[s] + 1
    BY <2>1, <2>2, AppendKeepsOrder
  <2>4. /\ seen' = [seen EXCEPT ![s] = r]
        /\ cursor' = [cursor EXCEPT ![s] = cursor[s] + 1]
        /\ UNCHANGED <<sent, ebPc, joined, lagged>>
    BY <1>4 DEF Forward
  <2> HIDE DEF r
  <2>5. ebTypeOK'
    BY <1>0, <2>2, <2>3, <2>4, SMTT(60) DEF ebTypeOK
  <2>6. CursorsAreRight'
    <3>1. /\ joined[s] < cursor[s] + 1 /\ cursor[s] + 1 <= sent + 1
          /\ Len(r) >= 1 /\ ebPc[s] = "streaming"
          /\ \A i \in 1..Len(r) : r[i] < cursor[s] + 1
      <4>1. joined[s] < cursor[s]
        BY <1>0 DEF CursorsAreRight
      <4>2. joined[s] < cursor[s] + 1 /\ cursor[s] + 1 <= sent + 1
        BY <1>t, <2>2, <4>1, SMTT(60)
      <4>3. Len(r) >= 1
        BY <2>1, <2>3, SMTT(60)
      <4>4. ebPc[s] = "streaming"
        BY <1>4 DEF Forward
      <4>5. QED
        BY <2>3, <4>2, <4>3, <4>4
    <3>2. \A u \in Subscribers : u # s => seen'[u] = seen[u] /\ cursor'[u] = cursor[u]
      BY <1>0, <2>4 DEF ebTypeOK
    <3>3. seen'[s] = r /\ cursor'[s] = cursor[s] + 1
      BY <1>0, <2>4 DEF ebTypeOK
    <3>4. QED
      BY <1>0, <2>4, <3>1, <3>2, <3>3 DEF CursorsAreRight
  <2>7. ASSUME NEW i \in 2..Len(r) PROVE i \in 2..Len(q) \/ i = Len(q) + 1
    BY <2>1, <2>3, SMTT(60)
  <2>8. InOrderOnce'
    <3>1. ASSUME NEW i \in 2..Len(r) PROVE r[i] > joined[s]
      <4>1. CASE i \in 2..Len(q)
        BY <1>0, <2>1, <2>3, <4>1 DEF InOrderOnce
      <4>2. CASE i = Len(q) + 1
        BY <1>0, <1>t, <2>3, <4>2 DEF CursorsAreRight
      <4>3. QED
        BY <2>7, <4>1, <4>2
    <3>2. QED
      BY <1>0, <2>3, <2>4, <3>1 DEF ebTypeOK, InOrderOnce
  <2>9. NothingMissed'
    <3>1. ASSUME ~lagged[s]
          PROVE  /\ Len(r) = cursor[s] + 1 - joined[s]
                 /\ \A i \in 2..Len(r) : r[i] = joined[s] + i - 1
      <4>1. /\ Len(q) = cursor[s] - joined[s]
            /\ \A i \in 2..Len(q) : q[i] = joined[s] + i - 1
        BY <1>0, <1>4, <3>1 DEF Forward, NothingMissed
      <4>2. Len(r) = cursor[s] + 1 - joined[s]
        BY <1>t, <2>3, <4>1, SMTT(60)
      <4>3. r[Len(q) + 1] = joined[s] + (Len(q) + 1) - 1
        BY <1>t, <2>3, <4>1, SMTT(60)
      <4>4. \A i \in 2..Len(q) : r[i] = joined[s] + i - 1
        BY <2>1, <2>3, <4>1
      <4>5. QED
        BY <2>7, <4>2, <4>3, <4>4
    <3>2. QED
      BY <1>0, <2>4, <3>1, SMTT(60) DEF ebTypeOK, NothingMissed
  <2>10. QED
    BY <2>5, <2>6, <2>8, <2>9 DEF ebInv
<1>5. ASSUME NEW s \in Subscribers, Lag(s) PROVE ebInv'
  <2>1. /\ Oldest \in 1..(MaxEvents + 1) /\ Oldest <= sent + 1 /\ cursor[s] < Oldest
    BY <1>0, <1>t, <1>5 DEF Lag, Oldest, ebTypeOK
  <2>2. /\ cursor' = [cursor EXCEPT ![s] = Oldest] /\ lagged' = [lagged EXCEPT ![s] = TRUE]
        /\ UNCHANGED <<sent, ebPc, joined, seen>> /\ ebPc[s] = "streaming"
    BY <1>5 DEF Lag
  <2>3. ebTypeOK'
    BY <1>0, <2>1, <2>2 DEF ebTypeOK
  <2>4. \A i \in 1..Len(seen[s]) : seen[s][i] \in 0..MaxEvents
    BY <1>t, ElementOfSeq
  <2>5. CursorsAreRight'
    BY <1>0, <1>t, <2>1, <2>2, <2>4, SMTT(60) DEF ebTypeOK, CursorsAreRight
  <2>6. InOrderOnce' /\ NothingMissed'
    BY <1>0, <2>2 DEF ebTypeOK, InOrderOnce, NothingMissed
  <2>7. QED
    BY <2>3, <2>5, <2>6 DEF ebInv
<1>6. ASSUME NEW s \in Subscribers, Leave(s) PROVE ebInv'
  BY <1>0, <1>6 DEF Leave, ebInv, ebTypeOK, CursorsAreRight, InOrderOnce, NothingMissed
<1>7. CASE UNCHANGED ebVars
  BY <1>0, <1>7 DEF ebVars, ebInv, ebTypeOK, CursorsAreRight, InOrderOnce, NothingMissed
<1>8. QED
  BY <1>1, <1>2, <1>3, <1>4, <1>5, <1>6, <1>7 DEF ebNext

\* For any number of subscribers and any capacity of the channel, what a client
\* of GET /events/sse is sent keeps the order, repeats nothing and has no gap
\* unless the ring overtook it.
THEOREM StreamsAreFaithful == ebSpec => []StreamIsFaithful
<1>1. ebInv => StreamIsFaithful
  BY DEF ebInv, StreamIsFaithful
<1>2. QED
  BY <1>1, BusStarts, BusSteps, PTL DEF ebSpec
-----------------------------------------------------------------------------
(* SealRegistry                                                            *)

\* q is a sequence, of whatever elements.  A hash holds the hash before it, so
\* the entries of a chain have no set that could be written down.
IsSequence(q) == Len(q) \in Nat /\ q = [i \in 1..Len(q) |-> q[i]]

\* What appending does to a sequence of any elements.
LEMMA AppendToSequence ==
  ASSUME NEW q, NEW e, IsSequence(q)
  PROVE  /\ IsSequence(Append(q, e))
         /\ Len(Append(q, e)) = Len(q) + 1
         /\ \A i \in 1..Len(q) : Append(q, e)[i] = q[i]
         /\ Append(q, e)[Len(q) + 1] = e
<1> DEFINE S == {q[i] : i \in 1..Len(q)} \cup {e}
<1>1. q \in [1..Len(q) -> S] /\ Len(q) \in Nat
  BY DEF IsSequence
<1>2. q \in Seq(S)
  BY <1>1, IsASeq
<1>3. e \in S
  OBVIOUS
<1> HIDE DEF S
<1>4. /\ Append(q, e) \in Seq(S)
      /\ Len(Append(q, e)) = Len(q) + 1
      /\ \A i \in 1..Len(q) : Append(q, e)[i] = q[i]
      /\ Append(q, e)[Len(q) + 1] = e
  BY <1>2, <1>3, AppendProperties
<1>5. /\ Len(Append(q, e)) \in Nat
      /\ Append(q, e) \in [1..Len(Append(q, e)) -> S]
  BY <1>4, LenProperties
<1>6. Append(q, e) = [i \in 1..Len(Append(q, e)) |-> Append(q, e)[i]]
  BY <1>5
<1>7. QED
  BY <1>4, <1>5, <1>6 DEF IsSequence

\* A request has the six fields of its record.
RequestShape(r) ==
    r = [f \in {"pc", "tenant", "case", "link", "root", "status"} |-> r[f]]

\* The request has its entry in the chain of its tenant, and the entry's hash is
\* the root it was given.
HasOwnEntry(r, c) ==
    \E i \in 1..Len(srChains[r.tenant]) :
        /\ srChains[r.tenant][i].payload = <<c, r.case, r.link>>
        /\ srChains[r.tenant][i].hash = r.root

srInv ==
    /\ srCalls = [c \in Seals |-> srCalls[c]]
    /\ srChains = [t \in SealTenants |-> srChains[t]]
    /\ \A c \in Seals :
          /\ RequestShape(srCalls[c])
          /\ srCalls[c].pc \in {"append", "reply"} => srCalls[c].tenant \in SealTenants
          /\ srCalls[c].status = 200 => /\ srCalls[c].pc = "done"
                                        /\ srCalls[c].tenant \in SealTenants
          /\ srCalls[c].pc = "reply" \/ srCalls[c].status = 200 => HasOwnEntry(srCalls[c], c)
    /\ \A t \in SealTenants : IsSequence(srChains[t]) /\ ChainVerify(srChains[t])

\* The inductive invariant of SealRegistry holds initially.
LEMMA RegistryStarts == srInit => srInv
<1> SUFFICES ASSUME srInit PROVE srInv
  OBVIOUS
<1>1. IsSequence(<<>>) /\ ChainVerify(<<>>)
  BY DEF IsSequence, ChainVerify
<1>2. ASSUME NEW c \in Seals PROVE /\ RequestShape(srCalls[c])
                                   /\ srCalls[c].pc = "idle" /\ srCalls[c].status = 0
  BY DEF srInit, RequestShape
<1>3. /\ srCalls = [c \in Seals |-> srCalls[c]]
      /\ srChains = [t \in SealTenants |-> srChains[t]]
  BY DEF srInit
<1>4. \A t \in SealTenants : srChains[t] = <<>>
  BY DEF srInit
<1>5. QED
  BY <1>1, <1>2, <1>3, <1>4 DEF srInv

\* A hash is never the placeholder.
LEMMA HashIsNotGenesis == \A s, p, x : ComputeHash(s, p, x) # Genesis
<1> SUFFICES ASSUME NEW s, NEW p, NEW x PROVE <<s, p, x>> # <<>>
  BY DEF ComputeHash, Genesis
<1>1. Len(<<s, p, x>>) = 3 /\ Len(<<>>) = 0
  OBVIOUS
<1>2. QED
  BY <1>1

\* ChainRegistry::append keeps a chain that verifies one that verifies, with
\* the new entry at its end and the root of the new entry.
LEMMA AppendVerifies ==
  ASSUME NEW chn, NEW x, IsSequence(chn), ChainVerify(chn)
  PROVE  /\ IsSequence(ChainAppend(chn, x)) /\ ChainVerify(ChainAppend(chn, x))
         /\ Len(ChainAppend(chn, x)) = Len(chn) + 1
         /\ \A i \in 1..Len(chn) : ChainAppend(chn, x)[i] = chn[i]
         /\ ChainAppend(chn, x)[Len(chn) + 1].payload = x
         /\ ChainAppend(chn, x)[Len(chn) + 1].hash = ChainRoot(ChainAppend(chn, x))
<1> DEFINE e == [sequence |-> Len(chn), payload |-> x, prev |-> ChainRoot(chn),
                 hash |-> ComputeHash(Len(chn), ChainRoot(chn), x)]
           new == Append(chn, e)
<1>1. /\ e.sequence = Len(chn) /\ e.payload = x /\ e.prev = ChainRoot(chn)
      /\ e.hash = ComputeHash(Len(chn), ChainRoot(chn), x)
  OBVIOUS
<1>2. ChainAppend(chn, x) = new
  BY DEF ChainAppend
<1>3. (Len(chn) = 0) <=> (ChainRoot(chn) = Genesis)
  <2>1. CASE Len(chn) = 0
    <3>1. chn = <<>>
      BY <2>1 DEF IsSequence
    <3>2. QED
      BY <2>1, <3>1 DEF ChainRoot
  <2>2. CASE Len(chn) # 0
    <3>1. Len(chn) \in 1..Len(chn) /\ chn # <<>>
      BY <2>2 DEF IsSequence
    <3>2. \E s, p, y : ChainRoot(chn) = ComputeHash(s, p, y)
      BY <3>1 DEF ChainRoot, ChainVerify
    <3>3. QED
      BY <2>2, <3>2, HashIsNotGenesis
  <2>3. QED
    BY <2>1, <2>2
<1> HIDE DEF e
<1>4. /\ IsSequence(new) /\ Len(new) = Len(chn) + 1 /\ Len(chn) \in Nat
      /\ \A i \in 1..Len(chn) : new[i] = chn[i]
      /\ new[Len(chn) + 1] = e
  BY AppendToSequence DEF IsSequence
<1> HIDE DEF new
<1>5. ChainVerify(new)
  <2> SUFFICES ASSUME NEW i \in 1..Len(new)
               PROVE  /\ new[i].sequence = i - 1
                      /\ (i = 1) <=> (new[i].prev = Genesis)
                      /\ new[i].hash = ComputeHash(i - 1, new[i].prev, new[i].payload)
    BY DEF ChainVerify
  <2>1. CASE i \in 1..Len(chn)
    BY <1>4, <2>1 DEF ChainVerify
  <2>2. CASE i = Len(chn) + 1
    <3>1. i - 1 = Len(chn) /\ ((i = 1) <=> (Len(chn) = 0)) /\ new[i] = e
      BY <1>4, <2>2
    <3>2. QED
      BY <1>1, <1>3, <3>1
  <2>3. i \in 1..Len(chn) \/ i = Len(chn) + 1
    BY <1>4
  <2>4. QED
    BY <2>1, <2>2, <2>3
<1>6. new # <<>> /\ ChainRoot(new) = new[Len(new)].hash
  BY <1>4 DEF ChainRoot
<1>7. QED
  BY <1>1, <1>2, <1>4, <1>5, <1>6

\* Every step of every request keeps the invariant.
LEMMA RegistrySteps == srInv /\ [srNext]_srVars => srInv'
<1> SUFFICES ASSUME srInv, [srNext]_srVars PROVE srInv'
  OBVIOUS
<1>0. \A c \in Seals : RequestShape(srCalls[c])
  BY DEF srInv
<1>1. ASSUME NEW c \in Seals, NEW tn \in SealTenants, NEW cs \in SealCases, NEW ln \in SealLinks,
             NEW o \in BOOLEAN, SealRequest(c, tn, cs, ln, o)
      PROVE  srInv'
  <2>1. /\ srChains' = srChains
        /\ srCalls' = [d \in Seals |-> srCalls'[d]]
        /\ \A d \in Seals : d # c => srCalls'[d] = srCalls[d]
    BY <1>1, ZenonT(60) DEF SealRequest, srInv
  <2>2. \/ srCalls'[c] = [srCalls[c] EXCEPT !.pc = "done", !.status = 400]
        \/ srCalls'[c] = [srCalls[c] EXCEPT !.pc = "append", !.tenant = tn, !.case = cs, !.link = ln]
    BY <1>1, ZenonT(60) DEF SealRequest, srInv
  <2>3. srCalls[c].pc = "idle" /\ srCalls[c].status # 200
    BY <1>1, ZenonT(60) DEF SealRequest, srInv
  <2>4. /\ RequestShape(srCalls'[c]) /\ srCalls'[c].status # 200
        /\ \/ srCalls'[c].pc = "done"
           \/ srCalls'[c].pc = "append" /\ srCalls'[c].tenant = tn
    <3> DEFINE r == srCalls[c]
               u == srCalls'[c]
    <3>1. /\ RequestShape(r) /\ r.status # 200
          /\ \/ u = [r EXCEPT !.pc = "done", !.status = 400]
             \/ u = [r EXCEPT !.pc = "append", !.tenant = tn, !.case = cs, !.link = ln]
      BY <1>0, <2>2, <2>3
    <3> HIDE DEF r, u
    <3>2. /\ RequestShape(u) /\ u.status # 200
          /\ u.pc = "done" \/ (u.pc = "append" /\ u.tenant = tn)
      <4>1. CASE u = [r EXCEPT !.pc = "done", !.status = 400]
        <5>1. RequestShape(u)
          BY <3>1, <4>1, ZenonT(60) DEF RequestShape
        <5>2. u.status = 400 /\ u.pc = "done"
          BY <3>1, <4>1 DEF RequestShape
        <5>3. QED
          BY <5>1, <5>2
      <4>2. CASE u = [r EXCEPT !.pc = "append", !.tenant = tn, !.case = cs, !.link = ln]
        <5>1. RequestShape(u)
          BY <3>1, <4>2, ZenonT(60) DEF RequestShape
        <5>2. u.pc = "append" /\ u.tenant = tn /\ u.status = r.status
          BY <3>1, <4>2 DEF RequestShape
        <5>3. QED
          BY <3>1, <5>1, <5>2
      <4>3. QED
        BY <3>1, <4>1, <4>2
    <3>3. QED
      BY <3>2 DEF u
  <2>5. \A d \in Seals : d # c => HasOwnEntry(srCalls[d], d)' = HasOwnEntry(srCalls[d], d)
    BY <2>1 DEF HasOwnEntry
  <2>6. QED
    BY <2>1, <2>4, <2>5 DEF srInv
<1>2. ASSUME NEW c \in Seals, RegistryAppend(c) PROVE srInv'
  <2> DEFINE tn == srCalls[c].tenant
             old == srChains[tn]
             new == ChainAppend(old, <<c, srCalls[c].case, srCalls[c].link>>)
  <2>1. /\ tn \in SealTenants /\ srCalls[c].pc = "append" /\ srCalls[c].status # 200
        /\ IsSequence(old) /\ ChainVerify(old)
    BY <1>2, ZenonT(60) DEF RegistryAppend, srInv
  <2>2. /\ IsSequence(new) /\ ChainVerify(new)
        /\ Len(new) = Len(old) + 1
        /\ \A i \in 1..Len(old) : new[i] = old[i]
        /\ new[Len(old) + 1].payload = <<c, srCalls[c].case, srCalls[c].link>>
        /\ new[Len(old) + 1].hash = ChainRoot(new)
    <3> DEFINE p == <<c, srCalls[c].case, srCalls[c].link>>
               app == ChainAppend(old, p)
    <3> HIDE DEF p
    <3>1. /\ IsSequence(app) /\ ChainVerify(app)
          /\ Len(app) = Len(old) + 1
          /\ \A i \in 1..Len(old) : app[i] = old[i]
          /\ app[Len(old) + 1].payload = p
          /\ app[Len(old) + 1].hash = ChainRoot(app)
      <4> HIDE DEF old
      <4>1. IsSequence(old) /\ ChainVerify(old)
        BY <2>1
      <4>2. QED
        BY <4>1, AppendVerifies
    <3>2. QED
      BY <3>1 DEF p
  <2>3. /\ srChains' = [srChains EXCEPT ![tn] = new]
        /\ srCalls' = [srCalls EXCEPT ![c].pc = "reply", ![c].root = ChainRoot(new)]
    BY <1>2 DEF RegistryAppend
  <2> HIDE DEF new
  <2>4. /\ srChains' = [t \in SealTenants |-> srChains'[t]]
        /\ srChains'[tn] = new
        /\ \A t \in SealTenants : t # tn => srChains'[t] = srChains[t]
    BY <2>1, <2>3 DEF srInv
  <2>5. /\ srCalls' = [d \in Seals |-> srCalls'[d]]
        /\ \A d \in Seals : d # c => srCalls'[d] = srCalls[d]
        /\ srCalls'[c] = [srCalls[c] EXCEPT !.pc = "reply", !.root = ChainRoot(new)]
    BY <2>3 DEF srInv
  <2>6. /\ RequestShape(srCalls'[c]) /\ srCalls'[c].pc = "reply"
        /\ srCalls'[c].tenant = tn /\ srCalls'[c].case = srCalls[c].case
        /\ srCalls'[c].link = srCalls[c].link
        /\ srCalls'[c].root = ChainRoot(new) /\ srCalls'[c].status # 200
    <3> DEFINE r == srCalls[c]
               u == srCalls'[c]
               h == ChainRoot(new)
    <3>1. RequestShape(r) /\ r.status # 200 /\ u = [r EXCEPT !.pc = "reply", !.root = h]
      BY <1>0, <2>1, <2>5
    <3> HIDE DEF r, u, h
    <3>2. /\ RequestShape(u) /\ u.pc = "reply" /\ u.root = h /\ u.status # 200
          /\ u.tenant = r.tenant /\ u.case = r.case /\ u.link = r.link
      BY <3>1, ZenonT(60) DEF RequestShape
    <3>3. QED
      BY <3>2 DEF r, u, h
  <2>7. HasOwnEntry(srCalls[c], c)' 
    <3>1. Len(old) + 1 \in 1..Len(new)
      BY <2>1, <2>2 DEF IsSequence
    <3>2. QED
      BY <2>2, <2>4, <2>6, <3>1, SMTT(60) DEF HasOwnEntry
  <2>8. ASSUME NEW d \in Seals, d # c, HasOwnEntry(srCalls[d], d), srCalls[d].tenant \in SealTenants
        PROVE  HasOwnEntry(srCalls[d], d)'
    <3>1. CASE srCalls[d].tenant = tn
      <4>1. Len(old) \in Nat /\ Len(new) \in Nat /\ Len(old) <= Len(new)
        BY <2>1, <2>2, SMTT(60) DEF IsSequence
      <4>2. \E i \in 1..Len(old) : old[i].payload = <<d, srCalls[d].case, srCalls[d].link>>
                                   /\ old[i].hash = srCalls[d].root
        BY <2>8, <3>1, SMTT(60) DEF HasOwnEntry
      <4>3. PICK i \in 1..Len(old) : old[i].payload = <<d, srCalls[d].case, srCalls[d].link>>
                                     /\ old[i].hash = srCalls[d].root
        BY <4>2
      <4>4. i \in 1..Len(new) /\ new[i] = old[i]
        BY <2>2, <4>1
      <4>5. srCalls'[d] = srCalls[d] /\ srChains'[srCalls'[d].tenant] = new
        BY <2>4, <2>5, <2>8, <3>1, SMTT(60)
      <4>6. QED
        BY <4>3, <4>4, <4>5, SMTT(60) DEF HasOwnEntry
    <3>2. CASE srCalls[d].tenant # tn
      BY <2>4, <2>5, <2>8, <3>2 DEF HasOwnEntry
    <3>3. QED
      BY <3>1, <3>2
  <2>9. ASSUME NEW d \in Seals
        PROVE /\ RequestShape(srCalls'[d])
              /\ srCalls'[d].pc \in {"append", "reply"} => srCalls'[d].tenant \in SealTenants
              /\ srCalls'[d].status = 200 => /\ srCalls'[d].pc = "done"
                                             /\ srCalls'[d].tenant \in SealTenants
              /\ srCalls'[d].pc = "reply" \/ srCalls'[d].status = 200
                    => HasOwnEntry(srCalls[d], d)'
    <3>1. CASE d = c
      BY <2>1, <2>6, <2>7, <3>1
    <3>2. CASE d # c
      BY <2>5, <2>8, <3>2, SMTT(60) DEF srInv
    <3>3. QED
      BY <3>1, <3>2
  <2>10. \A t \in SealTenants : IsSequence(srChains'[t]) /\ ChainVerify(srChains'[t])
    BY <2>2, <2>4 DEF srInv
  <2>11. QED
    BY <2>4, <2>5, <2>9, <2>10, SMTT(60) DEF srInv
<1>3. ASSUME NEW c \in Seals, SealReply(c) PROVE srInv'
  <2>1. /\ srChains' = srChains
        /\ srCalls' = [d \in Seals |-> srCalls'[d]]
        /\ \A d \in Seals : d # c => srCalls'[d] = srCalls[d]
        /\ srCalls'[c] = [srCalls[c] EXCEPT !.pc = "done", !.status = 200]
        /\ srCalls[c].pc = "reply"
    BY <1>3 DEF SealReply, srInv
  <2>2. /\ RequestShape(srCalls'[c]) /\ srCalls'[c].pc = "done"
        /\ srCalls'[c].tenant = srCalls[c].tenant /\ srCalls'[c].case = srCalls[c].case
        /\ srCalls'[c].link = srCalls[c].link
        /\ srCalls'[c].root = srCalls[c].root
    <3> DEFINE r == srCalls[c]
               u == srCalls'[c]
    <3>1. RequestShape(r) /\ u = [r EXCEPT !.pc = "done", !.status = 200]
      BY <1>0, <2>1
    <3> HIDE DEF r, u
    <3>2. /\ RequestShape(u) /\ u.pc = "done" /\ u.root = r.root
          /\ u.tenant = r.tenant /\ u.case = r.case /\ u.link = r.link
      BY <3>1, ZenonT(60) DEF RequestShape
    <3>3. QED
      BY <3>2 DEF r, u
  <2>3. HasOwnEntry(srCalls[c], c) /\ srCalls[c].tenant \in SealTenants
    BY <2>1 DEF srInv
  <2>4. HasOwnEntry(srCalls[c], c)'
    BY <2>1, <2>2, <2>3 DEF HasOwnEntry
  <2>5. \A d \in Seals : d # c => HasOwnEntry(srCalls[d], d)' = HasOwnEntry(srCalls[d], d)
    BY <2>1, SMTT(60) DEF HasOwnEntry
  <2>6. ASSUME NEW d \in Seals
        PROVE /\ RequestShape(srCalls'[d])
              /\ srCalls'[d].pc \in {"append", "reply"} => srCalls'[d].tenant \in SealTenants
              /\ srCalls'[d].status = 200 => /\ srCalls'[d].pc = "done"
                                             /\ srCalls'[d].tenant \in SealTenants
              /\ srCalls'[d].pc = "reply" \/ srCalls'[d].status = 200
                    => HasOwnEntry(srCalls[d], d)'
    <3>1. CASE d = c
      BY <2>2, <2>3, <2>4, <3>1
    <3>2. CASE d # c
      BY <2>1, <2>5, <3>2 DEF srInv
    <3>3. QED
      BY <3>1, <3>2
  <2>7. QED
    BY <2>1, <2>6 DEF srInv
<1>4. CASE UNCHANGED srVars
  BY <1>4, ZenonT(60) DEF srVars, srInv, HasOwnEntry
<1>5. QED
  BY <1>1, <1>2, <1>3, <1>4 DEF srNext

\* For any number of concurrent POST /seal requests and tenants, an answer's
\* root is the hash of the request's own entry in its tenant's chain, and the
\* chain verifies.
THEOREM RootsAreOfOwnSeals == srSpec => []RootIsOfOwnSeal
<1>1. srInv => RootIsOfOwnSeal
  <2> SUFFICES ASSUME srInv, NEW c \in Seals, srCalls[c].status = 200
               PROVE  /\ ChainVerify(srChains[srCalls[c].tenant])
                      /\ HasOwnEntry(srCalls[c], c)
    BY DEF RootIsOfOwnSeal, HasOwnEntry
  <2> QED
    BY DEF srInv
<1>2. QED
  BY <1>1, RegistryStarts, RegistrySteps, PTL DEF srSpec
-----------------------------------------------------------------------------
(* HashChain and EvidenceService                                           *)

\* The hash of an entry is never the placeholder.
LEMMA EntryHashIsNotZeros == \A s, p, x : EntryHash(s, p, x) # Zeros
<1> SUFFICES ASSUME NEW s, NEW p, NEW x PROVE <<s, p, x>> # <<>>
  BY DEF EntryHash, Zeros
<1>1. Len(<<s, p, x>>) = 3 /\ Len(<<>>) = 0
  OBVIOUS
<1>2. QED
  BY <1>1

\* append_with_timestamp keeps a linked chain linked and adds one entry at its
\* end.
LEMMA AppendLinks ==
  ASSUME NEW chn, NEW x, NEW n, IsSequence(chn), Linked(chn)
  PROVE  /\ IsSequence(AppendEntry(chn, x, n)) /\ Linked(AppendEntry(chn, x, n))
         /\ Len(AppendEntry(chn, x, n)) = Len(chn) + 1
         /\ \A i \in 1..Len(chn) : AppendEntry(chn, x, n)[i] = chn[i]
         /\ AppendEntry(chn, x, n)[Len(chn) + 1].payload = x
<1> DEFINE e == [sequence |-> Len(chn), payload |-> x, prev_hash |-> LatestHash(chn),
                 blake3_hash |-> EntryHash(Len(chn), LatestHash(chn), x), created_at |-> n]
           new == Append(chn, e)
<1>1. /\ e.sequence = Len(chn) /\ e.payload = x /\ e.prev_hash = LatestHash(chn)
      /\ e.blake3_hash = EntryHash(Len(chn), LatestHash(chn), x)
  OBVIOUS
<1>2. AppendEntry(chn, x, n) = new
  BY DEF AppendEntry
<1> HIDE DEF e
<1>3. /\ IsSequence(new) /\ Len(new) = Len(chn) + 1 /\ Len(chn) \in Nat
      /\ \A i \in 1..Len(chn) : new[i] = chn[i]
      /\ new[Len(chn) + 1] = e
  BY AppendToSequence DEF IsSequence
<1> HIDE DEF new
<1>4. LatestHash(chn) = IF Len(chn) = 0 THEN Zeros ELSE chn[Len(chn)].blake3_hash
  <2>1. (chn = <<>>) <=> (Len(chn) = 0)
    BY DEF IsSequence
  <2>2. QED
    BY <2>1 DEF LatestHash
<1>5. Linked(new)
  <2> SUFFICES ASSUME NEW i \in 1..Len(new)
               PROVE  /\ new[i].sequence = i - 1
                      /\ new[i].prev_hash = IF i = 1 THEN Zeros ELSE new[i - 1].blake3_hash
                      /\ new[i].blake3_hash = EntryHash(new[i].sequence, new[i].prev_hash,
                                                        new[i].payload)
    BY DEF Linked
  <2>1. CASE i \in 1..Len(chn)
    <3>1. new[i] = chn[i] /\ (i # 1 => i - 1 \in 1..Len(chn) /\ new[i - 1] = chn[i - 1])
      BY <1>3, <2>1
    <3>2. QED
      BY <2>1, <3>1, SMTT(60) DEF Linked
  <2>2. CASE i = Len(chn) + 1
    <3>1. new[i] = e /\ i - 1 = Len(chn)
      BY <1>3, <2>2
    <3>2. e.prev_hash = IF i = 1 THEN Zeros ELSE new[i - 1].blake3_hash
      <4>1. CASE Len(chn) = 0
        BY <1>1, <1>4, <2>2, <4>1
      <4>2. CASE Len(chn) # 0
        <5>1. Len(chn) \in 1..Len(chn) /\ i # 1
          BY <1>3, <2>2, <4>2
        <5>2. QED
          BY <1>1, <1>3, <1>4, <3>1, <4>2, <5>1
      <4>3. QED
        BY <4>1, <4>2
    <3>3. QED
      BY <1>1, <3>1, <3>2
  <2>3. i \in 1..Len(chn) \/ i = Len(chn) + 1
    BY <1>3
  <2>4. QED
    BY <2>1, <2>2, <2>3
<1>6. QED
  BY <1>1, <1>2, <1>3, <1>5

\* A chain that append built passes HashChain::verify.
LEMMA LinkedVerifies ==
  ASSUME NEW chn, IsSequence(chn), Linked(chn)
  PROVE  Verify(chn)
<1> SUFFICES ASSUME NEW i \in 1..Len(chn)
             PROVE  EntryVerifies(chn[i], LatestHash(SubSeq(chn, 1, i - 1)))
  BY DEF Verify
<1>1. Len(chn) \in Nat
  BY DEF IsSequence
<1>2. /\ chn[i].sequence = i - 1
      /\ chn[i].prev_hash = IF i = 1 THEN Zeros ELSE chn[i - 1].blake3_hash
      /\ chn[i].blake3_hash = EntryHash(chn[i].sequence, chn[i].prev_hash, chn[i].payload)
  BY DEF Linked
<1>3. CASE i = 1
  <2>1. SubSeq(chn, 1, i - 1) = <<>>
    BY <1>3
  <2>2. QED
    BY <1>2, <1>3, <2>1 DEF EntryVerifies, LatestHash
<1>4. CASE i # 1
  <2>1. i - 1 \in 1..Len(chn) /\ i - 1 > 0
    BY <1>1, <1>4
  <2>2. chn[i].prev_hash # Zeros
    BY <1>2, <1>4, <2>1, EntryHashIsNotZeros DEF Linked
  <2>3. QED
    BY <1>2, <2>1, <2>2 DEF EntryVerifies
<1>5. QED
  BY <1>3, <1>4

\* No call is in the queue of the mutex twice.
NoRepeats(q) == \A i, j \in 1..Len(q) : q[i] = q[j] => i = j

\* A call that leaves the queue leaves the others in it, in their order.
LEMMA LeavingTheQueue ==
  ASSUME NEW q \in Seq(Calls), NEW c \in Calls, NoRepeats(q)
  PROVE  /\ Without(q, c) \in Seq(Calls) /\ NoRepeats(Without(q, c))
         /\ \A i \in 1..Len(Without(q, c)) :
               \E j \in 1..Len(q) : q[j] = Without(q, c)[i] /\ q[j] # c
         /\ q # <<>> /\ q[1] # c => Without(q, c) # <<>> /\ Without(q, c)[1] = q[1]
<1>0. Len(q) \in Nat /\ q \in [1..Len(q) -> Calls]
  BY LenProperties
<1>1. CASE \A i \in 1..Len(q) : q[i] # c
  <2>1. Without(q, c) = q
    BY <1>1 DEF Without
  <2>2. QED
    BY <1>1, <2>1
<1>2. CASE ~(\A i \in 1..Len(q) : q[i] # c)
  <2> DEFINE k == CHOOSE i \in 1..Len(q) : q[i] = c
             m == Len(q) - 1
             w == [i \in 1..m |-> IF i < k THEN q[i] ELSE q[i + 1]]
  <2>1. k \in 1..Len(q) /\ q[k] = c
    BY <1>2
  <2>2. Without(q, c) = w
    BY <1>2 DEF Without
  <2> HIDE DEF k
  <2>3. m \in Nat
    BY <1>0, <2>1
  <2>4. ASSUME NEW i \in 1..m
        PROVE  /\ i < k => w[i] = q[i] /\ i \in 1..Len(q)
               /\ ~(i < k) => w[i] = q[i + 1] /\ i + 1 \in 1..Len(q) /\ i + 1 # k
               /\ w[i] \in Calls
    BY <1>0, <2>1, <2>3
  <2>5. w \in [1..m -> Calls]
    BY <2>4
  <2>6. w \in Seq(Calls) /\ Len(w) = m
    BY <2>3, <2>5
  <2> HIDE DEF w
  <2>7. NoRepeats(w)
    <3> SUFFICES ASSUME NEW i \in 1..m, NEW j \in 1..m, w[i] = w[j] PROVE i = j
      BY <2>6 DEF NoRepeats
    <3>1. CASE i < k /\ j < k
      BY <2>4, <3>1 DEF NoRepeats
    <3>2. CASE i < k /\ ~(j < k)
      <4>1. i = j + 1
        BY <2>4, <3>2 DEF NoRepeats
      <4>2. QED
        BY <2>1, <3>2, <4>1
    <3>3. CASE ~(i < k) /\ j < k
      <4>1. j = i + 1
        BY <2>4, <3>3 DEF NoRepeats
      <4>2. QED
        BY <2>1, <3>3, <4>1
    <3>4. CASE ~(i < k) /\ ~(j < k)
      <4>1. i + 1 = j + 1
        BY <2>4, <3>4 DEF NoRepeats
      <4>2. QED
        BY <4>1
    <3>5. QED
      BY <3>1, <3>2, <3>3, <3>4
  <2>8. ASSUME NEW i \in 1..m PROVE \E j \in 1..Len(q) : q[j] = w[i] /\ q[j] # c
    <3>1. CASE i < k
      <4>1. i # k /\ i \in 1..Len(q) /\ w[i] = q[i]
        BY <2>1, <2>4, <3>1
      <4>2. QED
        BY <2>1, <4>1 DEF NoRepeats
    <3>2. CASE ~(i < k)
      BY <2>1, <2>4, <3>2 DEF NoRepeats
    <3>3. QED
      BY <3>1, <3>2
  <2>9. ASSUME q # <<>>, q[1] # c PROVE w # <<>> /\ w[1] = q[1]
    <3>1. 1 < k /\ 1 \in 1..m
      BY <1>0, <2>1, <2>9
    <3>2. QED
      BY <2>4, <2>6, <3>1
  <2>10. QED
    BY <2>2, <2>6, <2>7, <2>8, <2>9
<1>3. QED
  BY <1>1, <1>2

\* The calls that have had the mutex.
Begun == {c \in Calls : pc[c] \notin {"idle", "waiting"}}

\* Every tenant's chain was built by append, at most one entry for each call
\* that has had the mutex.
ChainsAreBuilt ==
    /\ chain = [t \in Tenants |-> chain[t]]
    /\ \A t \in Tenants : IsSequence(chain[t]) /\ Linked(chain[t])
                          /\ Len(chain[t]) <= Cardinality(Begun)

\* The queue of the mutex holds calls that wait or have it, none twice.
QueueIsSound ==
    /\ queue \in Seq(Calls) /\ NoRepeats(queue)
    /\ \A i \in 1..Len(queue) : pc[queue[i]] \in {"waiting", "stamping"}

\* A call that awaits the authority has the mutex, and its own entry is the
\* last one of its tenant's chain.
OwnEntryIsLast(c) ==
    /\ queue # <<>> /\ queue[1] = c
    /\ tenant[c] \in Tenants
    /\ Len(chain[tenant[c]]) >= 1
    /\ chain[tenant[c]][Len(chain[tenant[c]])].payload = c
StampingHasTheMutex == \A c \in Calls : pc[c] = "stamping" => OwnEntryIsLast(c)

\* Packets are of this life or of an earlier one.
PacketsArePast == \A p \in issued : p.tenant \in Tenants /\ p.life <= life

\* The scalar part of the type invariant.
esScalars ==
    /\ pc \in [Calls -> Points]
    /\ tenant \in [Calls -> Tenants \cup Strangers \cup {"none"}]
    /\ stamp \in [Calls -> Stamps \cup {"none"}]
    /\ issued \subseteq [call : Calls, tenant : Tenants, chain_length : Nat, life : 0..MaxStarts]
    /\ clock \in 0..MaxClock
    /\ life \in 0..MaxStarts

esInv ==
    /\ esScalars /\ ChainsAreBuilt /\ QueueIsSound /\ StampingHasTheMutex
    /\ PacketsArePast /\ PacketsNameTheirEntry

\* The inductive invariant gives the type invariant and both safety properties
\* of the evidence service.
LEMMA ServiceIsSound == esInv => esTypeOK /\ EvidenceIsLinked
<1> SUFFICES ASSUME esInv PROVE esTypeOK /\ EvidenceIsLinked
  OBVIOUS
<1>1. Begun \subseteq Calls
  BY DEF Begun
<1>2. /\ IsFiniteSet(Begun) /\ Cardinality(Begun) <= Cardinality(Calls)
      /\ Cardinality(Begun) \in Nat /\ Cardinality(Calls) \in Nat
  BY <1>1, CallsAssumption, FS_Subset, FS_CardinalityType
<1>3. ASSUME NEW t \in Tenants PROVE Len(chain[t]) <= Cardinality(Calls)
  BY <1>2 DEF esInv, ChainsAreBuilt, IsSequence
<1>4. ASSUME NEW p \in issued PROVE Verifies(p)
  BY LinkedVerifies DEF esInv, ChainsAreBuilt, PacketsArePast, Verifies
<1>5. QED
  BY <1>3, <1>4
     DEF esInv, esScalars, ChainsAreBuilt, QueueIsSound, esTypeOK, EvidenceIsLinked, ChainsAreLinked

\* The inductive invariant of EvidenceService holds initially.
LEMMA ServiceStarts == esInit => esInv
<1> SUFFICES ASSUME esInit PROVE esInv
  OBVIOUS
<1>1. esScalars
  BY BoundsAssumption DEF esInit, esScalars, Points, Stamps
<1>2. ChainsAreBuilt
  <2>1. Begun = {}
    BY DEF esInit, Begun
  <2>2. Cardinality(Begun) = 0
    BY <2>1, FS_EmptySet
  <2>3. IsSequence(<<>>) /\ Linked(<<>>) /\ Len(<<>>) = 0
    BY DEF IsSequence, Linked
  <2>4. chain = [t \in Tenants |-> <<>>]
    BY DEF esInit
  <2>5. QED
    BY <2>2, <2>3, <2>4 DEF ChainsAreBuilt
<1>3. QueueIsSound
  BY DEF esInit, QueueIsSound, NoRepeats
<1>4. StampingHasTheMutex /\ PacketsArePast /\ PacketsNameTheirEntry
  BY DEF esInit, StampingHasTheMutex, PacketsArePast, PacketsNameTheirEntry
<1>5. QED
  BY <1>1, <1>2, <1>3, <1>4 DEF esInv

\* A call that was waiting or done moves on: at most it joins those that have
\* had the mutex, and their number does not go down.
LEMMA BegunGrows ==
  ASSUME esScalars, pc' \in [Calls -> Points],
         \A d \in Calls : pc[d] \notin {"idle", "waiting"} => pc'[d] \notin {"idle", "waiting"}
  PROVE  /\ IsFiniteSet(Begun) /\ IsFiniteSet(Begun')
         /\ Cardinality(Begun) \in Nat /\ Cardinality(Begun') \in Nat
         /\ Cardinality(Begun) <= Cardinality(Begun')
<1>1. Begun \subseteq Begun' /\ Begun' \subseteq Calls
  BY DEF Begun
<1>2. IsFiniteSet(Begun')
  BY <1>1, CallsAssumption, FS_Subset
<1>3. QED
  BY <1>1, <1>2, FS_Subset, FS_CardinalityType

\* A step that appends nothing keeps the chains as they were built.
LEMMA ChainsUntouched ==
  ASSUME esScalars, ChainsAreBuilt, chain' = chain, pc' \in [Calls -> Points],
         \A d \in Calls : pc[d] \notin {"idle", "waiting"} => pc'[d] \notin {"idle", "waiting"}
  PROVE  ChainsAreBuilt'
<1>1. /\ Cardinality(Begun) \in Nat /\ Cardinality(Begun') \in Nat
      /\ Cardinality(Begun) <= Cardinality(Begun')
  BY BegunGrows
<1>2. ASSUME NEW t \in Tenants
      PROVE  IsSequence(chain[t]) /\ Linked(chain[t]) /\ Len(chain[t]) <= Cardinality(Begun')
  BY <1>1 DEF ChainsAreBuilt, IsSequence
<1>3. QED
  BY <1>2 DEF ChainsAreBuilt

\* A call that gives the mutex back, or stops waiting for it, leaves the chains
\* and the calls behind it as they were.
LEMMA CallLeaves ==
  ASSUME esInv, NEW c \in Calls, NEW p \in {"sealed", "failed", "dropped"},
         pc[c] \in {"waiting", "stamping"}, queue' = Without(queue, c),
         pc' = [pc EXCEPT ![c] = p], UNCHANGED <<chain, tenant>>
  PROVE  pc' \in [Calls -> Points] /\ ChainsAreBuilt' /\ QueueIsSound' /\ StampingHasTheMutex'
<1>0. /\ esScalars /\ ChainsAreBuilt /\ QueueIsSound /\ StampingHasTheMutex
      /\ queue \in Seq(Calls) /\ NoRepeats(queue) /\ pc \in [Calls -> Points]
      /\ \A i \in 1..Len(queue) : pc[queue[i]] \in {"waiting", "stamping"} /\ queue[i] \in Calls
  BY LenProperties DEF esInv, QueueIsSound, esScalars
<1>1. /\ queue' \in Seq(Calls) /\ NoRepeats(queue')
      /\ \A i \in 1..Len(queue') : \E j \in 1..Len(queue) : queue[j] = queue'[i] /\ queue[j] # c
      /\ queue # <<>> /\ queue[1] # c => queue' # <<>> /\ queue'[1] = queue[1]
  <2> DEFINE w == Without(queue, c)
  <2>1. queue \in Seq(Calls) /\ NoRepeats(queue)
    BY <1>0
  <2>2. /\ w \in Seq(Calls) /\ NoRepeats(w)
        /\ \A i \in 1..Len(w) : \E j \in 1..Len(queue) : queue[j] = w[i] /\ queue[j] # c
        /\ queue # <<>> /\ queue[1] # c => w # <<>> /\ w[1] = queue[1]
    BY ONLY <2>1, c \in Calls, LeavingTheQueue, Zenon
  <2>3. queue' = w
    OBVIOUS
  <2> HIDE DEF w
  <2>4. QED
    BY <2>2, <2>3, ZenonT(60)
<1>2. pc' \in [Calls -> Points] /\ \A d \in Calls : d # c => pc'[d] = pc[d]
  BY <1>0 DEF Points
<1>3. pc'[c] = p
  BY <1>0
<1>4. ChainsAreBuilt'
  <2>1. \A d \in Calls : pc[d] \notin {"idle", "waiting"} => pc'[d] \notin {"idle", "waiting"}
    BY <1>2, <1>3
  <2>2. QED
    BY <1>0, <1>2, <2>1, ChainsUntouched
<1>5. QueueIsSound'
  <2>1. ASSUME NEW i \in 1..Len(queue') PROVE pc'[queue'[i]] \in {"waiting", "stamping"}
    <3>1. PICK j \in 1..Len(queue) : queue[j] = queue'[i] /\ queue[j] # c
      BY <1>1
    <3>2. pc'[queue[j]] = pc[queue[j]]
      BY <1>0, <1>2, <3>1
    <3>3. QED
      BY <1>0, <3>1, <3>2
  <2>2. QED
    BY <1>1, <2>1 DEF QueueIsSound
<1>6. StampingHasTheMutex'
  <2> SUFFICES ASSUME NEW d \in Calls, pc'[d] = "stamping" PROVE OwnEntryIsLast(d)'
    BY DEF StampingHasTheMutex
  <2>1. d # c /\ pc[d] = "stamping"
    BY <1>2, <1>3
  <2>2. OwnEntryIsLast(d)
    BY <1>0, <2>1 DEF StampingHasTheMutex
  <2>3. queue' # <<>> /\ queue'[1] = d
    BY <1>1, <2>1, <2>2 DEF OwnEntryIsLast
  <2>4. QED
    BY <2>2, <2>3 DEF OwnEntryIsLast
<1>7. QED
  BY <1>2, <1>4, <1>5, <1>6

\* Every step of every call, of the clock and of the process keeps the
\* invariant.
LEMMA ServiceSteps == esInv /\ [esNext]_esVars => esInv'
<1> SUFFICES ASSUME esInv, [esNext]_esVars PROVE esInv'
  OBVIOUS
<1> USE BoundsAssumption
<1>0. /\ esScalars /\ ChainsAreBuilt /\ QueueIsSound /\ StampingHasTheMutex
      /\ PacketsArePast /\ PacketsNameTheirEntry
      /\ queue \in Seq(Calls) /\ Len(queue) \in Nat /\ queue \in [1..Len(queue) -> Calls]
      /\ pc \in [Calls -> Points]
  BY LenProperties DEF esInv, QueueIsSound, esScalars
<1>1. ASSUME NEW c \in Calls, NEW t \in Tenants \cup Strangers, Ask(c, t) PROVE esInv'
  <2>1. /\ pc[c] = "idle" /\ queue' = Append(queue, c) /\ pc' = [pc EXCEPT ![c] = "waiting"]
        /\ UNCHANGED <<chain, stamp, issued, clock, life>>
        /\ tenant' = [tenant EXCEPT ![c] = t]
    BY <1>1 DEF Ask, Goto
  <2>2. esScalars'
    BY <1>0, <2>1 DEF esScalars, Points
  <2>3. ChainsAreBuilt'
    <3>1. /\ pc' \in [Calls -> Points]
          /\ \A d \in Calls : pc[d] \notin {"idle", "waiting"} => pc'[d] \notin {"idle", "waiting"}
      BY <1>0, <2>1, <2>2 DEF esScalars
    <3>2. QED
      BY <1>0, <2>1, <3>1, ChainsUntouched
  <2>4. /\ queue' \in Seq(Calls) /\ Len(queue') = Len(queue) + 1
        /\ \A i \in 1..Len(queue) : queue'[i] = queue[i]
        /\ queue'[Len(queue) + 1] = c
    BY <1>0, <2>1, AppendProperties
  <2>5. ASSUME NEW i \in 1..Len(queue') PROVE i \in 1..Len(queue) \/ i = Len(queue) + 1
    BY <1>0, <2>4
  <2>6. \A i \in 1..Len(queue) : queue[i] # c /\ queue[i] \in Calls
    BY <1>0, <2>1 DEF QueueIsSound
  <2>7. QueueIsSound'
    <3>1. NoRepeats(queue')
      BY <1>0, <2>4, <2>5, <2>6 DEF NoRepeats, QueueIsSound
    <3>2. \A i \in 1..Len(queue') : pc'[queue'[i]] \in {"waiting", "stamping"}
      BY <1>0, <2>1, <2>4, <2>5, <2>6 DEF QueueIsSound
    <3>3. QED
      BY <2>4, <3>1, <3>2 DEF QueueIsSound
  <2>8. StampingHasTheMutex'
    <3> SUFFICES ASSUME NEW d \in Calls, pc'[d] = "stamping" PROVE OwnEntryIsLast(d)'
      BY DEF StampingHasTheMutex
    <3>1. d # c /\ pc[d] = "stamping" /\ OwnEntryIsLast(d)
      BY <1>0, <2>1 DEF StampingHasTheMutex
    <3>2. tenant'[d] = tenant[d] /\ queue # <<>> /\ 1 \in 1..Len(queue)
      BY <1>0, <2>1, <3>1 DEF OwnEntryIsLast, esScalars
    <3>3. queue'[1] = queue[1] /\ queue' # <<>>
      BY <2>4, <3>2
    <3>4. QED
      BY <2>1, <3>1, <3>2, <3>3 DEF OwnEntryIsLast
  <2>9. PacketsArePast' /\ PacketsNameTheirEntry'
    BY <1>0, <2>1 DEF PacketsArePast, PacketsNameTheirEntry
  <2>10. QED
    BY <2>2, <2>3, <2>7, <2>8, <2>9 DEF esInv
<1>2. ASSUME NEW c \in Calls, Chain(c) PROVE esInv'
  <2> DEFINE tn == tenant[c]
             old == chain[tn]
             new == AppendEntry(old, c, clock)
  <2>1. /\ pc[c] = "waiting" /\ queue # <<>> /\ Head(queue) = c /\ tn \in Tenants
        /\ chain' = [chain EXCEPT ![tn] = new]
        /\ pc' = [pc EXCEPT ![c] = "stamping"]
        /\ UNCHANGED <<queue, tenant, stamp, issued, clock, life>>
    BY <1>2 DEF Chain, Holds, Sealable, Goto
  <2>2. queue[1] = c
    BY <1>0, <2>1
  <2>3. IsSequence(old) /\ Linked(old) /\ Len(old) <= Cardinality(Begun) /\ Len(old) \in Nat
    BY <1>0, <2>1 DEF ChainsAreBuilt, IsSequence
  <2>4. /\ IsSequence(new) /\ Linked(new) /\ Len(new) = Len(old) + 1
        /\ \A i \in 1..Len(old) : new[i] = old[i]
        /\ new[Len(old) + 1].payload = c
    BY <2>3, AppendLinks, SMTT(60)
  <2> HIDE DEF new
  <2>5. /\ chain' = [t \in Tenants |-> chain'[t]] /\ chain'[tn] = new
        /\ \A t \in Tenants : t # tn => chain'[t] = chain[t]
    BY <1>0, <2>1 DEF ChainsAreBuilt
  <2>6. esScalars'
    BY <1>0, <2>1 DEF esScalars, Points
  <2>7. ChainsAreBuilt'
    <3>1. Begun' = Begun \cup {c} /\ c \notin Begun
      BY <1>0, <2>1 DEF Begun
    <3>2. IsFiniteSet(Begun)
      <4>1. Begun \subseteq Calls
        BY DEF Begun
      <4>2. QED
        BY <4>1, CallsAssumption, FS_Subset
    <3>3. /\ Cardinality(Begun') = Cardinality(Begun) + 1
          /\ Cardinality(Begun) \in Nat
      BY <3>1, <3>2, FS_AddElement, FS_CardinalityType
    <3>4. ASSUME NEW t \in Tenants
          PROVE  IsSequence(chain'[t]) /\ Linked(chain'[t]) /\ Len(chain'[t]) <= Cardinality(Begun')
      <4>1. CASE t = tn
        BY <2>3, <2>4, <2>5, <3>3, <4>1, SMTT(60)
      <4>2. CASE t # tn
        BY <1>0, <2>5, <3>3, <4>2 DEF ChainsAreBuilt, IsSequence
      <4>3. QED
        BY <4>1, <4>2
    <3>5. QED
      BY <2>5, <3>4 DEF ChainsAreBuilt
  <2>8. QueueIsSound'
    BY <1>0, <2>1 DEF QueueIsSound
  <2>9. StampingHasTheMutex'
    <3> SUFFICES ASSUME NEW d \in Calls, pc'[d] = "stamping" PROVE OwnEntryIsLast(d)'
      BY DEF StampingHasTheMutex
    <3>1. d = c
      BY <1>0, <2>1, <2>2 DEF StampingHasTheMutex, OwnEntryIsLast
    <3>2. chain'[tenant'[c]] = new /\ Len(new) >= 1 /\ new[Len(new)].payload = c
      BY <2>1, <2>3, <2>4, <2>5
    <3>3. QED
      BY <2>1, <2>2, <3>1, <3>2 DEF OwnEntryIsLast
  <2>10. PacketsArePast'
    BY <1>0, <2>1 DEF PacketsArePast
  <2>11. PacketsNameTheirEntry'
    <3> SUFFICES ASSUME NEW p \in issued, p.life = life
                 PROVE  /\ p.chain_length \in 1..Len(chain'[p.tenant])
                        /\ chain'[p.tenant][p.chain_length].payload = p.call
      BY <2>1 DEF PacketsNameTheirEntry
    <3>1. /\ p.chain_length \in 1..Len(chain[p.tenant])
          /\ chain[p.tenant][p.chain_length].payload = p.call
          /\ p.tenant \in Tenants
      BY <1>0 DEF PacketsNameTheirEntry, PacketsArePast
    <3>2. CASE p.tenant = tn
      BY <2>3, <2>4, <2>5, <3>1, <3>2, SMTT(60)
    <3>3. CASE p.tenant # tn
      BY <2>5, <3>1, <3>3
    <3>4. QED
      BY <3>2, <3>3
  <2>12. QED
    BY <2>6, <2>7, <2>8, <2>9, <2>10, <2>11 DEF esInv
<1>3. ASSUME NEW c \in Calls, Refuse(c) PROVE esInv'
  <2>1. /\ pc[c] = "waiting" /\ queue # <<>> /\ Head(queue) = c
        /\ queue' = Tail(queue) /\ pc' = [pc EXCEPT ![c] = "failed"]
        /\ UNCHANGED <<chain, tenant, stamp, issued, clock, life>>
    BY <1>3 DEF Refuse, Holds, Goto
  <2>2. queue[1] = c
    BY <1>0, <2>1
  <2>3. /\ queue' \in Seq(Calls) /\ Len(queue') = Len(queue) - 1
        /\ \A i \in 1..Len(queue') : queue'[i] = queue[i + 1]
    BY <1>0, <2>1, HeadTailProperties
  <2>4. \A i \in 1..Len(queue') : i + 1 \in 1..Len(queue) /\ queue'[i] # c
    BY <1>0, <2>2, <2>3, SMTT(60) DEF QueueIsSound, NoRepeats
  <2>5. esScalars'
    BY <1>0, <2>1 DEF esScalars, Points
  <2>6. ChainsAreBuilt'
    <3>1. /\ pc' \in [Calls -> Points]
          /\ \A d \in Calls : pc[d] \notin {"idle", "waiting"} => pc'[d] \notin {"idle", "waiting"}
      BY <1>0, <2>1, <2>5 DEF esScalars
    <3>2. QED
      BY <1>0, <2>1, <3>1, ChainsUntouched
  <2>7. QueueIsSound'
    <3>1. NoRepeats(queue')
      <4> SUFFICES ASSUME NEW i \in 1..Len(queue'), NEW j \in 1..Len(queue'), queue'[i] = queue'[j]
                   PROVE  i = j
        BY DEF NoRepeats
      <4>1. i + 1 = j + 1
        BY <1>0, <2>3, <2>4 DEF QueueIsSound, NoRepeats
      <4>2. QED
        BY <1>0, <2>3, <4>1
    <3>2. \A i \in 1..Len(queue') : pc'[queue'[i]] \in {"waiting", "stamping"}
      BY <1>0, <2>1, <2>3, <2>4 DEF QueueIsSound
    <3>3. QED
      BY <2>3, <3>1, <3>2 DEF QueueIsSound
  <2>8. StampingHasTheMutex'
    BY <1>0, <2>1, <2>2 DEF StampingHasTheMutex, OwnEntryIsLast
  <2>9. PacketsArePast' /\ PacketsNameTheirEntry'
    BY <1>0, <2>1 DEF PacketsArePast, PacketsNameTheirEntry
  <2>10. QED
    BY <2>5, <2>6, <2>7, <2>8, <2>9 DEF esInv
<1>4. ASSUME NEW c \in Calls, Stamped(c) PROVE esInv'
  <2>0. PICK s \in Stamps :
          /\ stamp' = [stamp EXCEPT ![c] = s]
          /\ IF s = "error"
             THEN Goto(c, "failed") /\ UNCHANGED issued
             ELSE Goto(c, "sealed") /\ issued' = issued \cup {Packet(c)}
    BY <1>4 DEF Stamped
  <2>1. /\ pc[c] = "stamping" /\ queue' = Without(queue, c)
        /\ UNCHANGED <<chain, tenant, clock, life>>
    BY <1>4 DEF Stamped
  <2>2. PICK p \in {"sealed", "failed"} : pc' = [pc EXCEPT ![c] = p]
    BY <2>0 DEF Goto
  <2>3. pc' \in [Calls -> Points] /\ ChainsAreBuilt' /\ QueueIsSound' /\ StampingHasTheMutex'
    BY <2>1, <2>2, CallLeaves
  <2>4. OwnEntryIsLast(c)
    BY <1>0, <2>1 DEF StampingHasTheMutex
  <2>5. /\ Packet(c).call = c /\ Packet(c).tenant = tenant[c] /\ Packet(c).life = life
        /\ Packet(c).chain_length = Len(chain[tenant[c]])
        /\ Len(chain[tenant[c]]) \in Nat /\ Len(chain[tenant[c]]) >= 1
        /\ tenant[c] \in Tenants
        /\ chain[tenant[c]][Len(chain[tenant[c]])].payload = c
    BY <1>0, <2>4 DEF OwnEntryIsLast, ChainsAreBuilt, IsSequence, Packet
  <2>6. Packet(c) \in [call : Calls, tenant : Tenants, chain_length : Nat, life : 0..MaxStarts]
    BY <1>0, <2>5 DEF Packet, esScalars
  <2>7. ASSUME NEW x \in issued' PROVE x \in issued \/ x = Packet(c)
    BY <2>0
  <2>8. esScalars'
    <3>1. issued' \subseteq [call : Calls, tenant : Tenants, chain_length : Nat, life : 0..MaxStarts]
      BY <1>0, <2>6, <2>7 DEF esScalars
    <3>2. stamp' \in [Calls -> Stamps \cup {"none"}]
      BY <1>0, <2>0 DEF esScalars
    <3>3. QED
      BY <1>0, <2>1, <2>3, <3>1, <3>2 DEF esScalars
  <2>9. PacketsArePast'
    <3>1. life \in Nat
      BY <1>0 DEF esScalars
    <3>2. QED
      BY <1>0, <2>1, <2>5, <2>7, <3>1 DEF PacketsArePast
  <2>10. PacketsNameTheirEntry'
    <3> SUFFICES ASSUME NEW x \in issued', x.life = life
                 PROVE  /\ x.chain_length \in 1..Len(chain[x.tenant])
                        /\ chain[x.tenant][x.chain_length].payload = x.call
      BY <2>1 DEF PacketsNameTheirEntry
    <3>1. CASE x \in issued
      BY <1>0, <3>1 DEF PacketsNameTheirEntry
    <3>2. CASE x = Packet(c)
      <4>1. Packet(c).chain_length \in 1..Len(chain[Packet(c).tenant])
        BY <2>5
      <4>2. QED
        BY <2>5, <3>2, <4>1
    <3>3. QED
      BY <2>7, <3>1, <3>2
  <2>11. QED
    BY <2>3, <2>8, <2>9, <2>10 DEF esInv
<1>5. ASSUME NEW c \in Calls, Drop(c) PROVE esInv'
  <2>1. /\ pc[c] \in {"waiting", "stamping"} /\ queue' = Without(queue, c)
        /\ pc' = [pc EXCEPT ![c] = "dropped"]
        /\ UNCHANGED <<chain, tenant, stamp, issued, clock, life>>
    BY <1>5 DEF Drop, Goto
  <2>2. pc' \in [Calls -> Points] /\ ChainsAreBuilt' /\ QueueIsSound' /\ StampingHasTheMutex'
    BY <2>1, CallLeaves
  <2>3. esScalars'
    BY <1>0, <2>1, <2>2 DEF esScalars
  <2>4. PacketsArePast' /\ PacketsNameTheirEntry'
    BY <1>0, <2>1 DEF PacketsArePast, PacketsNameTheirEntry
  <2>5. QED
    BY <2>2, <2>3, <2>4 DEF esInv
<1>6. ASSUME Tick PROVE esInv'
  <2>1. /\ clock' \in 0..MaxClock
        /\ UNCHANGED <<chain, queue, pc, tenant, stamp, issued, life>>
    BY <1>0, <1>6 DEF Tick, esScalars
  <2>2. esScalars' /\ QueueIsSound' /\ PacketsArePast' /\ PacketsNameTheirEntry'
    BY <1>0, <2>1 DEF esScalars, QueueIsSound, PacketsArePast, PacketsNameTheirEntry
  <2>3. ChainsAreBuilt' /\ StampingHasTheMutex'
    BY <1>0, <2>1 DEF ChainsAreBuilt, StampingHasTheMutex, OwnEntryIsLast, Begun
  <2>4. QED
    BY <2>2, <2>3 DEF esInv
<1>7. ASSUME Restart PROVE esInv'
  <2>1. /\ life' = life + 1 /\ life' \in 0..MaxStarts /\ queue' = <<>>
        /\ chain' = [t \in Tenants |-> <<>>]
        /\ UNCHANGED <<tenant, stamp, issued, clock>>
        /\ \A d \in Calls : pc'[d] = IF pc[d] \in {"waiting", "stamping"} THEN "dropped" ELSE pc[d]
        /\ pc' \in [Calls -> Points]
    BY <1>0, <1>7 DEF Restart, esScalars, Points
  <2>2. esScalars'
    BY <1>0, <2>1 DEF esScalars
  <2>3. ChainsAreBuilt'
    <3>1. \A d \in Calls : pc[d] \notin {"idle", "waiting"} => pc'[d] \notin {"idle", "waiting"}
      BY <2>1
    <3>2. Cardinality(Begun') \in Nat
      BY <1>0, <2>1, <3>1, BegunGrows
    <3>3. IsSequence(<<>>) /\ Linked(<<>>) /\ Len(<<>>) = 0
      BY DEF IsSequence, Linked
    <3>4. QED
      BY <2>1, <3>2, <3>3 DEF ChainsAreBuilt
  <2>4. QueueIsSound'
    BY <2>1 DEF QueueIsSound, NoRepeats
  <2>5. StampingHasTheMutex'
    BY <2>1 DEF StampingHasTheMutex
  <2>6. PacketsArePast' /\ PacketsNameTheirEntry'
    <3>1. life \in Nat
      BY <1>0 DEF esScalars
    <3>2. ASSUME NEW p \in issued
          PROVE  p.tenant \in Tenants /\ p.life <= life + 1 /\ p.life # life + 1
      <4>1. p.life \in Nat
        BY <1>0 DEF esScalars
      <4>2. QED
        BY <1>0, <3>1, <4>1 DEF PacketsArePast
    <3>3. QED
      BY <2>1, <3>2 DEF PacketsArePast, PacketsNameTheirEntry
  <2>7. QED
    BY <2>2, <2>3, <2>4, <2>5, <2>6 DEF esInv
<1>8. ASSUME UNCHANGED esVars PROVE esInv'
  <2>1. UNCHANGED <<chain, queue, pc, tenant, stamp, issued, clock, life>>
    BY <1>8 DEF esVars
  <2>2. esScalars' /\ QueueIsSound' /\ PacketsArePast' /\ PacketsNameTheirEntry'
    BY <1>0, <2>1 DEF esScalars, QueueIsSound, PacketsArePast, PacketsNameTheirEntry
  <2>3. ChainsAreBuilt' /\ StampingHasTheMutex'
    BY <1>0, <2>1 DEF ChainsAreBuilt, StampingHasTheMutex, OwnEntryIsLast, Begun
  <2>4. QED
    BY <2>2, <2>3 DEF esInv
<1>9. QED
  BY <1>1, <1>2, <1>3, <1>4, <1>5, <1>6, <1>7, <1>8 DEF esNext, CallStep

\* A sequence is a prefix of itself and of itself with one more entry.
LEMMA AppendExtends ==
  ASSUME NEW q, NEW e, IsSequence(q)
  PROVE  /\ SubSeq(q, 1, Len(q)) = q
         /\ SubSeq(Append(q, e), 1, Len(q)) = q
<1>1. /\ IsSequence(Append(q, e)) /\ Len(Append(q, e)) = Len(q) + 1 /\ Len(q) \in Nat
      /\ \A i \in 1..Len(q) : Append(q, e)[i] = q[i]
  BY AppendToSequence DEF IsSequence
<1> DEFINE r == Append(q, e)
           n == Len(q)
           S == {r[i] : i \in 1..n + 1}
<1>2. r \in Seq(S) /\ Len(r) = n + 1 /\ n \in Nat
  <2>1. r = [i \in 1..n + 1 |-> r[i]]
    BY <1>1 DEF IsSequence
  <2> HIDE DEF r
  <2>2. r \in [1..n + 1 -> S]
    BY <2>1
  <2> HIDE DEF S
  <2>3. QED
    BY <1>1, <2>2
<1>3. q = [i \in 1..n |-> q[i]] /\ \A i \in 1..n : r[i] = q[i] /\ q[i] \in S
  <2>1. ASSUME NEW i \in 1..n PROVE r[i] = q[i] /\ r[i] \in S
    BY <1>1
  <2>2. QED
    BY <2>1 DEF IsSequence
<1> HIDE DEF r, S
<1>4. q \in Seq(S)
  <2>1. q \in [1..n -> S]
    BY <1>3
  <2>2. QED
    BY <1>2, <2>1
<1> HIDE DEF n
<1>5. SubSeq(q, 1, n) = q
  BY <1>2, <1>3, <1>4
<1>6. SubSeq(r, 1, n) = q
  <2>1. SubSeq(r, 1, n) = [i \in 1..n |-> r[i]]
    BY <1>2
  <2>2. QED
    BY <1>3, <2>1
<1>7. QED
  BY <1>5, <1>6 DEF n, r

\* Within one life of the process every step leaves every chain as it was or
\* longer.
LEMMA ServiceKeepsHistory == esInv /\ [esNext]_esVars => ChainsGrow
<1> SUFFICES ASSUME esInv, [esNext]_esVars, life' = life, NEW t \in Tenants
             PROVE  /\ Len(chain'[t]) >= Len(chain[t])
                    /\ SubSeq(chain'[t], 1, Len(chain[t])) = chain[t]
  BY DEF ChainsGrow
<1>0. IsSequence(chain[t]) /\ Len(chain[t]) \in Nat /\ chain = [x \in Tenants |-> chain[x]]
  BY DEF esInv, ChainsAreBuilt, IsSequence
<1>1. CASE chain' = chain
  <2>1. SubSeq(chain[t], 1, Len(chain[t])) = chain[t]
    BY <1>0, AppendExtends
  <2>2. QED
    BY <1>0, <1>1, <2>1
<1>2. ASSUME NEW c \in Calls, Chain(c)
      PROVE  /\ Len(chain'[t]) >= Len(chain[t])
             /\ SubSeq(chain'[t], 1, Len(chain[t])) = chain[t]
  <2> DEFINE e == [sequence |-> Len(chain[t]), payload |-> c, prev_hash |-> LatestHash(chain[t]),
                   blake3_hash |-> EntryHash(Len(chain[t]), LatestHash(chain[t]), c),
                   created_at |-> clock]
  <2>1. chain' = [chain EXCEPT ![tenant[c]] = AppendEntry(@, c, clock)] /\ tenant[c] \in Tenants
    BY <1>2 DEF Chain, Sealable
  <2>2. chain'[t] = chain[t] \/ chain'[t] = AppendEntry(chain[t], c, clock)
    BY <1>0, <2>1
  <2>3. AppendEntry(chain[t], c, clock) = Append(chain[t], e)
    BY DEF AppendEntry
  <2> HIDE DEF e
  <2>4. /\ SubSeq(chain[t], 1, Len(chain[t])) = chain[t]
        /\ SubSeq(Append(chain[t], e), 1, Len(chain[t])) = chain[t]
        /\ Len(Append(chain[t], e)) = Len(chain[t]) + 1
    BY <1>0, AppendExtends, AppendToSequence
  <2>5. QED
    BY <1>0, <2>2, <2>3, <2>4
<1>3. chain' = chain \/ (\E c \in Calls : Chain(c))
  <2>1. life \in Nat
    BY DEF esInv, esScalars
  <2>2. ~Restart
    BY <2>1 DEF Restart
  <2>3. QED
    BY <2>2 DEF esNext, CallStep, Ask, Refuse, Stamped, Drop, Tick, esVars
<1>4. QED
  BY <1>1, <1>2, <1>3
-----------------------------------------------------------------------------
(* ChainStore                                                              *)

\* An entry has the five fields of its record.
IsEntry(e) ==
    e = [f \in {"sequence", "payload", "prev_hash", "blake3_hash", "created_at"} |-> e[f]]

\* A list of entries no longer than the appends there have been.
AreEntries(q) ==
    IsSequence(q) /\ Len(q) <= appends /\ \A i \in 1..Len(q) : IsEntry(q[i])

\* The scalar part of the type invariant.
csScalars ==
    /\ file \in {"absent", "torn", "chain"}
    /\ csPc \in csPoints
    /\ acked \in Seq(Texts)
    /\ refused \in {"none", "Parse", "Verify"}
    /\ appends \in 0..MaxAppends
    /\ deaths \in 0..MaxDeaths
    /\ damaged \in BOOLEAN

\* Where the process is in open and append tells what it has in memory and in
\* its files: a file that is not a chain was never acknowledged anything.
StoreIsWhereItIs ==
    /\ AreEntries(stored) /\ AreEntries(tmp) /\ AreEntries(memory)
    /\ csPc \in {"down", "creating"} => memory = <<>>
    /\ csPc = "creating" => file = "torn"
    /\ csPc \in {"ready", "writing", "renaming"} =>
          file = "chain" /\ IsPrefixOf(stored, memory)
    /\ csPc \in {"writing", "renaming"} =>
          Len(stored) < Len(memory) /\ memory[Len(memory)].payload \in Texts
    /\ csPc = "renaming" => tmp = memory
    /\ file # "chain" => stored = <<>> /\ acked = <<>>

\* A file nobody damaged is one that append built, and an edited one is never
\* opened again.
DamageIsSeen ==
    /\ ~damaged => Linked(stored) /\ Linked(memory) /\ Embeds(acked, Payloads(stored))
    /\ damaged /\ Damages \subseteq {"edit"} => csPc = "down" /\ ~Verify(stored)

csInv == csScalars /\ StoreIsWhereItIs /\ DamageIsSeen

\* The invariant gives the type invariant and, where the only damage is an
\* edited payload, the three promises of the store.
LEMMA StoreKeepsItsPromises ==
  csInv => csTypeOK /\ (Damages \subseteq {"edit"} => StoreIsSound)
<1> SUFFICES ASSUME csInv PROVE csTypeOK /\ (Damages \subseteq {"edit"} => StoreIsSound)
  OBVIOUS
<1>1. csTypeOK
  <2>1. \A q \in {stored, tmp, memory} : Len(q) <= MaxAppends
    BY AppendsAssumption DEF csInv, csScalars, StoreIsWhereItIs, AreEntries, IsSequence
  <2>2. QED
    BY <2>1 DEF csInv, csScalars, csTypeOK
<1>2. ASSUME Damages \subseteq {"edit"} PROVE StoreIsSound
  <2>1. FileIsBehindMemory
    BY DEF csInv, StoreIsWhereItIs, FileIsBehindMemory
  <2>2. AcknowledgedIsStored
    BY DEF csInv, DamageIsSeen, AcknowledgedIsStored
  <2>3. OpenChainIsLinked
    BY <1>2 DEF csInv, DamageIsSeen, OpenChainIsLinked
  <2>4. QED
    BY <2>1, <2>2, <2>3 DEF StoreIsSound
<1>3. QED
  BY <1>1, <1>2

\* Nothing is a subsequence of anything.
LEMMA NothingEmbeds == \A q : Embeds(<<>>, q)
<1> SUFFICES ASSUME NEW q PROVE Embeds(<<>>, q)
  OBVIOUS
<1> DEFINE f == [i \in 1..0 |-> 1]
<1>1. Len(<<>>) = 0 /\ f \in [1..0 -> 1..Len(q)] /\ \A i \in 1..0 : FALSE
  OBVIOUS
<1> HIDE DEF f
<1>2. QED
  BY <1>1 DEF Embeds

\* The list of payloads has the length of its chain.
LEMMA PayloadsOfChain ==
  ASSUME NEW q, IsSequence(q)
  PROVE  /\ Len(Payloads(q)) = Len(q)
         /\ \A i \in 1..Len(q) : Payloads(q)[i] = q[i].payload
<1> DEFINE n == Len(q)
           w == [i \in 1..n |-> q[i].payload]
           S == {q[i].payload : i \in 1..n}
<1>1. n \in Nat /\ w \in [1..n -> S]
  BY DEF IsSequence
<1>2. \A i \in 1..n : w[i] = q[i].payload
  OBVIOUS
<1>3. Payloads(q) = w
  BY DEF Payloads
<1> HIDE DEF n, w, S
<1>4. Len(w) = n
  BY <1>1
<1>5. QED
  BY <1>2, <1>3, <1>4 DEF n

\* When the chain in the file is replaced by a longer one, what was
\* acknowledged and the payload of its last entry are in it, in order.
LEMMA AcknowledgedGrows ==
  ASSUME NEW a \in Seq(Texts), NEW q, NEW r, IsSequence(q), IsSequence(r),
         IsPrefixOf(q, r), Len(q) < Len(r), r[Len(r)].payload \in Texts,
         Embeds(a, Payloads(q))
  PROVE  Embeds(Append(a, r[Len(r)].payload), Payloads(r))
<1> DEFINE x == r[Len(r)].payload
           b == Append(a, x)
           n == Len(a)
           k == Len(q)
           m == Len(r)
           pq == Payloads(q)
           pr == Payloads(r)
<1>1. /\ Len(b) = n + 1 /\ b[n + 1] = x /\ n \in Nat
      /\ \A i \in 1..n : b[i] = a[i]
  BY AppendProperties, LenProperties
<1>2. /\ Len(pq) = k /\ Len(pr) = m /\ k \in Nat /\ m \in Nat /\ k < m
      /\ \A i \in 1..k : pq[i] = q[i].payload
      /\ \A i \in 1..m : pr[i] = r[i].payload
  BY PayloadsOfChain DEF IsSequence
<1>3. \A i \in 1..k : pr[i] = pq[i]
  BY <1>2 DEF IsPrefixOf
<1>4. pr[m] = x
  BY <1>2
<1>5. PICK f \in [1..n -> 1..k] :
          /\ \A i \in 1..n : a[i] = pq[f[i]]
          /\ \A i, j \in 1..n : i < j => f[i] < f[j]
  BY <1>2 DEF Embeds
<1> DEFINE g == [i \in 1..n + 1 |-> IF i = n + 1 THEN m ELSE f[i]]
<1> HIDE DEF x, b, n, k, m, pq, pr
<1>6. /\ g[n + 1] = m
      /\ \A i \in 1..n : g[i] = f[i] /\ f[i] \in 1..k /\ g[i] < m
      /\ \A i \in 1..n + 1 : i \in 1..n \/ i = n + 1
  BY <1>1, <1>2
<1>7. g \in [1..n + 1 -> 1..m]
  <2>1. ASSUME NEW i \in 1..n + 1 PROVE (IF i = n + 1 THEN m ELSE f[i]) \in 1..m
    BY <1>1, <1>2
  <2>2. QED
    BY <2>1
<1> HIDE DEF g
<1>8. ASSUME NEW i \in 1..n + 1 PROVE b[i] = pr[g[i]]
  <2>1. CASE i \in 1..n
    BY <1>1, <1>3, <1>5, <1>6, <2>1
  <2>2. CASE i = n + 1
    BY <1>1, <1>4, <1>6, <2>2
  <2>3. QED
    BY <1>6, <2>1, <2>2
<1>9. ASSUME NEW i \in 1..n + 1, NEW j \in 1..n + 1, i < j PROVE g[i] < g[j]
  <2>1. i \in 1..n
    BY <1>1, <1>9
  <2>2. CASE j \in 1..n
    BY <1>5, <1>6, <1>9, <2>1, <2>2
  <2>3. CASE j = n + 1
    BY <1>6, <2>1, <2>3
  <2>4. QED
    BY <1>6, <2>2, <2>3
<1>10. Embeds(b, pr)
  BY <1>1, <1>2, <1>7, <1>8, <1>9 DEF Embeds
<1>11. QED
  BY <1>10 DEF b, pr, x

\* An append adds one entry at the end, whatever the chain is.
LEMMA AppendAddsEntry ==
  ASSUME NEW chn, NEW x, NEW n, IsSequence(chn)
  PROVE  /\ IsSequence(AppendEntry(chn, x, n))
         /\ Len(AppendEntry(chn, x, n)) = Len(chn) + 1
         /\ \A i \in 1..Len(chn) : AppendEntry(chn, x, n)[i] = chn[i]
         /\ AppendEntry(chn, x, n)[Len(chn) + 1].payload = x
         /\ IsEntry(AppendEntry(chn, x, n)[Len(chn) + 1])
<1> DEFINE e == [sequence |-> Len(chn), payload |-> x, prev_hash |-> LatestHash(chn),
                 blake3_hash |-> EntryHash(Len(chn), LatestHash(chn), x), created_at |-> n]
<1>1. e.payload = x /\ IsEntry(e)
  BY DEF IsEntry
<1>2. AppendEntry(chn, x, n) = Append(chn, e)
  BY DEF AppendEntry
<1> HIDE DEF e
<1>3. QED
  BY <1>1, <1>2, AppendToSequence

\* An edited payload does not fit the hash its entry carries.
LEMMA EditIsSeen ==
  ASSUME NEW q, IsSequence(q), Linked(q), NEW i \in 1..Len(q), IsEntry(q[i]), NEW x,
         [q EXCEPT ![i].payload = x] # q
  PROVE  ~Verify([q EXCEPT ![i].payload = x])
<1> DEFINE e == q[i]
           d == [e EXCEPT !.payload = x]
           r == [q EXCEPT ![i] = d]
           S == {q[j] : j \in 1..Len(q)} \cup {d}
<1>1. /\ d.payload = x /\ d.sequence = e.sequence /\ d.prev_hash = e.prev_hash
      /\ d.blake3_hash = e.blake3_hash
      /\ x = e.payload => d = e
  BY DEF IsEntry
<1>2. Len(q) \in Nat /\ q = [j \in 1..Len(q) |-> q[j]]
  BY DEF IsSequence
<1> HIDE DEF d
<1>3. x # e.payload
  <2>1. d = e => r = q
    BY <1>2
  <2>2. r # q
    BY DEF d
  <2>3. QED
    BY <1>1, <2>1, <2>2
<1>4. r[i] = d /\ r \in [1..Len(q) -> S]
  BY <1>2
<1>5. Len(r) = Len(q)
  <2> HIDE DEF r, S
  <2>1. QED
    BY <1>2, <1>4
<1>6. e.blake3_hash = EntryHash(e.sequence, e.prev_hash, e.payload)
  BY DEF Linked
<1>7. EntryHash(e.sequence, e.prev_hash, e.payload) # EntryHash(e.sequence, e.prev_hash, x)
  <2> DEFINE u == <<e.sequence, e.prev_hash, e.payload>>
             v == <<e.sequence, e.prev_hash, x>>
  <2>1. u[3] = e.payload /\ v[3] = x
    OBVIOUS
  <2>2. u # v
    BY <1>3, <2>1
  <2>3. QED
    BY <2>2 DEF EntryHash
<1>8. ~EntryVerifies(r[i], LatestHash(SubSeq(r, 1, i - 1)))
  BY <1>1, <1>4, <1>6, <1>7 DEF EntryVerifies
<1>9. ~Verify(r)
  BY <1>5, <1>8 DEF Verify
<1>10. QED
  BY <1>9 DEF d

\* Damage leaves a list of entries, not longer than it was.
LEMMA DamageLeavesEntries ==
  ASSUME NEW q, AreEntries(q), appends \in Nat, NEW damage \in Damages, NEW r \in Damaged(q, damage)
  PROVE  AreEntries(r)
<1>0. /\ Len(q) \in Nat /\ q = [j \in 1..Len(q) |-> q[j]] /\ Len(q) <= appends
      /\ DOMAIN q = 1..Len(q) /\ \A j \in 1..Len(q) : IsEntry(q[j])
  BY DEF AreEntries, IsSequence
<1>1. ASSUME NEW m \in Nat, m <= Len(q), r = [j \in 1..m |-> r[j]],
             \A j \in 1..m : IsEntry(r[j])
      PROVE  AreEntries(r)
  <2> DEFINE S == {r[j] : j \in 1..m}
  <2>1. r \in [1..m -> S]
    BY <1>1
  <2> HIDE DEF S
  <2>2. Len(r) = m
    BY <2>1
  <2>3. QED
    BY <1>0, <1>1, <2>2 DEF AreEntries, IsSequence
<1>2. CASE damage = "edit"
  <2>1. PICK i \in 1..Len(q), x \in Texts : r = [q EXCEPT ![i].payload = x]
    BY <1>0, <1>2 DEF Damaged
  <2> DEFINE d == [q[i] EXCEPT !.payload = x]
  <2>2. IsEntry(d)
    BY <1>0 DEF IsEntry
  <2>3. r = [q EXCEPT ![i] = d]
    BY <2>1
  <2> HIDE DEF d
  <2>4. r = [j \in 1..Len(q) |-> r[j]] /\ \A j \in 1..Len(q) : IsEntry(r[j])
    BY <1>0, <2>2, <2>3
  <2> DEFINE m == Len(q)
  <2>5. m \in Nat /\ m <= Len(q)
    BY <1>0
  <2>6. r = [j \in 1..m |-> r[j]] /\ \A j \in 1..m : IsEntry(r[j])
    BY <2>4
  <2> HIDE DEF m
  <2>7. QED
    BY <1>1, <2>5, <2>6
<1>3. CASE damage = "drop"
  <2>1. PICK i \in 1..Len(q) :
            r = [j \in 1..(Len(q) - 1) |-> IF j < i THEN q[j] ELSE q[j + 1]]
    BY <1>0, <1>3 DEF Damaged
  <2> DEFINE m == Len(q) - 1
  <2>2. /\ m \in Nat /\ m <= Len(q)
        /\ \A j \in 1..m : j \in 1..Len(q) /\ j + 1 \in 1..Len(q)
    BY <1>0
  <2>3. r = [j \in 1..m |-> r[j]] /\ \A j \in 1..m : r[j] = q[j] \/ r[j] = q[j + 1]
    BY <2>1
  <2> HIDE DEF m
  <2>4. \A j \in 1..m : IsEntry(r[j])
    BY <1>0, <2>2, <2>3
  <2>5. QED
    BY <1>1, <2>2, <2>3, <2>4
<1>4. CASE damage = "swap"
  <2>1. PICK i \in 1..Len(q), k \in 1..Len(q) : r = [q EXCEPT ![i] = q[k], ![k] = q[i]]
    BY <1>0, <1>4 DEF Damaged
  <2>2. r = [j \in 1..Len(q) |-> r[j]] /\ \A j \in 1..Len(q) : \E l \in 1..Len(q) : r[j] = q[l]
    BY <1>0, <2>1
  <2>3. \A j \in 1..Len(q) : IsEntry(r[j])
    BY <1>0, <2>2
  <2> DEFINE m == Len(q)
  <2>4. m \in Nat /\ m <= Len(q)
    BY <1>0
  <2>5. r = [j \in 1..m |-> r[j]] /\ \A j \in 1..m : IsEntry(r[j])
    BY <2>2, <2>3
  <2> HIDE DEF m
  <2>6. QED
    BY <1>1, <2>4, <2>5
<1>5. QED
  BY <1>2, <1>3, <1>4, DamagesAssumption

\* The inductive invariant of ChainStore holds initially.
LEMMA StoreStarts == csInit => csInv
<1> SUFFICES ASSUME csInit PROVE csInv
  OBVIOUS
<1>1. csScalars
  <2>1. acked \in Seq(Texts)
    BY DEF csInit
  <2>2. appends \in 0..MaxAppends /\ deaths \in 0..MaxDeaths
    BY AppendsAssumption DEF csInit
  <2>3. damaged \in BOOLEAN
    BY Zenon DEF csInit
  <2>4. /\ file \in {"absent", "torn", "chain"} /\ csPc \in csPoints
        /\ refused \in {"none", "Parse", "Verify"}
    BY DEF csInit, csPoints
  <2>5. QED
    BY <2>1, <2>2, <2>3, <2>4, Zenon DEF csScalars
<1>2. StoreIsWhereItIs
  <2>1. AreEntries(<<>>)
    BY DEF csInit, AreEntries, IsSequence
  <2>2. QED
    BY <2>1 DEF csInit, StoreIsWhereItIs
<1>3. DamageIsSeen
  <2>1. Linked(<<>>)
    BY DEF Linked
  <2>2. QED
    BY <2>1, NothingEmbeds DEF csInit, DamageIsSeen
<1>4. QED
  BY <1>1, <1>2, <1>3 DEF csInv

\* Every step of open and append, every failed write, every death of the
\* process and every damage to the file keeps the invariant.
LEMMA StoreSteps == csInv /\ [csNext]_csVars => csInv'
<1> SUFFICES ASSUME csInv, [csNext]_csVars PROVE csInv'
  OBVIOUS
<1> USE AppendsAssumption
<1>0. csScalars /\ StoreIsWhereItIs /\ DamageIsSeen /\ appends \in Nat
  BY DEF csInv, csScalars
<1>a. /\ AreEntries(stored) /\ IsSequence(stored) /\ Len(stored) \in Nat
      /\ AreEntries(memory) /\ IsSequence(memory) /\ Len(memory) \in Nat
      /\ AreEntries(tmp)
  BY <1>0 DEF StoreIsWhereItIs, AreEntries, IsSequence
<1>b. /\ AreEntries(<<>>) /\ Linked(<<>>) /\ Len(<<>>) = 0 /\ IsPrefixOf(<<>>, <<>>)
      /\ Embeds(<<>>, Payloads(<<>>))
  BY <1>0, NothingEmbeds DEF AreEntries, IsSequence, Linked, IsPrefixOf
<1>1. CASE OpenLoad
  <2>1. /\ csPc = "down" /\ file = "chain" /\ Verify(stored) /\ memory' = stored
        /\ csPc' = "ready"
        /\ UNCHANGED <<file, stored, tmp, acked, refused, appends, deaths, damaged>>
    BY <1>1 DEF OpenLoad
  <2>2. csScalars'
    BY <1>0, <2>1 DEF csScalars, csPoints
  <2>3. IsPrefixOf(stored, stored)
    BY <1>a DEF IsPrefixOf
  <2>4. AreEntries(stored)' /\ AreEntries(tmp)' /\ AreEntries(memory)'
    BY <1>a, <2>1 DEF AreEntries
  <2>5. StoreIsWhereItIs'
    BY <1>0, <2>1, <2>3, <2>4 DEF StoreIsWhereItIs
  <2>6. DamageIsSeen'
    BY <1>0, <2>1 DEF DamageIsSeen
  <2>7. QED
    BY <2>2, <2>5, <2>6 DEF csInv
<1>2. CASE OpenRefused
  <2>1. /\ UNCHANGED <<file, stored, tmp, memory, csPc, acked, appends, deaths, damaged>>
        /\ refused' \in {"none", "Parse", "Verify"}
    BY <1>2 DEF OpenRefused
  <2>2. csScalars'
    BY <1>0, <2>1 DEF csScalars
  <2>3. StoreIsWhereItIs'
    BY <1>0, <2>1 DEF StoreIsWhereItIs, AreEntries
  <2>4. DamageIsSeen'
    BY <1>0, <2>1 DEF DamageIsSeen
  <2>5. QED
    BY <2>2, <2>3, <2>4 DEF csInv
<1>3. CASE OpenCreate
  <2>1. /\ csPc = "down" /\ file = "absent" /\ file' = "torn" /\ csPc' = "creating"
        /\ UNCHANGED <<stored, tmp, memory, acked, refused, appends, deaths, damaged>>
    BY <1>3 DEF OpenCreate
  <2>2. csScalars'
    BY <1>0, <2>1 DEF csScalars, csPoints
  <2>3. AreEntries(stored)' /\ AreEntries(tmp)' /\ AreEntries(memory)'
    BY <1>a, <2>1 DEF AreEntries
  <2>4. StoreIsWhereItIs'
    BY <1>0, <2>1, <2>3 DEF StoreIsWhereItIs
  <2>5. ~(damaged /\ Damages \subseteq {"edit"})
    <3>1. stored = <<>>
      BY <1>0, <2>1 DEF StoreIsWhereItIs
    <3>2. Verify(stored)
      BY <1>b, <3>1 DEF Verify
    <3>3. QED
      BY <1>0, <3>2 DEF DamageIsSeen
  <2>6. DamageIsSeen'
    BY <1>0, <2>1, <2>5 DEF DamageIsSeen
  <2>7. QED
    BY <2>2, <2>4, <2>6 DEF csInv
<1>4. CASE OpenCreated
  <2>1. /\ csPc = "creating" /\ file = "torn"
        /\ UNCHANGED <<tmp, acked, refused, appends, deaths, damaged>>
        /\ stored = <<>> /\ acked = <<>> /\ memory = <<>>
    BY <1>0, <1>4 DEF OpenCreated, StoreIsWhereItIs
  <2>2. /\ stored' = <<>> /\ memory' = <<>>
        /\ \/ file' = "chain" /\ csPc' = "ready"
           \/ csPc' = "down" /\ file' = file
    BY <1>4, <2>1 DEF OpenCreated
  <2>3. csScalars'
    BY <1>0, <2>1, <2>2 DEF csScalars, csPoints
  <2>4. AreEntries(stored)' /\ AreEntries(tmp)' /\ AreEntries(memory)'
    BY <1>a, <1>b, <2>1, <2>2 DEF AreEntries
  <2>5. StoreIsWhereItIs'
    BY <1>b, <2>1, <2>2, <2>4 DEF StoreIsWhereItIs
  <2>6. DamageIsSeen'
    BY <1>0, <1>b, <2>1, <2>2 DEF DamageIsSeen
  <2>7. QED
    BY <2>3, <2>5, <2>6 DEF csInv
<1>5. ASSUME NEW x \in Texts, AppendInMemory(x) PROVE csInv'
  <2> DEFINE new == AppendEntry(memory, x, 0)
  <2>1. /\ csPc = "ready" /\ appends' = appends + 1 /\ appends' \in 0..MaxAppends
        /\ memory' = new /\ csPc' = "writing"
        /\ UNCHANGED <<file, stored, tmp, acked, refused, deaths, damaged>>
    BY <1>0, <1>5 DEF AppendInMemory, csScalars
  <2>2. /\ IsSequence(new) /\ Len(new) = Len(memory) + 1
        /\ \A i \in 1..Len(memory) : new[i] = memory[i]
        /\ new[Len(memory) + 1].payload = x
        /\ IsEntry(new[Len(memory) + 1])
    BY <1>a, AppendAddsEntry
  <2>3. Linked(memory) => Linked(new)
    BY <1>a, AppendLinks
  <2> HIDE DEF new
  <2>4. csScalars'
    BY <1>0, <2>1 DEF csScalars, csPoints
  <2>5. AreEntries(stored)' /\ AreEntries(tmp)'
    BY <1>0, <1>a, <2>1 DEF AreEntries, IsSequence
  <2>6. AreEntries(memory)'
    <3>1. ASSUME NEW i \in 1..Len(new) PROVE IsEntry(new[i])
      <4>1. i \in 1..Len(memory) \/ i = Len(memory) + 1
        BY <1>a, <2>2
      <4>2. QED
        BY <1>a, <2>2, <4>1 DEF AreEntries
    <3>2. Len(new) <= appends + 1
      BY <1>0, <1>a, <2>2 DEF AreEntries
    <3>3. QED
      BY <2>1, <2>2, <3>1, <3>2 DEF AreEntries
  <2>7. IsPrefixOf(stored, new) /\ Len(stored) < Len(new) /\ file = "chain"
    <3>1. IsPrefixOf(stored, memory) /\ file = "chain"
      BY <1>0, <2>1 DEF StoreIsWhereItIs
    <3>2. QED
      BY <1>a, <2>2, <3>1 DEF IsPrefixOf
  <2>8. StoreIsWhereItIs'
    BY <2>1, <2>2, <2>5, <2>6, <2>7 DEF StoreIsWhereItIs
  <2>9. DamageIsSeen'
    BY <1>0, <2>1, <2>3 DEF DamageIsSeen
  <2>10. QED
    BY <2>4, <2>8, <2>9 DEF csInv
<1>6. CASE WriteTemp
  <2>1. /\ csPc = "writing"
        /\ \/ tmp' = memory /\ csPc' = "renaming"
           \/ csPc' = "ready" /\ tmp' = tmp
        /\ UNCHANGED <<file, stored, memory, acked, refused, appends, deaths, damaged>>
    BY <1>6 DEF WriteTemp
  <2>2. csScalars'
    BY <1>0, <2>1 DEF csScalars, csPoints
  <2>3. AreEntries(stored)' /\ AreEntries(tmp)' /\ AreEntries(memory)'
    BY <1>a, <2>1 DEF AreEntries
  <2>4. StoreIsWhereItIs'
    BY <1>0, <2>1, <2>3 DEF StoreIsWhereItIs
  <2>5. DamageIsSeen'
    BY <1>0, <2>1 DEF DamageIsSeen
  <2>6. QED
    BY <2>2, <2>4, <2>5 DEF csInv
<1>7. CASE Rename
  <2>1. /\ csPc = "renaming" /\ csPc' = "ready" /\ tmp = memory
        /\ \/ stored' = memory /\ acked' = Append(acked, memory[Len(memory)].payload)
           \/ UNCHANGED <<stored, acked>>
        /\ UNCHANGED <<file, tmp, memory, refused, appends, deaths, damaged>>
        /\ file = "chain" /\ IsPrefixOf(stored, memory) /\ Len(stored) < Len(memory)
        /\ memory[Len(memory)].payload \in Texts
    BY <1>0, <1>7 DEF Rename, StoreIsWhereItIs
  <2>2. csScalars'
    <3>1. acked' \in Seq(Texts)
      BY <1>0, <2>1, AppendProperties, SMTT(60) DEF csScalars
    <3>2. QED
      BY <1>0, <2>1, <3>1 DEF csScalars, csPoints
  <2>3. AreEntries(stored)' /\ AreEntries(tmp)' /\ AreEntries(memory)'
    BY <1>a, <2>1 DEF AreEntries
  <2>4. IsPrefixOf(memory, memory)
    BY <1>a DEF IsPrefixOf
  <2>5. StoreIsWhereItIs'
    BY <2>1, <2>3, <2>4 DEF StoreIsWhereItIs
  <2>6. DamageIsSeen'
    <3>1. ~(damaged /\ Damages \subseteq {"edit"})
      BY <1>0, <2>1 DEF DamageIsSeen
    <3>2. ASSUME ~damaged PROVE Linked(stored') /\ Linked(memory') /\ Embeds(acked', Payloads(stored'))
      <4>1. CASE UNCHANGED <<stored, acked>>
        BY <1>0, <2>1, <3>2, <4>1 DEF DamageIsSeen
      <4>2. CASE stored' = memory /\ acked' = Append(acked, memory[Len(memory)].payload)
        <5>1. acked \in Seq(Texts) /\ Embeds(acked, Payloads(stored))
          BY <1>0, <3>2 DEF DamageIsSeen, csScalars
        <5>2. Embeds(Append(acked, memory[Len(memory)].payload), Payloads(memory))
          BY <1>a, <2>1, <5>1, AcknowledgedGrows
        <5>3. QED
          BY <1>0, <2>1, <3>2, <4>2, <5>2 DEF DamageIsSeen
      <4>3. QED
        BY <2>1, <4>1, <4>2
    <3>3. QED
      BY <2>1, <3>1, <3>2 DEF DamageIsSeen
  <2>7. QED
    BY <2>2, <2>5, <2>6 DEF csInv
<1>8. CASE Die
  <2>1. /\ deaths' \in 0..MaxDeaths /\ csPc' = "down" /\ memory' = <<>>
        /\ UNCHANGED <<file, stored, tmp, acked, refused, appends, damaged>>
    BY <1>0, <1>8 DEF Die, csScalars
  <2>2. csScalars'
    BY <1>0, <2>1 DEF csScalars, csPoints
  <2>3. AreEntries(stored)' /\ AreEntries(tmp)' /\ AreEntries(memory)'
    BY <1>a, <1>b, <2>1 DEF AreEntries
  <2>4. StoreIsWhereItIs'
    BY <1>0, <2>1, <2>3 DEF StoreIsWhereItIs
  <2>5. DamageIsSeen'
    BY <1>0, <1>b, <2>1 DEF DamageIsSeen
  <2>6. QED
    BY <2>2, <2>4, <2>5 DEF csInv
<1>9. CASE Damage
  <2>1. /\ csPc = "down" /\ file = "chain" /\ ~damaged /\ damaged' = TRUE
        /\ stored' # stored
        /\ UNCHANGED <<file, tmp, memory, csPc, acked, refused, appends, deaths>>
    BY <1>9 DEF Damage
  <2>2. PICK damage \in Damages : stored' \in Damaged(stored, damage)
    BY <1>9 DEF Damage
  <2>3. csScalars'
    BY <1>0, <2>1 DEF csScalars
  <2>4. AreEntries(stored')
    BY <1>0, <1>a, <2>2, DamageLeavesEntries
  <2>5. AreEntries(stored)' /\ AreEntries(tmp)' /\ AreEntries(memory)'
    BY <1>a, <2>1, <2>4 DEF AreEntries
  <2>6. StoreIsWhereItIs'
    BY <1>0, <2>1, <2>5 DEF StoreIsWhereItIs
  <2>7. ASSUME Damages \subseteq {"edit"} PROVE ~Verify(stored')
    <3>1. damage = "edit" /\ DOMAIN stored = 1..Len(stored)
      BY <1>a, <2>2, <2>7 DEF IsSequence
    <3>2. PICK i \in 1..Len(stored), x \in Texts : stored' = [stored EXCEPT ![i].payload = x]
      BY <2>2, <3>1 DEF Damaged
    <3>3. Linked(stored) /\ IsEntry(stored[i])
      BY <1>0, <1>a, <2>1 DEF DamageIsSeen, AreEntries
    <3>4. QED
      BY <1>a, <2>1, <3>2, <3>3, EditIsSeen
  <2>8. DamageIsSeen'
    BY <2>1, <2>7 DEF DamageIsSeen
  <2>9. QED
    BY <2>3, <2>6, <2>8 DEF csInv
<1>10. CASE UNCHANGED csVars
  <2>1. UNCHANGED <<file, stored, tmp, memory, csPc, acked, refused, appends, deaths, damaged>>
    BY <1>10 DEF csVars
  <2>2. csScalars'
    BY <1>0, <2>1 DEF csScalars
  <2>3. StoreIsWhereItIs' /\ DamageIsSeen'
    BY <1>0, <2>1 DEF StoreIsWhereItIs, AreEntries, DamageIsSeen
  <2>4. QED
    BY <2>2, <2>3 DEF csInv
<1>11. QED
  BY <1>1, <1>2, <1>3, <1>4, <1>5, <1>6, <1>7, <1>8, <1>9, <1>10 DEF csNext

\* No step of the store tears a file that holds a chain.
LEMMA StoreKeepsTheFile == csInv /\ [csNext]_csVars => FileStaysWhole
<1> SUFFICES ASSUME csInv, [csNext]_csVars, file = "chain" PROVE file' = "chain"
  BY DEF FileStaysWhole
<1>1. csPc # "creating"
  BY DEF csInv, StoreIsWhereItIs
<1>2. QED
  BY <1>1 DEF csNext, OpenLoad, OpenRefused, OpenCreate, OpenCreated, AppendInMemory, WriteTemp,
              Rename, Die, Damage, csVars
-----------------------------------------------------------------------------
(* The fronts together                                                     *)

\* The inductive invariants of the parts, except of the cost feed, of which
\* only liveness is claimed.
FrontInv == hsInv /\ ebInv /\ srInv /\ esInv /\ csInv

\* A step of the fronts is a step of one part; the others stutter.
LEMMA PartsRunAlone ==
  [Next]_vars => /\ [hsNext]_hsVars /\ [ebNext]_ebVars /\ [srNext]_srVars
                 /\ [esNext]_esVars /\ [csNext]_csVars
<1> SUFFICES ASSUME [Next]_vars
             PROVE  /\ [hsNext]_hsVars /\ [ebNext]_ebVars /\ [srNext]_srVars
                    /\ [esNext]_esVars /\ [csNext]_csVars
  OBVIOUS
<1>1. CASE Next
  BY <1>1 DEF Next
<1>2. CASE UNCHANGED vars
  BY <1>2 DEF vars
<1>3. QED
  BY <1>1, <1>2

\* Whatever the six parts do, their invariants hold.
LEMMA FrontsAreSound == Spec => []FrontInv
<1>1. Init => FrontInv
  BY ServerStarts, BusStarts, RegistryStarts, ServiceStarts, StoreStarts DEF Init, FrontInv
<1>2. FrontInv /\ [Next]_vars => FrontInv'
  BY PartsRunAlone, ServerSteps, BusSteps, RegistrySteps, ServiceSteps, StoreSteps DEF FrontInv
<1>3. QED
  BY <1>1, <1>2, PTL DEF Spec

\* Every variable of the server, the bus, the evidence service and the store
\* keeps its type: the bounds of the ring buffer, of the queue of the mutex and
\* of the chains included.
THEOREM FrontsKeepTypes == Spec => []TypeOK
<1>1. FrontInv => TypeOK
  BY ServiceIsSound, StoreKeepsItsPromises DEF FrontInv, hsInv, ebInv, TypeOK
<1>2. QED
  BY <1>1, FrontsAreSound, PTL

\* The handlers of the orchestrator's HTTP server store a packet, its seal and
\* its alias one map at a time; no interleaving of requests lets a client see a
\* seal without its packet, a download without its seal, or a task reply
\* without the task.
THEOREM PacketsAreSeenWhole == Spec => []ClientsSeeWholePackets
<1>1. FrontInv => ClientsSeeWholePackets
  BY DEF FrontInv, hsInv, ClientsSeeWholePackets
<1>2. QED
  BY <1>1, FrontsAreSound, PTL

\* EvidenceService::seal: however calls wait, fail, are dropped or outlive a
\* restart, every chain is linked and every packet names its own entry.
THEOREM EvidenceStaysLinked == Spec => []EvidenceIsLinked
<1>1. FrontInv => EvidenceIsLinked
  BY ServiceIsSound DEF FrontInv
<1>2. QED
  BY <1>1, FrontsAreSound, PTL

\* ChainStore: where the only damage done to the file is an edited payload,
\* nothing acknowledged is lost by a failed write or a death of the process,
\* the file is never beside memory, and what open hands out is linked.  A
\* dropped entry breaks the last part, as the run chain_store_dropped shows.
THEOREM StoreStaysSound == Damages \subseteq {"edit"} => (Spec => []StoreIsSound)
<1> SUFFICES ASSUME Damages \subseteq {"edit"} PROVE Spec => []StoreIsSound
  OBVIOUS
<1>1. FrontInv => StoreIsSound
  BY StoreKeepsItsPromises DEF FrontInv
<1>2. QED
  BY <1>1, FrontsAreSound, PTL

\* While the process runs no chain in memory loses or changes an entry, and no
\* later save tears a file that held a chain.
THEOREM HistoryStays == Spec => HistoryIsKept
<1>1. FrontInv /\ [Next]_vars => [ChainsGrow /\ FileStaysWhole]_vars
  BY PartsRunAlone, ServiceKeepsHistory, StoreKeepsTheFile DEF FrontInv
<1>2. QED
  BY <1>1, FrontsAreSound, PTL DEF Spec, HistoryIsKept
=============================================================================
