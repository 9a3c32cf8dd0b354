----------------------------- MODULE TrustServer ------------------------------
(***************************************************************************)
(* The HTTP server of the orchestrator: its handlers, and the bus its event *)
(* stream is fed from.  The two share no state.                            *)
(***************************************************************************)
EXTENDS Naturals, Sequences, FiniteSets, Integers

(***************************************************************************)
(* The HTTP surface of the orchestrator process: POST /invoices, the       *)
(* packet downloads and POST /packets/:id/override                         *)
(* (crates/themis-orchestrator/src/http.rs), and the A2A JSON-RPC methods  *)
(* message/send, tasks/get and peer_verdict/attach (a2a_handler.rs).       *)
(*                                                                         *)
(* Every handler shares one AppState.  Runs take a tokio mutex on the      *)
(* Orchestrator for their whole length; everything after the run happens   *)
(* without it, one map insertion or one publication at a time.  Runs are   *)
(* as RunContract describes them; a packet is known by the call that made  *)
(* it.  A client that disconnects drops the handler's future, which stops  *)
(* the handler at the await it is at and releases the mutex.               *)
(***************************************************************************)

CONSTANTS
    HttpCalls,          \* POST /invoices and message/send calls
    HasEvidence,    \* the orchestrator was built with evidence services
    MaxDownloads    \* bound: downloads remembered

ASSUME EvidenceAssumption == HasEvidence \in BOOLEAN
ASSUME DownloadsAssumption == MaxDownloads \in Nat

VARIABLES
    lock,       \* the call that holds the orchestrator's mutex, or "free"
    chained,    \* calls whose packet is an entry of an evidence chain
    reports, packets, sealed,   \* the AppState maps, by call
    tasks,      \* a2a_tasks
    peers,      \* a2a_peer_verdicts: tasks with a verdict attached
    bus,        \* what has been published on the EventBus (which keeps the order)
    downloads,  \* answers of GET /packets/:id/json: did they carry a seal?
    hsPc, kind, outcome   \* of each call

stores == <<reports, packets, sealed, tasks, peers>>
hsVars == <<lock, chained, stores, bus, downloads, hsPc, kind, outcome>>

Kinds == {"invoices", "a2a"}
hsPoints == {"idle", "waiting", "running", "appending", "stamping", "report",
           "packet", "sealed", "announce", "finish", "task", "replied",
           "failed", "gone"}
EventTypes == {"ProviderActive", "AgentStarted", "AgentDispute", "EvidenceSealed",
               "RunFinished", "HumanOverride"}
Inside == {"running", "appending", "stamping"}
Awaiting == {"waiting"} \cup Inside

\* Every variable keeps its type.
hsTypeOK ==
    /\ lock \in HttpCalls \cup {"free"}
    /\ chained \in SUBSET HttpCalls
    /\ reports \in SUBSET HttpCalls
    /\ packets \in SUBSET HttpCalls
    /\ sealed \in SUBSET HttpCalls
    /\ tasks \in SUBSET HttpCalls
    /\ peers \in SUBSET HttpCalls
    /\ bus \in SUBSET [type : EventTypes, call : HttpCalls]
    /\ downloads \in Seq([call : HttpCalls, seal : BOOLEAN, told : BOOLEAN])
    /\ hsPc \in [HttpCalls -> hsPoints]
    /\ kind \in [HttpCalls -> Kinds \cup {"none"}]
    /\ outcome \in [HttpCalls -> {"none", "Approve", "Halt"}]

hsInit ==
    /\ lock = "free"
    /\ chained = {}
    /\ reports = {} /\ packets = {} /\ sealed = {} /\ tasks = {} /\ peers = {}
    /\ bus = {}
    /\ downloads = <<>>
    /\ hsPc = [c \in HttpCalls |-> "idle"]
    /\ kind = [c \in HttpCalls |-> "none"]
    /\ outcome = [c \in HttpCalls |-> "none"]
-----------------------------------------------------------------------------
hsGoto(c, p) == hsPc' = [hsPc EXCEPT ![c] = p]
Event(type, c) == [type |-> type, call |-> c]
Published(type, c) == Event(type, c) \in bus
Sealing(c) == HasEvidence /\ kind[c] = "invoices"

\* A request arrives.  Both handlers announce the provider and the first agent
\* before they ask for the orchestrator.
Arrive(c) ==
    /\ hsPc[c] = "idle"
    /\ \E k \in Kinds : kind' = [kind EXCEPT ![c] = k]
    /\ bus' = bus \cup {Event("ProviderActive", c), Event("AgentStarted", c)}
    /\ hsGoto(c, "waiting")
    /\ UNCHANGED <<lock, chained, stores, downloads, outcome>>

Acquire(c) ==
    /\ hsPc[c] = "waiting"
    /\ lock = "free"
    /\ lock' = c
    /\ hsGoto(c, "running")
    /\ UNCHANGED <<chained, stores, bus, downloads, kind, outcome>>

\* The run or the seal returns an error: 500, and the mutex goes with the
\* guard.  Nothing is published.
Fails(c, p) ==
    /\ hsPc[c] = p
    /\ lock' = "free"
    /\ hsGoto(c, "failed")
    /\ UNCHANGED <<chained, stores, bus, downloads, kind, outcome>>

\* process_invoice returns a packet.  A sealing run goes on to seal it under
\* the same guard; the A2A handler stores nothing of it in the AppState.
RunReturns(c) ==
    /\ hsPc[c] = "running"
    /\ \E o \in {"Approve", "Halt"} : outcome' = [outcome EXCEPT ![c] = o]
    /\ IF Sealing(c)
       THEN hsGoto(c, "appending") /\ UNCHANGED lock
       ELSE /\ lock' = "free"
            /\ hsGoto(c, IF kind[c] = "a2a" THEN "announce" ELSE "report")
    /\ UNCHANGED <<chained, stores, bus, downloads, kind>>

\* EvidenceService::seal appends to the chain, then awaits the time stamp.
AppendToChain(c) ==
    /\ hsPc[c] = "appending"
    /\ chained' = chained \cup {c}
    /\ hsGoto(c, "stamping")
    /\ UNCHANGED <<lock, stores, bus, downloads, kind, outcome>>

SealReturns(c) ==
    /\ hsPc[c] = "stamping"
    /\ lock' = "free"
    /\ hsGoto(c, "report")
    /\ UNCHANGED <<chained, stores, bus, downloads, kind, outcome>>

\* The report is made, a dispute between fraud_auditor and gaap_classifier is
\* published (only a packet with both decisions can show one: a halted run has
\* no gaap_classifier decision), and store_run inserts the report.
StoreRun(c) ==
    /\ hsPc[c] = "report"
    /\ \/ UNCHANGED bus
       \/ /\ outcome[c] = "Approve"
          /\ bus' = bus \cup {Event("AgentDispute", c)}
    /\ reports' = reports \cup {c}
    /\ hsGoto(c, "packet")
    /\ UNCHANGED <<lock, chained, packets, sealed, tasks, peers, downloads,
                   kind, outcome>>

\* A mutant of StorePacket: the packet is announced, and the seal forgotten.
StorePacketOnly(c) ==
    /\ hsPc[c] = "packet"
    /\ packets' = packets \cup {c}
    /\ hsGoto(c, "announce")
    /\ UNCHANGED <<lock, chained, reports, sealed, tasks, peers, bus,
                   downloads, kind, outcome>>

StorePacket(c) ==
    /\ hsPc[c] = "packet"
    /\ packets' = packets \cup {c}
    /\ hsGoto(c, IF Sealing(c) THEN "sealed" ELSE "announce")
    /\ UNCHANGED <<lock, chained, reports, sealed, tasks, peers, bus,
                   downloads, kind, outcome>>

StoreSealed(c) ==
    /\ hsPc[c] = "sealed"
    /\ sealed' = sealed \cup {c}
    /\ hsGoto(c, "announce")
    /\ UNCHANGED <<lock, chained, reports, packets, tasks, peers, bus,
                   downloads, kind, outcome>>

\* EvidenceSealed is published for every packet, sealed or not.
AnnounceSealed(c) ==
    /\ hsPc[c] = "announce"
    /\ bus' = bus \cup {Event("EvidenceSealed", c)}
    /\ hsGoto(c, "finish")
    /\ UNCHANGED <<lock, chained, stores, downloads, kind, outcome>>

\* RunFinished; POST /invoices then replies, message/send records its task.
FinishRun(c) ==
    /\ hsPc[c] = "finish"
    /\ bus' = bus \cup {Event("RunFinished", c)}
    /\ hsGoto(c, IF kind[c] = "a2a" THEN "task" ELSE "replied")
    /\ UNCHANGED <<lock, chained, stores, downloads, kind, outcome>>

StoreTask(c) ==
    /\ hsPc[c] = "task"
    /\ tasks' = tasks \cup {c}
    /\ hsGoto(c, "replied")
    /\ UNCHANGED <<lock, chained, reports, packets, sealed, peers, bus,
                   downloads, kind, outcome>>

\* The client goes away while the handler waits for something.
Disconnect(c) ==
    /\ hsPc[c] \in Awaiting
    /\ lock' = IF lock = c THEN "free" ELSE lock
    /\ hsGoto(c, "gone")
    /\ UNCHANGED <<chained, stores, bus, downloads, kind, outcome>>

HttpStep(c) ==
    \/ Acquire(c) \/ Fails(c, "running") \/ RunReturns(c)
    \/ AppendToChain(c) \/ Fails(c, "appending")
    \/ SealReturns(c) \/ Fails(c, "stamping")
    \/ StoreRun(c) \/ StorePacket(c) \/ StoreSealed(c) \/ AnnounceSealed(c)
    \/ FinishRun(c) \/ StoreTask(c)
-----------------------------------------------------------------------------
\* GET /packets/:id/json: the packet is looked up, then the seal.  A client
\* may ask for any id; "told" says that it learnt it from the event stream.
Download(c) ==
    /\ Len(downloads) < MaxDownloads
    /\ c \in packets
    /\ downloads' = Append(downloads,
                           [call |-> c, seal |-> c \in sealed,
                            told |-> Published("EvidenceSealed", c)])
    /\ UNCHANGED <<lock, chained, stores, bus, hsPc, kind, outcome>>

\* POST /packets/:id/override with a user-verified assertion and a reason.
\* The packet is not looked up.
HumanOverride(c) ==
    /\ bus' = bus \cup {Event("HumanOverride", c)}
    /\ UNCHANGED <<lock, chained, stores, downloads, hsPc, kind, outcome>>

\* peer_verdict/attach: a verdict for a task that is recorded.
AttachVerdict(c) ==
    /\ c \in tasks
    /\ peers' = peers \cup {c}
    /\ UNCHANGED <<lock, chained, reports, packets, sealed, tasks, bus,
                   downloads, hsPc, kind, outcome>>

hsNext ==
    \E c \in HttpCalls :
        \/ Arrive(c) \/ HttpStep(c) \/ Disconnect(c)
        \/ Download(c) \/ HumanOverride(c) \/ AttachVerdict(c)

hsSpec == hsInit /\ [][hsNext]_hsVars

\* Handlers are polled, runs return, and the mutex is handed over in order.
hsFairness == \A c \in HttpCalls : WF_hsVars(HttpStep(c))
-----------------------------------------------------------------------------
\* "the packet_id key-aliasing invariant between packets and sealed": no seal
\* without the packet under the same id, and no seal that is not in a chain.
SealsAliasPackets == sealed \subseteq packets \cap chained

\* A client that learnt a packet's id from EvidenceSealed and downloads it
\* from a server with evidence gets it with its seal, although the maps are
\* filled one at a time.
ToldDownloadsCarrySeal ==
    \A i \in DOMAIN downloads :
        downloads[i].told /\ HasEvidence => downloads[i].seal

\* A task a peer was told about can be fetched, and peer verdicts hang on
\* recorded tasks only.
RepliedTasksAreKnown ==
    /\ \A c \in HttpCalls : kind[c] = "a2a" /\ hsPc[c] = "replied" => c \in tasks
    /\ peers \subseteq tasks
    /\ \A c \in tasks : hsPc[c] = "replied"

\* Every request ends: no error and no disconnect leaves the mutex behind and
\* the other requests waiting.
EveryRequestEnds ==
    \A c \in HttpCalls : hsPc[c] # "idle" ~> hsPc[c] \in {"replied", "failed", "gone"}

-----------------------------------------------------------------------------
(***************************************************************************)
(* EventBus (crates/themis-orchestrator/src/events.rs) and its SSE         *)
(* subscribers, get_events_sse (crates/themis-orchestrator/src/http.rs).   *)
(* The bus is a tokio broadcast channel: a ring of the last Buffer events, *)
(* a cursor per subscriber, and for a subscriber that the ring has         *)
(* overtaken one Lagged error, after which it goes on at the oldest event  *)
(* still there.  The stream of the handler drops that error.               *)
(***************************************************************************)

CONSTANTS
    Subscribers,    \* SSE connections
    Buffer,         \* capacity of the channel
    MaxEvents       \* bound: events published

ASSUME BufferAssumption == Buffer \in Nat \ {0}
ASSUME EventsAssumption == MaxEvents \in Nat

VARIABLES
    sent,           \* events published so far; event i is the i-th of them
    ebPc,
    joined,         \* sent, when the connection was made
    cursor,         \* the next event the receiver takes
    seen,           \* what the client has been sent: 0 for the prelude
    lagged          \* the ring has overtaken the subscriber

ebVars == <<sent, ebPc, joined, cursor, seen, lagged>>

\* Every variable keeps its type.
ebTypeOK ==
    /\ sent \in 0..MaxEvents
    /\ ebPc \in [Subscribers -> {"off", "greeting", "streaming", "gone"}]
    /\ joined \in [Subscribers -> 0..MaxEvents]
    /\ cursor \in [Subscribers -> 1..(MaxEvents + 1)]
    /\ seen \in [Subscribers -> Seq(0..MaxEvents)]
    /\ lagged \in [Subscribers -> BOOLEAN]

ebInit ==
    /\ sent = 0
    /\ ebPc = [s \in Subscribers |-> "off"]
    /\ joined = [s \in Subscribers |-> 0]
    /\ cursor = [s \in Subscribers |-> 1]
    /\ seen = [s \in Subscribers |-> <<>>]
    /\ lagged = [s \in Subscribers |-> FALSE]
-----------------------------------------------------------------------------
\* The oldest event still in the ring.
Oldest == IF sent > Buffer THEN sent - Buffer + 1 ELSE 1

\* publish: never waits, with or without subscribers.
Publish ==
    /\ sent < MaxEvents
    /\ sent' = sent + 1
    /\ UNCHANGED <<ebPc, joined, cursor, seen, lagged>>

\* get_events_sse: the receiver is made before the prelude is sent.
Join(s) ==
    /\ ebPc[s] = "off"
    /\ joined' = [joined EXCEPT ![s] = sent]
    /\ cursor' = [cursor EXCEPT ![s] = sent + 1]
    /\ ebPc' = [ebPc EXCEPT ![s] = "greeting"]
    /\ UNCHANGED <<sent, seen, lagged>>

\* The prelude goes out first; it is not published on the bus.
Greet(s) ==
    /\ ebPc[s] = "greeting"
    /\ seen' = [seen EXCEPT ![s] = Append(@, 0)]
    /\ ebPc' = [ebPc EXCEPT ![s] = "streaming"]
    /\ UNCHANGED <<sent, joined, cursor, lagged>>

\* A mutant of Forward: the cursor stays where it is.
ForwardTwice(s) ==
    /\ ebPc[s] = "streaming"
    /\ cursor[s] \in Oldest..sent
    /\ Len(seen[s]) <= MaxEvents
    /\ seen' = [seen EXCEPT ![s] = Append(@, cursor[s])]
    /\ UNCHANGED <<sent, ebPc, joined, cursor, lagged>>

\* The next event is still in the ring.
Forward(s) ==
    /\ ebPc[s] = "streaming"
    /\ cursor[s] \in Oldest..sent
    /\ seen' = [seen EXCEPT ![s] = Append(@, cursor[s])]
    /\ cursor' = [cursor EXCEPT ![s] = @ + 1]
    /\ UNCHANGED <<sent, ebPc, joined, lagged>>

\* A mutant of Lag: the cursor moves past the events still to come.
LagPastEnd(s) ==
    /\ ebPc[s] = "streaming"
    /\ cursor[s] < Oldest
    /\ cursor' = [cursor EXCEPT ![s] = sent + 2]
    /\ lagged' = [lagged EXCEPT ![s] = TRUE]
    /\ UNCHANGED <<sent, ebPc, joined, seen>>

\* It is not: the receiver reports how far it lags, the handler drops the
\* report and the cursor moves to the oldest event.
Lag(s) ==
    /\ ebPc[s] = "streaming"
    /\ cursor[s] < Oldest
    /\ cursor' = [cursor EXCEPT ![s] = Oldest]
    /\ lagged' = [lagged EXCEPT ![s] = TRUE]
    /\ UNCHANGED <<sent, ebPc, joined, seen>>

Leave(s) ==
    /\ ebPc[s] \in {"greeting", "streaming"}
    /\ ebPc' = [ebPc EXCEPT ![s] = "gone"]
    /\ UNCHANGED <<sent, joined, cursor, seen, lagged>>

ebNext ==
    \/ Publish
    \/ \E s \in Subscribers :
          Join(s) \/ Greet(s) \/ Forward(s) \/ Lag(s) \/ Leave(s)

ebSpec == ebInit /\ [][ebNext]_ebVars

\* The server polls every stream whose client takes data.
ebFairness ==
    \A s \in Subscribers : WF_ebVars(Greet(s) \/ Forward(s) \/ Lag(s))
-----------------------------------------------------------------------------
Increasing(q) == \A i \in 1..(Len(q) - 1) : q[i] < q[i + 1]

\* A client gets the prelude and then events in the order they were
\* published, none twice, and only from after it connected.
InOrderOnce ==
    \A s \in Subscribers :
        /\ Increasing(seen[s])
        /\ \A i \in 2..Len(seen[s]) : seen[s][i] > joined[s]

\* A client that the ring has not overtaken misses nothing: it has every
\* event from the moment it connected, those published before its prelude
\* went out included, up to its cursor.
NothingMissed ==
    \A s \in Subscribers : ebPc[s] = "streaming" /\ ~lagged[s] =>
        /\ Len(seen[s]) = cursor[s] - joined[s]
        /\ \A i \in 2..Len(seen[s]) : seen[s][i] = joined[s] + i - 1

\* What a client of GET /events/sse sees is a faithful account of the run: the
\* order kept, nothing twice, and no gap unless the ring overtook the client.
StreamIsFaithful == InOrderOnce /\ NothingMissed

\* A connected client catches up with what has been published, however far it
\* fell behind.
CatchesUp ==
    \A s \in Subscribers : \A n \in 1..MaxEvents :
        ebPc[s] = "streaming" /\ sent = n
            ~> ebPc[s] = "gone" \/ cursor[s] > n
=============================================================================
