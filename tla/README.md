# TLA+ models of Apohara TrustLayer

This directory models the control logic of the TrustLayer repository in TLA+,
checks it with TLC on small instances, and proves the results that matter most
with TLAPS for every value of the constants. Paths below are relative to the
repository; line numbers are those of the commit beside which this directory
is kept. `PROJECT.json` maps every definition to the lines it models and lists
the runs, the mutants that show each property can fail, the hazards the
properties are aimed at, and the theorems.

## 1. The system

TrustLayer runs an invoice through a pipeline of eight LLM agents, stops it
when a kill switch (BAAAR) trips, and seals the outcome into a signed,
time-stamped, hash-chained evidence packet. Four families of code live in the
repository:

* the `themis-*` crates: agents, orchestrator, HTTP/A2A server, evidence, the
  client of Band (the chat service in which the agents meet);
* the `tl-*` crates: key rotation, time stamps, SCITT receipts, watermarks, an
  MCP server, and the smaller "vouch" orchestrator with its dashboard;
* `apohara-agentguard`: a guard around coding agents (command gate, hooks,
  firewall, sandbox);
* `services/control_plane`: a Python service (notary, gateway, evidence and
  compliance API, verification page).

### Components

| Component | State | Operations | Interacts with |
|---|---|---|---|
| Invoice pipeline (`themis-orchestrator/src/orchestrator.rs`) | agent registry, finished machines; per run: machine, stage, decisions, outcome | `process_invoice`, `process_invoice_sealed`, `halt_and_return`, `check_baaar_and_maybe_halt` | state machine, gate, monitor, detector, room, Rekor, evidence, bus |
| Invoice state machine (`state.rs`) | one of ten states | `transition` | pipeline |
| Agents (`themis-agents`) | none of their own | `process` of eight agents, stubs of the binary | model calls, gate |
| Model calls (`llm.rs`, `routing.rs`, the metrics of `themis-compliance`) | routing table, calls, shared sinks | `complete`, retries, `record_call` | providers |
| BAAAR gate (`baaar.rs`) | none | `from_decision_payload`, `check`, `check_sac` | pipeline |
| Compliance crates (`themis-compliance`, `tl-policy`, `tl-gate`) | none | `map` per framework, `report`, registers, SARIF `merge`, `should_halt` | what a run left |
| Context crates (`tl-context`, `themis-compressor`, `tl-argus`) | none | `verify`, `verify_and_send`, risk model, `compress_text`, `decide`, the cordon | prompts on their way to a model |
| Rogue monitor (`rogue_monitor.rs`) | counts, quarantine, each with its mutex | `record_message`, `is_quarantined`, `unquarantine` | pipeline |
| Alert-fatigue detector (`human_guard.rs`) | a queue of approval times | `record_approval`, `check_authorization`, `reset_after_reauth` | pipeline |
| Circuit breaker (`circuit_breaker.rs`) | state under a mutex, an atomic counter | `call`, `state` | what it protects |
| HTTP and A2A surface (`http.rs`, `a2a_handler.rs`) | maps of runs, packets, seals, tasks; one mutex around the orchestrator | requests | pipeline, evidence, bus |
| Event bus and SSE (`events.rs`, `http.rs`) | a broadcast ring, a cursor per client | `publish`, `subscribe`, the stream | server |
| Hash chain, chain store, evidence service (`themis-evidence`) | entries; a file behind them; a chain per tenant under one mutex | `append`, `verify`, `open`, `seal` | file system, time-stamp authority |
| Time stamping (`timestamp.rs`, `tl-evidence/src/tsa.rs`) | the client chosen | stamp, quick and strict verification | authorities |
| Signer, tenants, keyring | key files, registry, caches | load or create, derive, rooms | processes sharing a directory |
| Key rotation (`tl-evidence/src/key_rotation.rs`) | active key, grace keys, log | rotate, evict, accept | signers |
| Rekor clients | the client chosen, the log | anchor | pipeline |
| Band rooms and client (`room.rs`, `themis-band-client`, `band_live.rs`) | maps of rooms, a bridge process, shim processes with handles | open, post, close, request, receive | Band |
| Agent guard | configuration, policy, audit log and token files; processes | gate, hooks, fetch, sandboxed runs | the host's agent |
| Vouch (`tl-orchestrator`, `tl-chain`, `tl-frontend`) | a chain per tenant; a cost log | `POST /seal`, tail, replay, follow | browsers |
| SCITT receipts, watermarks (`tl-scitt`, `tl-watermark`) | envelopes; temporary files | sign, verify; apply, detect | external tools |
| MCP server (`tl-mcp-server`) | stdin, stdout | `handle_request` | an MCP client |
| Control plane | certificate table, ledger, caches, rows | notarise, answer, verify | clients, database, ledger |
| Qualified certificates (`qes_adapter.py`) | none; the EU trust list is fetched at each call | validate a certificate, walk the list | the list's servers |

The others (retry helper, dual LLM, MCP proxy, rendering, offline verifiers, bindings,
frontends) are listed in `PROJECT.json` with the reason they are not modelled; see
section 8.

### What is hard here

* **Interleavings.** Runs share the monitor, the detector and the chains; the
  breaker counts a failure before it takes its mutex; the monitor takes two
  mutexes one after the other; the notary looks up and saves an await apart;
  hooks are processes that share a token file and a log.
* **Partial failure and death.** Any stage may fail after others have decided;
  a seal may fail after its chain entry was appended; clients disconnect between
  awaits; processes die between file operations; each step by which the sandbox
  confines itself may fail with earlier processes already running.
* **Late answers.** A bridge answers after its caller has timed out; a
  transparency log integrates after the client has given up; a slow SSE client
  is overtaken by the ring.
* **Waiting.** All runs queue on one mutex held over network calls; a bridge
  keeps both ends of a pipe; a parent reads until the last holder of a pipe ends.
* **Edges of data.** Thresholds, windows and grace periods; DER integers with
  leading zeros; wildcards, quotes and nested substitutions; trees that are not full.

For each component the properties that make it correct are those of its run in
section 3; the hazards they answer are in `PROJECT.json`.

## 2. Modules

| Module | Models | Run |
|---|---|---|
| `StateMachine` | states and transitions of `state.rs`; one machine as an abstract specification | `pipeline` |
| `RunContract` | what a run promises its caller: an abstract specification | `pipeline` |
| `InvoicePipeline` | the orchestrator with its defences, anchor and seal; refines both | `pipeline` |
| `InvoicePipelineProofs`, `FrontProofs`, `AgentsProofs`, `ServicesProofs`, `NotaryProofs` | theorems, see section 4 | TLAPS |
| `CircuitBreaker` | `call` with concurrent callers | `circuit_breaker` |
| `TrustServer` | request handlers over the shared `AppState`; the ring of the event bus and the SSE stream | `front` |
| `Evidence` | chain operators; seals, time stamp, restarts; the file behind a chain | `front` |
| `Vouch` | vouch's `POST /seal`; its cost log and dashboard | `front` |
| `AgentMonitors` | alert-fatigue detector and rogue monitor at the grain of their locks | `agents` |
| `InvoiceAgents` | the BAAAR gate: payload parsing, five conditions, weighted consensus; the eight agents one after the other, and the binary's stubs | `agents` |
| `LlmCalls` | screens and compression of prompts: INV-15, the risk model and its proofs, compressor, ARGUS cordon and verdict parsing; routing, calls with retries, metrics sinks | `agents` |
| `ComplianceReports` | five framework mappers, report, dispute, registers, SARIF, ratings of `tl-policy`, the mirrors of the gate | `agents` |
| `KeyStores` | the rotating key store; key files, registry, keyring, rooms map | `services` |
| `Witnesses` | the three Rekor clients, wrapping and anchoring; time-stamp clients, tokens, quick and strict checks with the DER readers | `services` |
| `Band` | rooms over the bridge; handles, shims and live rooms | `services` |
| `CommandGate` | the gate as operators, commands typed before it, the two wildcard matchers on characters | `guard` |
| `HookGuard`, `Firewall` | hook processes; the firewall's rule tables, verdicts and out-of-band fetch | `guard` |
| `Sandbox` | parent, middle, grandchild; syscall lists; path resolution | `guard` |
| `Notary` | `POST /v1/notarize`; SCITT receipts | `control_plane` |
| `Gateway` | middleware, routing and handlers over the compliance tables | `control_plane` |
| `Transparency` | RFC 9162 checks and the verification page; the walk of the EU trust list | `control_plane` |
| `Watermark`, `McpServer` | markers, detectors and the C2PA tool; the stdio server | `control_plane` |

`InvoicePipeline` composes the pipeline with small versions of the monitor and
the detector; `AgentMonitors` opens those up to their locks. `TrustServer` sees a
run and a seal as answers that come or fail, and `Evidence` opens the seal up;
the pipeline sees an agent as an answer or an error, and `InvoiceAgents` and
`LlmCalls` open that up. `HookGuard` uses the gate of `CommandGate` and the
verdicts of `Firewall`.

### Runs over several parts

`MCFront`, `MCAgents`, `MCServices`, `MCGuard` and `MCControlPlane` each put
parts side by side that share no state in the program. A variable `part` says
which of them a behaviour exercises; the others stay in one initial state. What
TLC explores is the union of their state spaces, not the product, and every
invariant of a part is checked over all of that part's behaviours. Nothing is
lost by this: steps of parts without common variables commute. Names that two
parts would both use carry a prefix (`hs`, `eb`, `cf`, `br`, `mcp`, ...). A
conjunction named in the MC module (such as `StoreIsSound`) groups the
properties of one concern. `Parts` may be set to fewer parts to explore one alone.

### How state and actions correspond to the code

**InvoicePipeline.** A run is cut at its awaits. `Begin` is the call, `OpenRoom`
and `AnnounceRun` the two Band calls of the prologue, `AdvanceMachine` a turn of
the loop that moves the machine to the stage's state, `MissingAgent`,
`Dispatch`, `AgentFails` and `AgentDecides` the body of the stage loop,
`Handoff` the Band post, `CheckBaaar` the gate with its `break`, `Finish` the
end of the loop with the fatigue gate, `Anchor` the Rekor call, `Seal` the call
of the evidence service. `HaltAndReturn` keeps the code's early error return on
a terminal machine. A decision is the name of its agent; what the gate makes of
the auditor's decision is chosen when the auditor decides (`verdict`). The
environment approves, re-authenticates and lifts quarantines.

**CircuitBreaker.** `Admit`, `AdmitTrial` and `Refuse` are the first lock scope
of `call`, `Succeed` the success path, `CountFailure` the unlocked `fetch_add`,
`ApplyFailure` the second lock scope, `ReportRejection` the second read of the
state for the error. `trial` is a history variable: the calls admitted while
HalfOpen. Age and counter saturate where no comparison tells larger values apart.

**TrustServer.** Handlers enter and leave the orchestrator's mutex and
fill the stores one operation at a time; `Disconnect` drops a handler at an
await with the guard it holds. Events are numbers in the order of `publish`;
`Lag` is what `BroadcastStream` answers an overtaken reader, which the handler
filters out.

**Evidence.** BLAKE3 is a constructor: two hashes
are equal exactly if what was hashed is. The chain store has one action per file
operation, `Die` between any two, and `Damage` for what others may do to the
file while the process is down. The evidence service queues calls on the FIFO tokio
mutex, appends, asks the authority and seals, or refuses; `Restart` starts with
empty chains, as `main` does.

**Vouch.** `RegistryAppend` is all that happens under the lock of the map; the
request's `hash_chain_link` goes into the hashed payload and chooses no chain.
`TailPoll` and `TailRead` are the two halves of the polling task, whose file may be
written in between; a tab replays, subscribes and adds up what it is sent, as the
page's script does.

**AgentMonitors.** One action per lock scope; the clock is read
outside. `recorded` and `held` are history variables.

**InvoiceAgents, LlmCalls.** The gate is operators, put before every
combination of inputs. `RunAgent` takes the next agent of the pipeline, its
model's text (a fence and a body) and the decisions so far; hashes and
signatures are constructors. A model call is `Complete`, then any of
`RateLimited` and `Wake`, `Refused`, `BadBody`, `Answered`; `RecordCall` is the
sink's update under its lock. What screens and compresses prompts is operators
without state (`ContextIsSafe`): a prompt is the set of the patterns it matches, or a sequence
of words with their lengths; the risk model is one operator over two tables of
constants, the f32 ones of `InvocationContext` (as multiples of 2^-27) and those of
the f64 port, because the two differ by rounding.

**ComplianceReports.** Operators without state, too. The reports
are made of the decisions and the verdict that the run of `InvoiceAgents` has at
each of its states.

**KeyStores, Witnesses.** `rotate` moves the active key into the grace keys and evicts
(they are a set: nothing depends on their order); the wall clock ticks between calls.
`SignerService::new` is cut at its file operations (`Look`, `Read`, `Generate`,
`Truncate`, `Write`). The v2 client sends, waits and gives up, and `LogTakes` may come
before or after; the cosign client is a subprocess without a timeout, and nothing is
assumed of it.

**Band.** `BridgeTake`, `BridgeWrite`, `BridgeRead` and `BridgeTimeout` are the steps
of one request; a timed-out one drops the ends of the pipe, as the code does, and a
write may block for good. `ReadLine` is the reader thread, `PushEvent` its blocking
send on the bounded channel, `ShimCommand` and `Heartbeat` the shim.

**Witnesses, time stamps.** DER that the code reads octet by octet is a sequence of
octets; what a library decodes is a record, which names the certificate it was made
by. `Damaged` lists what may happen to a token on the way: another imprint, digest,
certificate, attribute, signature.

**CommandGate, HookGuard, Firewall, Sandbox.** A command is a sequence of tokens
(words, quotes, separators, substitution marks); `evaluate` is the whole gate, with
its passes bounded as in the code. The matchers work on characters. A hook is a
process with one action per file operation, `HookKilled` between any two; `after`
keeps which hooks had ended before one began, so that overlap is a fact of the
history. `fwResolve`, `fwConnect` and `fwRead` are the fetch, while `fwDnsChanges`.
The sandbox has one action per set-up step, each of which may fail, and `Killed` for
every process.

**Notary, Gateway, Transparency, Watermark, McpServer.** Coroutines of the notary are
cut at their database awaits. A gateway call is `Receive` (middleware), `Run`
(handler) and `Send` (serialisation); the compliance tables are constants. A tree hash
is the tree; a signature is the pair of key and message. The walk of the trust list
fetches one document after the other, the list may be replaced between two fetches,
and any of them may fail. Two threads of one process share the C2PA tool's two files
(`C2paRun`). The MCP server takes a line and answers it in one step (`ServeLine`), as
its loop does; a handler that panics ends the process.

## 3. Runs

| Run | What it shows |
|---|---|
| `circuit_breaker` | No trip is lost between `fetch_add` and the mutex (`NoMissedTrip`); HalfOpen always has a trial that will settle it (`HalfOpenIsOnTrial`); an open breaker is left again, and after recovery it ends up closed for good (`Settles`). |
| `pipeline` | After a halt no agent decides and the incident is published once; a run that failed on its way is neither anchored nor reported, whereas a packet the gate halted is signed and anchored like any other (`HaltIsFinal`); a sealed answer has exactly one chain entry (`SealedAnswerIsInChain`); the pipeline implements `RunContract` (`KeepsContract`) and `StateMachine` (`MachineIsLegal`); every call is answered (`EveryRunIsAnswered`). |
| `front` | Clients see whole packets although three maps are filled one at a time (`ClientsSeeWholePackets`); the stream is in order, without repetition, and complete unless overtaken (`StreamIsFaithful`); the root in an answer is that of its own seal (`RootIsOfOwnSeal`); chains are linked and packets name their entry (`EvidenceIsLinked`); what was acknowledged survives deaths, the file is never ahead, an opened chain is linked although entries were edited (`StoreIsSound`); chains only grow and no file turns unreadable (`HistoryIsKept`); requests and seals end (`EveryCallReturns`); overtaken clients and open tabs catch up (`FeedsCatchUp`). |
| `agents` | Out-of-order approvals never exceed the budget (`BudgetIsKept`); an agent over the threshold is not dispatched unless a quarantine was lifted (`HeldIsNotDispatched`); verdicts name the first condition and are monotone for every count of rounds a `u32` holds, agree between auditor and orchestrator, and honest signatures verify (`VerdictsAreSound`); a call that was answered, refused or turned away for good is counted exactly once and one with an unreadable body never, and the ring holds the latest latencies slot by slot (`MetricsAreOfTheCalls`); percentile, average, consensus, reports, registers, screens, risk models, compressor and cordon are what they should be of the run, the call or the prompt (`ReportsAreRight`); every model call ends (`EveryCallSettles`). |
| `services` | Signatures stay checkable for a grace period, no process serves with a torn key, tenants' rooms are apart (`KeysAreSound`); a packet claims only entries the log has, and their place is the log's unless cosign gave a bare answer (`EntriesAreHonest`); answers and events of Band go to those they are for, late ones too (`BandAnswersAreTheirOwn`); a token accepted by the strict check was stamped, and an honest one with a v1 ESS attribute, whose signer's certificate is at hand, is accepted under an EC root (`VerificationIsRight`); a bridge whose writes get through and a log with a time-out hold no caller for good (`NothingHangs`). |
| `guard` | The splitter loses nothing, more text never lowers a tier, the matchers match what they denote (`GateIsSound`); a repeated sentinel is flagged unless another SessionStart touched its file in between, and an answer of a kind the audit knows has its record (`HookAnswersAreBacked`); connections go to checked addresses only (`OnlyCheckedAreReached`); a command runs under every restriction of its tier or is refused with a reason (`RunsAreConfined`); every run returns (`EveryRunReturns`). |
| `control_plane` | A certificate answered is stored, an entry of the ledger leads to a row or to a call that is not through or failed, a second certificate is explained by overlap or by the lookup's limit (`CertificatesAreBacked`); marked texts of six tokens and more are detected, shorter ones never, and a C2PA call that nothing overlapped answers with its own input (`MarksAreFound`); rows go to their organisation, a report names the caller unless another call overwrote the shared one, MCP lines are answered in order, and what a listed tool does to the server is known (`AnswersAreRight`); only what a root commits to is reported verified, honest proofs are refused for two known reasons only, and a certificate is verified only if the trust list named it (`VerifiedIsVouchedFor`); an accepted receipt was signed and countersigned (`AcceptedWasSigned`). |
| `pipeline_failed_runs`, `chain_store_dropped`, `cost_total`, `timestamps_rsa`, `one_certificate` | Disagreements between code and comments or tests, see section 6. |

Sizes, with two workers: from 18 thousand distinct states in some seconds
(`circuit_breaker`) to 1.3 million in some two minutes (`control_plane`).

### Bounds, and why they are enough

* `circuit_breaker`: three callers and a threshold of two: one to trip, one to
  close in the gap, one late failure. Two ticks of timeout, so that a late
  failure can re-stamp in the middle of the window.
* `pipeline`: two runs, one tenant and a stranger, one invoice id (both runs
  write the same machine), nine agent tables (complete, or lacking one agent), a
  threshold of two messages, so that the second run meets agents the first one
  had counted out, one approval. Runs interact only through the monitor, the
  detector, the chain and the machine map; two reach every pairwise interaction.
* `front`: two HTTP calls of either kind with a download; two SSE clients, a ring of
  two and five events, so that a client is overtaken while it lags, before the prelude
  and twice; three seals over two tenants, one request with an empty field and each
  with or without a link; three evidence calls over two tenants and a stranger with a
  clock that lets one chain age out; four appends, two deaths; two rows within or
  across a tick of the file's clock, one failed read, one dropped connection.
* `agents`: two approvers with a budget of two in a window of two ticks; three
  threads on one agent (agents do not interact); scores at and around each
  threshold, rounds past the counter's width (`u32`, scaled to three bits);
  assessments on both sides of every condition; three calls over a ring of two,
  so that it wraps while calls overlap, and one pause before the retries run out;
  every set of matched patterns; up to nine candidates, reuse on both sides of its
  threshold; texts of four words in chunks of one to three; JSON of depth three.
* `services`: three keys, three rotations in a clock at the edge of the grace period;
  two processes on one key directory; two runs and a restart for Rekor; two room calls
  of two tenants over writes that may block; one handle with two requests and a
  channel of one, so that the reader blocks; two digests, two authorities, scalars
  with a leading zero and a high bit (two octets instead of 48), root lists with two
  roots of one name, tokens with and without the signer's certificate.
* `guard`: commands of up to four of 22 tokens (a substitution with a body, an
  assignment with its use, a decode with its payload each fit); patterns of four and
  texts of five characters over two letters; three hook processes, so that two
  SessionStarts and an output overlap; two redirects; every set-up step failing, in
  every tier.
* `control_plane`: three overlapping notarisations over two contents (one of them sent
  without tokens) and a lookup limit of one, one crash; texts of six tokens, the
  shortest that can be detected; two threads on the C2PA tool's files; two calls of
  two organisations; trees of up to five leaves, the first size with two levels that
  are not full; receipts assembled from two keys and two payloads; two pipelined MCP
  lines; three certificates, one of them built in, and a trust list replaced once.

`CHECK_DEADLOCK FALSE` is set where bounds end every behaviour or a process may
stop: calls are used up, a clock is at its end, a server has ended.

### Fairness

* Pipeline: weak fairness of each run's steps. tokio polls woken tasks; model
  clients (30 s), the bridge's reads and the v2 and mock Rekor clients have timeouts.
  Two awaits have none: the cosign subprocess (`rekor.rs:174`, l.203) and the bridge's
  `write_all` (`python_bridge.rs:263`). That they return is an assumption of
  `EveryRunIsAnswered`; it holds in the other modes without it.
  Nothing is assumed about approvals, re-authentication or lifted quarantines.
* Server, evidence service: weak fairness of each call's steps. The tokio mutex is
  FIFO, which the queue models; the FreeTSA client has a 10 s timeout.
  Disconnects are never forced.
* Event bus, cost feed: weak fairness of connected readers and of the polling
  task; a client that stops reading is one that disconnects.
* Breaker: weak fairness of each caller and of time. That the protected function
  heals is not assumed; the second half of `Settles` starts from there.
* Model calls, rooms, the v2 and mock Rekor clients: weak fairness of each step whose
  wait is bounded by a timeout. The other side (provider, log, child process) is never
  forced, nor is the cosign subprocess, nor a write into the bridge's pipe:
  `NoRunWaitsForTheLog` excludes cosign, and `EveryRoomCallReturns` holds of behaviours
  in which no write blocks for good.
* Sandbox: weak fairness of the processes; the command is taken to end, because
  the code enforces no timeout on it.

## 4. Proofs

Every theorem below is checked by TLAPS to the last leaf. Each rests on an inductive
invariant that TLC has checked on the instance of the component's run. The theorems
about a composition (`MCFront`, `MCAgents`, `MCServices`) hold for its `Spec`; a lemma
first shows that a step of the composition is a step of each part or leaves it alone
(`PartsRunAlone`, `ServicesRunAlone`), so that a part's invariant carries over. Where
a composition uses recursive operators (`MCGuard`, `MCControlPlane`) the prover cannot
reach it, and the theorem is about the specification of the part alone (`fwSpec`,
`sbSpec`, `scSpec`, `noSpec`), which is all of the composition that concerns the
property.

`CircuitBreaker`, for any set of callers, threshold and timeout
(assuming a positive threshold and a timeout that may be zero):

* `TypeCorrect`: `Spec => []TypeOK`.
* `TripNotMissed`: `Spec => []NoMissedTrip`. Inductive with `TypeOK`: the counter
  reaches the threshold only in `CountFailure`, whose caller carries the value it
  counted to the mutex; `ApplyFailure` then opens the breaker, and the closing
  success resets the counter.
* `HalfOpenSettles`: `Spec => []HalfOpenIsOnTrial`. `AdmitTrial` starts a trial
  together with HalfOpen; a trial that ends by success closes the breaker, and
  any failure applied in HalfOpen opens it.

`InvoicePipelineProofs`, for any runs, tenants, invoices and agent tables, with
and without the defences:

* `Invariance`: `Spec => []IInv`, with `IInv = ControlOK /\ MachineFollowsStage /\
  VerdictFollowsStage /\ OutcomeFollowsVerdict`.
* `MachinesAreLegal`: `Spec => MachineIsLegal`, every change of a machine is a
  legal transition of `state.rs`.
* `PipelineKeepsContract`: `Spec => KeepsContract`, the pipeline implements
  `RunContract` under the mapping `verdict`, `Answer`.
* `PipelineKeepsTypes`, `HaltsAreFinal`, `SealedAnswersAreChained`: `TypeOK`,
  `HaltIsFinal` and `SealedAnswerIsInChain`, from `IInv` and `DInv`. `DInv` says
  what a run leaves behind at each point: the agents that have decided are the
  first ones of the pipeline, exactly three after a halt; an incident is among its
  events exactly if its outcome is Halt; the log has it only past the anchor; a
  chain holds a run at most once and only after its answer. The last is what makes
  "once" inductive: sealing and answering are one step.

Why the invariant is needed: `MachineIsLegal` fails if the BAAAR halt or
`halt_and_return` moved a machine that is in a terminal state. In the code
`transition` refuses that with an error. For `halt_and_return` the error is
real and modelled; for the BAAAR halt the model has no error branch, because the
gate is consulted at stage three only, where the machine is in Auditing
(`MachineFollowsStage` proves that the branch is dead).
`KeepsContract` fails if a packet could be released with another outcome than
the gate's: `OutcomeFollowsVerdict` carries the outcome from the gate through
signing, anchoring and sealing, and `VerdictFollowsStage` excludes a pending
halt at every point where `halt_and_return` answers Approve. That last fact
rests on the order of the code: the gate is checked directly after the
auditor's hand-off, and no failure can come between.

`FrontProofs`, for any calls, clients, tenants and bounds:

* `PacketsAreSeenWhole` (`hsInv`): for each place of a handler, which maps it has
  filled (`Progress`), and for each stored packet, how far its handler is (`Stored`).
* `StreamsAreFaithful` (`ebInv`): every event a client has is below its cursor
  and its cursor is at most one past the last event (`CursorsAreRight`).
* `RootsAreOfOwnSeals` (`srInv`): between append and answer a request already has
  its entry, and no later append changes it.
* `EvidenceStaysLinked` (`esInv`): the call that awaits the authority is the first
  in the mutex's queue and its entry is the last of its tenant's chain
  (`StampingHasTheMutex`), so a packet's length names its own entry; the queue
  holds no call twice; chains are no longer than the calls that have had the mutex.
* `StoreStaysSound` (`csInv`): stated where damage to the file is an edit of a
  payload, `Damages \subseteq {"edit"}`. The hypothesis is needed: `chain_store_dropped`
  shows that a dropped entry goes unnoticed.
* `HistoryStays`, the action property: a step leaves each chain as it was or one
  longer, and no step turns a file that holds a chain into a torn one.
* `FrontsKeepTypes`: the types, which bound the ring, the queue and the chains.

`AgentsProofs`, for any threads, threshold, budget and window:

* `HeldMessagesStayHeld` (`rmInv`): a message that must be held is on its way to
  the quarantine with grounds to flag its agent, or behind it with the agent in
  quarantine (`HeldIsOnItsWay`).
* `BudgetHolds` (`afInv`): the queue is a tail of what was recorded, and what is
  missing from it has aged. Stamps enter out of order, so the loop's prefix may end
  early; a lemma about the loop (what it pops is out of the window) suffices.
* `MonitorsKeepTypes`.
* `VerdictsStaySound`, for any scores, rounds and assessments. For the gate
  (`bgInv`): the verdict kept is the one of the assessment kept, so that naming the
  first condition and monotony are facts about `Check`, decided condition by
  condition. For the agents (`iaInv`): the decisions are those of the stages passed,
  in their order; the fifth holds the signature over exactly the first four, which
  no later decision changes, and that is what the seventh checks.
* `MetricsStayInStep` (`MetricsAreOfTheCalls`). `lmInv` says where a latency of a
  given age is: as long as fewer than a ring's worth came after it, in the slot so
  many before the next one to be written, across the wrap; and the calls the sink has
  counted are those recorded so far, each once.

`ServicesProofs`, for any keys, processes, tenants, rooms, calls, handles, runs,
authorities and bounds:

* `KeysStaySound`. For rotation (`krInv`): a key that signed less than a grace
  period ago is active or was retired no earlier than it signed, which is what
  eviction goes by. For key files and rooms (`tkInv`): a file is missing,
  cut short or holds a key some process drew, a file once there stays there, a process
  serves only on a drawn key, and no two tenants or invoices share a room.
* `EntriesStayHonest` (`raInv`): a packet has no entry before its run is done; an
  entry of a real log is in it, at the place it names if it names one; one of the mock
  has an index which the counter of its life has passed. A restart sets the counter
  back, and the entries of earlier lives are told apart by their life.
* `BandAnswersStayTheirOwn`. For the bridge (`brInv`): a request that times out takes
  stdout with it, so the pipe never holds a line but the one for the call that reads
  it, and a chatroom Band made keeps the room it was made for. For the sockets
  (`bsInv`): what a shim printed is what was received, is in the channel, held or
  still unread, in that order (`NothingIsLost`); a reply answers the ref of the
  request that waits (`RepliesMatch`). Which events were kept is a history
  variable of the handle, so that no filter over a concatenation has to be computed.
* `VerificationStaysRight` (`tsInv`): the token kept is none, a refusal, or what a
  service made of a digest it has stamped, whole or damaged; and a verdict is the
  one on that token. The first direction then goes through every damage: a token
  that still passes is signed by its service for the digest it was given, or by
  nobody known, and the chain excludes the latter (`DamagedTells`,
  `AcceptedIsStamped`). The second direction rests on lemmas about DER, for octets
  of any value: what `Tlv` writes, `read_tlv`, `tlv_value_bytes` and `skip_tlv` read
  back whichever of the three forms its length has (`TlvIsRead`); `normalize` undoes the
  minimal INTEGER, leading zeros and sign octet included (`ScalarIsRead`); so
  `der_to_ecdsa_p384_signature` returns the numbers signed (`SignatureIsRead`) and
  `extract_ess_cert_hash_v1` the hash written (`EssIsRead`). Three hypotheses of the
  property are needed, because the code accepts no other honest token: the root's key
  is elliptic (`timestamps_rsa`), the token has an ESS attribute of version 1, and the
  signer's certificate is in it or in the verifier's list (section 6).

`NotaryProofs`, for any overlapping calls, contents, submitters, limit and crashes:

* `CertificatesStayBacked` (`noInv`): a call that found no certificate knows that each
  one there was is older than the `Limit` newest of its submitter (`NoneListed`), and
  this survives every later insertion; ids are drawn once, and an entry of the ledger
  belongs to a row, to a call about to save it or to one that failed. It needs
  counting: the rows newer than a given one only become more.

* `AcceptedReceiptsWereSigned`: a SCITT receipt is made of parts that
  were made.

`Firewall` and `Sandbox` carry their proofs themselves:

* `FetchReachesOnlyChecked`: between check and connection only checked addresses are
  held.
* `RunsStayConfined` (`sbInv`): the grandchild at a given step of its setup already
  has every restriction of the steps before it (`StagesConfine`), the three processes
  come and go in order (`ProcessesInOrder`), and each exit code has its cause
  (`ExitsAreExplained`), which is what makes the parent's answer tell of a refusal.

Assumptions on constants are named in the module that declares them, and TLC evaluates
them: bounds and limits are natural numbers (`LimitAssumption`, ...), a threshold, a
budget and a ring are positive, tenants and strangers are disjoint, agent tables name
agents of the pipeline (`RegistriesAssumption`), there are finitely many calls
(`CallsAssumption`), damages are of the three kinds (`DamagesAssumption`), the
placeholder is no key id (`KeyIdsAssumption`), the rotation policy holds whole numbers
of any sign (`PolicyAssumption`; the code checks them) and a room's UUID is none of
`get_room`'s error answers (`RoomsAssumption`). The mark of a free bridge is no call
(`RoomCallsAssumption`), participants are a list of names (`ParticipantsAssumption`),
the width of the rounds counter exceeds the cap on rounds (`ModulusAssumption`: a
`u32` and 5), scores are numbers (`ScoresAssumption`, `AssessmentsAssumption`), the
latency ring has a slot (`LatencyRingAssumption`) and the calls are finite in number
(`FiniteCallsAssumption`), and the certificates with a built-in fingerprint are
certificates (`StaticCertsAssumption`). For time stamps: a digest is not the mark of
its absence (`DigestsAssumption`); a signature's numbers have as many octets as the
curve's order, at most 48 (`ScalarsAssumption`); a service signs with a P-384 key
which its own root certifies and which nobody else has (`AuthoritiesAssumption`,
external: what FreeTSA is); no verifier is given a root with an unknown key
(`RootsAssumption`).

Only model-checked:

* all liveness properties: fairness and `ENABLED` are beyond the prover;
* `GateIsSound`, `HookAnswersAreBacked`, `VerifiedIsVouchedFor`: they rest on recursive
  operators (parsers, matchers, tree climbing);
* `ReportsAreRight`: what a sort or a fold computes over a sequence
  (`RingIsTheLatest`, `ConsensusIsCarried`) takes an induction over data, and the
  tables of `ComplianceReports` and the screens of prompts are decided by evaluation;
* `MarksAreFound` and `AnswersAreRight`: what encoding and decoding a mark, splitting a
  stream into lines or filtering rows computes, again an induction over data;
* the converse of `VerificationIsRight` for RSA roots, which is false
  (`timestamps_rsa`).

## 5. Mutants

Every property of a passing run has a mutant beside what it mutates: a definition
that changes one mapped definition the way a plausible bug would (a lock kept on
an early return, a counter not reset, an in-place write, a wait that keeps the
pipe), under which TLC finds the property violated. They are marked as mutants
and used by no specification.

## 6. Findings

Five disagreements are kept as runs that TLC must find violated:

* `pipeline_failed_runs` (`orchestrator.rs:281`): the audit_watchdog works in
  state Done. If it is missing, quarantined or fails, `transition(Fail)` is an
  error on the terminal machine and `?` discards the decisions that
  `halt_and_return` promises to assemble and sign.
* `chain_store_dropped` (`chain.rs:203`): `verify` re-hashes each entry but
  compares neither neighbours nor sequence numbers, so a chain with an entry
  cut out of its middle verifies. The same property holds for edited entries
  (`StoreIsSound`).
* `cost_total` (`tl-frontend/src/sse.rs:261`): a changed log is sent whole, so
  every open tab adds up earlier rows again.
* `timestamps_rsa` (`timestamp.rs:1120`): an RSA root's key is never parsed, so no
  chain under one is accepted, where comment and test say it is.
* `one_certificate` (`service.py:216`): two requests for one content that overlap, or a
  repetition after a hundred other certificates, are both issued, where the service is
  documented as idempotent on content hash and submitter (l.5, l.206).

### Divergences noted while modelling

The models do what the code does in each of these cases, and where a property would
be expected to exclude one, its comment says how far it holds. No run is spent on them.

Circuit breaker (`circuit_breaker.rs`)

* HalfOpen admits every concurrent caller (l.152); l.50 and l.157 speak of one
  trial call.
* A success in Closed does not reset the counter (l.182); l.88 calls it a
  counter of consecutive failures, reset on success.
* A rejected caller re-reads the state after the mutex is released (l.168), so
  the error may carry HalfOpen or Closed; l.71 says "the state at the moment of
  rejection".
* No agent call goes through the breaker, although comments in
  `orchestrator.rs` (l.85, l.221, l.619) say so.

Pipeline (`orchestrator.rs`)

* Every agent call counts as a message without a mention (l.604) and nothing in
  the pipeline resets the count, so enough ordinary invoices quarantine a
  healthy agent; l.597 calls it a default that will not false-positive.
* `process_invoice_sealed` seals the unsigned packet of a suspended approver
  (l.817); l.92 says the guard gates seal and anchor.
* `next_agent_mention` (l.839) often names an agent that does not work next;
  `events.rs:137` documents the field as the next agent in the pipeline.
* Finished machines stay in the map, so `in_flight()` counts them.

Server (`http.rs`, `a2a_handler.rs`)

* `EvidenceSealed` is published for packets that were never sealed
  (`http.rs:587`, `a2a_handler.rs:302`); see `events.rs:57`.
* The packet of `message/send` is announced but never stored, so it cannot be
  downloaded; `a2a_handler.rs:14` says it reuses the path of `POST /invoices`.
* `post_human_override` never looks the packet up (`http.rs:889`); `events.rs:105`
  describes it as the override of a halt.
* A dispute needs decisions of an agent that a halted run never reaches
  (`http.rs:559`), so the ruling "halt" is never published (`events.rs:84`).
* `get_events_sse` starts with the sponsor stack, and nothing publishes
  `AiDisclosure`; `events.rs:188` calls that the first event of a connection.

Evidence (`themis-evidence`)

* `append` changes memory before the file (`persistence.rs:90`); after a failed
  write the two differ, where l.76 says they stay in sync. What remains true is
  `FileIsBehindMemory`.
* The first write of the chain file is not atomic (`persistence.rs:70`); a death
  in it leaves a file that `open` refuses for ever. The scheme of l.94 protects
  appends only, which is what `HistoryIsKept` says.
* The binary never loads a stored chain (`bin/themis-orchestrator.rs:120`);
  `persistence.rs:12` says restarts do.
* `chain_length` counts the packet itself and the entries of failed seals
  (`packet.rs:345`); `orchestrator.rs:800` says the second invoice gets 1.
* A failing time-stamp authority fails the seal (`packet.rs:294`) and leaves its chain
  entry without a packet; the binary's comment says the demo "degrades gracefully"
  (`bin/themis-orchestrator.rs:105`).
* A chain that was idle for longer than the retention window refuses every
  later append (`chain.rs:181`).
* `FreeTSAAuthority::verify` is the quick check, which a reply without a token
  passes (`timestamp.rs:317`, against l.22).

Defences (`human_guard.rs`, `rogue_monitor.rs`, `baaar.rs`)

* A suspension ends by itself when the approvals age out (`human_guard.rs:158`);
  l.43 says it lasts until `reset_after_reauth`.
* Out of order, an aged approval hides behind a fresh one and is still counted
  (`human_guard.rs:122`): the detector may overcount, never undercount.
* A message with a mention lifts a quarantine (`rogue_monitor.rs:89`, against
  l.14); `record_message` answers Active for an agent already in quarantine
  (l.109, against l.37); a thread between its count and its flag puts an agent
  back that `unquarantine` has just released (l.105, against l.124).
* `debate_rounds` is cut with `as u32` (`baaar.rs:156`), so a multiple of 2^32
  reads as zero rounds and is approved; the gate is documented to halt at five (l.114).
* The consensus can be turned by two agents of five (`baaar.rs:387`, against
  l.302), because the auditor weighs twice as much.

Agents and model calls (`themis-agents`, `themis-compliance`)

* The latency average divides the sum over all calls by the length of the ring
  (`aiml_metrics.rs:196`, `featherless_metrics.rs:198`), as `RingIsTheLatest` says;
  `aiml_metrics.rs:83` speaks of the mean over the last calls. "Successes" counts
  responses without a usage block.
* `llm.rs:581` speaks of exactly one record per call; a 2xx body that cannot be read, is
  not JSON or has no content makes none (l.461–478, l.796–813). `CountedExactlyOnce`
  says which calls are recorded and which are not.
* `audit_watchdog.rs:1` watches for halts; the decisions of a halted run never
  reach it (l.80–95), and it judges by a mean confidence.
* The binary reads and prints `routing.toml` but does not apply it
  (`bin/themis-orchestrator.rs:55`, l.171–174); its agents are fixture stubs; the
  AIML backends get no sink, so `/metrics/aiml` stays zero; two models share one
  Featherless sink.

Compliance crates (`themis-compliance`, `tl-policy`, `tl-gate`)

* The OWASP mapper looks for `findings` at the top of a payload
  (`owasp_agentic.rs:42`), where the auditor nests them under `assessment`: a leak
  in a run that was halted for another reason is reported as mitigated.
* The flags `ac8_pass` and `ac15_pass` hold of every run, a failed one too; the
  registers of ISO 5469 and 23894 are fixed samples.
* `fria.rs:88` labels a score of exactly 0.85 as at the halt threshold; the gate
  halts above it.
* `from_baaar_inputs` keeps the severity for information only (`tl-gate/src/lib.rs:92`),
  so that a critical finding, on which `baaar_z3` halts, passes `tl-gate`.
* `tl-policy/src/lib.rs:535` says that six frameworks are not implemented; two of them
  report Covered for every disclosure, and EU AI Act does, too. DORA is never
  Covered, since the check of isolation always fails.

Prompts and contexts (`tl-context`, `themis-compressor`, `tl-argus`)

* A judge with three candidates has a risk of 0.6 + 0.1. In f32 that is above the
  threshold of 0.7 and mandates dense prefill (`context.rs:158`), in the f64 port it is
  not (`z3_inv15.rs:112`), whose constants are "kept in lockstep" (l.31).
* `prove_inv15` evaluates one corner and always says PROVED; a script that fails is
  answered with the built-in PROVED (`proof.rs:112`). `source` tells them apart.
* The rate is the share of words to drop (`classifier.rs:52`), 0.3 for short texts and
  0.7 for long ones; `variant.rs:7` calls 0.3 aggressive and 0.7 loose, `llm.rs:911`
  calls the rate the share to keep, and `classifier.rs:38` is right for one half only.
* With nothing kept of several chunks the text is spaces and not empty
  (`classifier.rs:168`), so that `CompressionBackend` sends it instead of the original.
* `unrestricted_keyword` and `malicious_keyword` block alone (0.8, `inv15.rs:216–230` of
  `themis-compliance`), where the comments speak of a pair with an impersonation;
  there are eleven and thirteen patterns, where the comments count ten and twelve.

Band (`themis-band-client`, `room.rs`, `band_live.rs`)

* One timeout leaves the bridge dead for good (`python_bridge.rs:220`, l.236 speak
  of a recoverable error); `post` is Ok whatever the SDK answered.
* Two callers of `open` may create two chatrooms for one invoice (`room.rs:409–446`,
  against l.88: "or reuse an existing one"); a post to another tenant's room is not
  checked (l.453).
* The reply of `join_room` never parses (`socket.rs:237–245`); `ping` has no
  reply and times out; a full event channel starves replies while a request
  holds the handle.
* `start_room` may answer with another room's metrics (`band_live.rs:106`), and an
  older fleet keeps pumping after a re-start; the transcript is empty in real
  mode (`http.rs:655`).

Keys and anchoring

* A compromised key is still accepted in its grace period; racing processes each
  keep the key they generated (`signer.rs:121–147`); a torn key file stays unusable.
* `TenantRegistry`'s `Clone` copies the rooms map; the keyring and the signer derive
  different keys for one tenant.
* The cosign client defaults to an empty uuid and index 0 (`rekor.rs:229–240`), and its
  verification accepts any non-empty hash, whereas the mock's compares; the trait says
  one thing of both. Its subprocess has no timeout.

Time stamps (`timestamp.rs`, `tl-evidence`)

* The DigiCert choice uses the Sectigo stub (`tsa.rs:487–516`); qualified tokens never
  validate: the chain is empty and the request is not a TimeStampReq.
* `cms_verify` does not compare the chain with the signer's certificate, and a
  token without signers passes its loop.
* An ESS v2 attribute never parses (`timestamp.rs:804–837`), so a token with no other is
  refused, against l.8–11 and l.675–678; a token without embedded certificates is
  refused unless the caller has the signer's (l.116–122, l.374). The first root of the
  issuer's name decides, so a root renewed under its old name fails. The mock
  verifies anything; the quick check accepts any non-empty bytes.

Agent guard (`apohara-agentguard`)

* Session budgets never accumulate: each hook process starts a fresh `PolicySet`
  (`policy/engine.rs:29`); `deny` lists are unused.
* Blocks of MCP tools are not audited (`hook/mod.rs:154`), where l.109 says that a
  Block, Warn or Ask is recorded; a second SessionStart truncates and replaces the
  session's sentinel (`hook/canary.rs:144`), so that an output repeating the earlier
  one passes, against l.3–7. `Recorded` and `Interferes` say exactly when; a broken
  `config.toml` falls back to defaults while policy errors fail closed; the scan
  commands ignore configured thresholds.
* The level preset is not applied by the gate (`gate/mod.rs:129`, l.166, l.239, against
  `config.rs:212`); the allow-list's matcher misses texts its pattern denotes
  (`config.rs:330–346`, against l.306–314): too strict, never too lenient.
* `split_compound` pushes bytes as characters (`compound.rs:119`).
* A signal that ended the command is not noted (`runner.rs:156–166`, l.504, against
  `sandbox/mod.rs:51`); the timeout is not enforced; `sendto` is in the
  workspace-write list (`syscalls.rs:256`, against l.45), and that tier restricts
  `fcntl` more than read-only does.

Vouch (`tl-orchestrator`, `tl-frontend`)

* A request without `hash_chain_link` extends its tenant's chain like any other
  (`tl-orchestrator/http.rs:258–261`); l.44–46 say that the server then generates a
  fresh chain. The link is hashed and echoed (l.238, l.269) and never looked up.
* The lock of the chains' map is held over the whole append; `http.rs:126` says
  tenants do not serialise on one lock.
* A row sent between a tab's replay and its subscription is missed until the next
  change; a failed read after the file's time was noted is not retried; a tab that
  reconnects counts everything again; the channel's comment says 200, the code 256.

MCP server (`tl-mcp-server`)

* `main` never initialises the backends (`backends_global.rs:25` says it is called at
  startup), so `bundle.*`, `scitt.verify` and `watermark.detect` panic and end the
  process; `tools_v2.rs:22` says all handlers work. `ListedToolsAnswer` says which
  tools end it.
* `key.rotate` does not show in `key.status`; bundles created cannot be fetched; the
  Rule of Two is not called (`tools_v2.rs:471`); notifications are answered; a line
  that is not UTF-8 ends the server.

Control plane (`services/control_plane/app`)

* Notary: idempotency holds up to overlap and the newest 100 certificates (see
  `one_certificate`). A local `import httpx` in `notary/scitt.py:120`
  makes l.139 an error.
* Gateway: `get_async_session_dep` returns the generator function, so evidence routes
  fail unless it is overridden; the JWT secret is cached at first use; an invalid
  token falls through to X-Org-Id; a generated disclosure is never persisted;
  public paths get the Article 50 header too (`article50.py:46`, l.77).
* Reports: a shared dictionary is mutated, so a report may name another caller's
  organisation (`api/cross_jurisdiction.py:53`); `ReportsNameTheCaller` says that this
  is the only way. The risk summary is always empty; the PLD deadline always fails for
  known regulations and its routes are under `/v1/v1`; the rebuttal pack is always
  "compliant" although a control is partial; a linked two-step chain is refused
  (`catalyst_integration.py:215`); suites pass without proof
  (`adversarial_scaffold.py:418`).
* Verification: an honest proof is refuted if the log prefixes interior hashes with
  0x01, as RFC 9162 does, or if the leaf's index does not tell its path, as in trees
  that are not full (`rfc9162_verifier.py:67`, against l.45, l.88):
  `HonestVerdictIsKnown`; log index 0 counts as missing; federation verifies nothing;
  the page's COSE step is always absent for dotted envelopes.
* Qualified certificates (`qes_adapter.py`): the octets looked for are not the DER of
  the identifier 0.4.0.19422.1.1 and the root is never looked up, so `is_qualified` is
  never True (l.92, l.108); a certificate that is not qualified may have no issues
  (l.122); a caller's `lotl_xml` does not skip the network (l.476); the fallback loads
  base64 text as DER, so that the fetched anchors are never used, and lets the
  parser's error through.
* Watermark: the temporary files are named after the process
  (`tl-watermark/src/lib.rs:271`), so that overlapping calls may answer with one
  another's input, where l.150 speaks of pure functions; a marked text of fewer than
  six tokens is not detected, where `watermark_strategy.py:253–256` calls every result
  provably watermarked; the Python green list is not a port of the Rust one.

## 7. What the models leave out

* The content of decisions, prompts and packets; encodings, PDF and HTML; logging.
* Rounding of floating-point numbers; scores are whole percents. The exception is
  the risk model of `LlmCalls`, where rounding decides.
* Panics and poisoned mutexes, except in the MCP server, where they are the
  behaviour of interest; a process that runs out of memory.
* The regular expressions of gate, firewall and INV-15: a rule's text is one token, or a
  set of matched rules is given. Truncated DER, revocation lists, wire formats.
* Read-only routes of the servers; billing, database models and migrations.
* Cryptography: hashes, signatures and tree hashes are free constructors.

## 8. Not modelled

* `retry.rs`: a helper without a caller; the retries that run are in `LlmCalls`.
* Dual LLM and MCP proxy: the proxy accepts connections and drops them; the taint
  check is a substring test without state.
* `signed_message.rs`, `trust_gate.rs`, `envelope.rs`, `rule_of_two.rs`,
  `restore_chain`, the orchestrator's `sandbox.rs`, `honesty_auditor.rs`: no caller
  in what is modelled.
* Rendering, offline verifiers, bindings, AIBOM, red-team and bench binaries,
  frontends and SDKs: data transformations, thin clients or drivers, see
  `PROJECT.json`. Of the compliance crates, the disclosure and retention records; of
  ARGUS, the audit events.
* Consistency proofs of the log and the assessment suites' tables: no caller, or
  constants without control; the watermark's stub providers, which return their input.

## 9. Plan

The modelled part covers the control logic of all four families, and the safety
invariants that the prover can reach are theorems for the most part. What is left:

1. `AnsweredInOrder` of the MCP server and the gateway's separation of organisations,
   the parts of `AnswersAreRight` that are about control and not about what a filter
   or a table computes.
2. The monotony of the gate's tiers, once the matchers of `CommandGate` are written
   without recursion.
