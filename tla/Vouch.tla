-------------------------------- MODULE Vouch ---------------------------------
(***************************************************************************)
(* The vouch binaries: the seals of the orchestrator (tl-orchestrator) and *)
(* the cost dashboard (tl-frontend).  The two share no state.              *)
(***************************************************************************)
EXTENDS Integers, Sequences, SequencesExt, FiniteSets

(***************************************************************************)
(* POST /seal of the vouch orchestrator (crates/tl-orchestrator): requests *)
(* are validated, hashed and signed, and the hash is appended to the chain *)
(* of their tenant (crates/tl-chain), whose root the answer carries.       *)
(* BLAKE3 is free of collisions: a hash is what was hashed.  A request may *)
(* name the root of the chain it means to extend (hash_chain_link): the    *)
(* server hashes and echoes that link and never looks at it.               *)
(***************************************************************************)

CONSTANTS
  Seals,       \* the requests, each handled by a task of its own
  SealTenants, \* the tenants, "" for a request that leaves it out
  SealCases,   \* the case ids, "" for a request that leaves it out
  SealLinks    \* what requests say as hash_chain_link: NoLink, or what a client has read

VARIABLES
  srCalls,     \* per request: [pc, tenant, case, link, root, status]
  srChains     \* ChainRegistry::chains: the tenants that have a chain

srVars == <<srCalls, srChains>>

Genesis == <<>>
NoLink == "none"
ComputeHash(sequence, prev, payload) == <<sequence, prev, payload>>
ChainRoot(chain) == IF chain = <<>> THEN Genesis ELSE chain[Len(chain)].hash

ChainAppend(chain, payload) ==
  Append(chain, [sequence |-> Len(chain), payload |-> payload, prev |-> ChainRoot(chain),
                 hash |-> ComputeHash(Len(chain), ChainRoot(chain), payload)])

\* Chain::verify: numbering, the placeholder, and each entry's own hash.
ChainVerify(chain) ==
  \A i \in 1..Len(chain) :
    /\ chain[i].sequence = i - 1
    /\ (i = 1) <=> (chain[i].prev = Genesis)
    /\ chain[i].hash = ComputeHash(i - 1, chain[i].prev, chain[i].payload)

----------------------------------------------------------------------------
\* Validation, canonical payload, hash and signature: nothing shared is touched.
SealRequest(c, tenant, case, link, outputs) ==
  /\ srCalls[c].pc = "idle"
  /\ srCalls' = [srCalls EXCEPT ![c] =
       IF case = "" \/ tenant = "" \/ ~outputs
       THEN [@ EXCEPT !.pc = "done", !.status = 400]
       ELSE [@ EXCEPT !.pc = "append", !.tenant = tenant, !.case = case, !.link = link]]
  /\ UNCHANGED srChains

\* ChainRegistry::append: the map's lock is held over the chain's, so the root is
\* read in the critical section that appended.  The tenant alone decides which
\* chain is extended.
RegistryAppend(c) ==
  LET call == srCalls[c]
      chain == ChainAppend(srChains[call.tenant], <<c, call.case, call.link>>)
  IN  /\ call.pc = "append"
      /\ srChains' = [srChains EXCEPT ![call.tenant] = chain]
      /\ srCalls' = [srCalls EXCEPT ![c].pc = "reply", ![c].root = ChainRoot(chain)]

\* Mutant of SealReply: the root is read when the answer is put together, after
\* the lock was given back.
SealReplyReadingRoot(c) ==
  /\ srCalls[c].pc = "reply"
  /\ srCalls' = [srCalls EXCEPT ![c].pc = "done", ![c].status = 200,
                                ![c].root = ChainRoot(srChains[srCalls[c].tenant])]
  /\ UNCHANGED srChains

SealReply(c) ==
  /\ srCalls[c].pc = "reply"
  /\ srCalls' = [srCalls EXCEPT ![c].pc = "done", ![c].status = 200]
  /\ UNCHANGED srChains

srInit ==
  /\ srCalls = [c \in Seals |-> [pc |-> "idle", tenant |-> "", case |-> "", link |-> NoLink,
                                 root |-> Genesis, status |-> 0]]
  /\ srChains = [t \in SealTenants |-> <<>>]

srNext ==
  \E c \in Seals :
    \/ \E tenant \in SealTenants, case \in SealCases, link \in SealLinks, outputs \in BOOLEAN :
         SealRequest(c, tenant, case, link, outputs)
    \/ RegistryAppend(c)
    \/ SealReply(c)

srSpec == srInit /\ [][srNext]_srVars

----------------------------------------------------------------------------
\* The root an answer carries is the hash of the entry of its own request, in the
\* chain of its own tenant, and that chain holds every request answered so far and
\* verifies, however requests interleave and whether or not they name a link (seal,
\* ChainRegistry::append): the link is in the payload and chooses no chain.
RootIsOfOwnSeal ==
  \A c \in Seals : srCalls[c].status = 200 =>
    LET chain == srChains[srCalls[c].tenant]
    IN  /\ ChainVerify(chain)
        /\ \E i \in 1..Len(chain) : /\ chain[i].payload = <<c, srCalls[c].case, srCalls[c].link>>
                                    /\ chain[i].hash = srCalls[c].root

-----------------------------------------------------------------------------
(***************************************************************************)
(* The vouch dashboard (crates/tl-frontend): agents append rows to         *)
(* cost-log.csv, a task polls the file and broadcasts what it reads, every *)
(* browser tab replays the file and then follows the broadcast, adding up  *)
(* what it is sent.                                                        *)
(*                                                                         *)
(* The agents that write the log are outside the crate: a row is written   *)
(* in one piece.  The modification time has the grain of the file system's *)
(* clock, so two writes may carry the same one.                            *)
(***************************************************************************)

CONSTANTS
  Tabs,        \* the browser tabs
  CHANNEL,     \* capacity of the broadcast channel (256)
  MaxLines,    \* bound: lines written to the log
  MaxCostClock,    \* bound: ticks of the file system's clock
  MaxFaults,   \* bound: reads of the log that fail
  MaxDrops     \* bound: connections lost

VARIABLES
  cfLog,       \* the lines of cost-log.csv: "row" or "other" (header, blank, broken)
  cfClock,     \* the file system's clock
  cfMtime,     \* when the log was last written; -1: there is no log yet
  cfTail,      \* the tail task: [pc, len, mtime]
  cfSent,      \* every row sent on the broadcast channel, in order
  cfTabs,      \* per tab: [pc, replay, next, since, shown, lagged]
  cfFaults, cfDrops

cfVars == <<cfLog, cfClock, cfMtime, cfTail, cfSent, cfTabs, cfFaults, cfDrops>>

\* A line with all eight fields is a row; every other one is an error.
FromCsvLine(line) == line = "row"

\* The rows of the log: the header, blank and unreadable lines give nothing.
ParseCsv(log) == SelectSeq([i \in 1..Len(log) |-> i], LAMBDA i : FromCsvLine(log[i]))

Shown(tab, row) == tab.shown[row] > 0

----------------------------------------------------------------------------
(* The file.                                                               *)

AgentWrites(line) ==
  /\ Len(cfLog) < MaxLines
  /\ cfLog' = Append(cfLog, line)
  /\ cfMtime' = cfClock
  /\ UNCHANGED <<cfClock, cfTail, cfSent, cfTabs, cfFaults, cfDrops>>

ClockTicks ==
  /\ cfClock < MaxCostClock
  /\ cfClock' = cfClock + 1
  /\ UNCHANGED <<cfLog, cfMtime, cfTail, cfSent, cfTabs, cfFaults, cfDrops>>

----------------------------------------------------------------------------
(* tail_cost_log: the metadata are read, kept, and then the whole file.    *)

\* Mutant of TailPoll: the length is not compared.
TailPollByTime ==
  /\ cfTail.pc = "sleep"
  /\ cfMtime # -1
  /\ cfTail.mtime # cfMtime
  /\ cfTail' = [pc |-> "read", len |-> Len(cfLog), mtime |-> cfMtime]
  /\ UNCHANGED <<cfLog, cfClock, cfMtime, cfSent, cfTabs, cfFaults, cfDrops>>

TailPoll ==
  /\ cfTail.pc = "sleep"
  /\ cfMtime # -1
  /\ cfTail.mtime # cfMtime \/ cfTail.len # Len(cfLog)
  /\ cfTail' = [pc |-> "read", len |-> Len(cfLog), mtime |-> cfMtime]
  /\ UNCHANGED <<cfLog, cfClock, cfMtime, cfSent, cfTabs, cfFaults, cfDrops>>

\* Every row of the file is sent, the ones sent before too.
TailRead ==
  /\ cfTail.pc = "read"
  /\ cfSent' = cfSent \o ParseCsv(cfLog)
  /\ cfTail' = [cfTail EXCEPT !.pc = "sleep"]
  /\ UNCHANGED <<cfLog, cfClock, cfMtime, cfTabs, cfFaults, cfDrops>>

\* The change has been noted and is not looked at again.
TailReadFails ==
  /\ cfTail.pc = "read"
  /\ cfFaults < MaxFaults
  /\ cfFaults' = cfFaults + 1
  /\ cfTail' = [cfTail EXCEPT !.pc = "sleep"]
  /\ UNCHANGED <<cfLog, cfClock, cfMtime, cfSent, cfTabs, cfDrops>>

----------------------------------------------------------------------------
(* sse_handler and the page.                                               *)

\* Step 1 of the handler: the rows there are.
Connect(t) ==
  /\ cfTabs[t].pc = "closed"
  /\ cfTabs' = [cfTabs EXCEPT ![t].pc = "replay", ![t].replay = ParseCsv(cfLog)]
  /\ UNCHANGED <<cfLog, cfClock, cfMtime, cfTail, cfSent, cfFaults, cfDrops>>

\* Step 2: what is sent from now on.
Subscribe(t) ==
  /\ cfTabs[t].pc = "replay"
  /\ cfTabs' = [cfTabs EXCEPT ![t].pc = "live", ![t].next = Len(cfSent) + 1,
                              ![t].since = Len(cfLog), ![t].lagged = FALSE]
  /\ UNCHANGED <<cfLog, cfClock, cfMtime, cfTail, cfSent, cfFaults, cfDrops>>

\* The page's ingest: one more row in the totals.
Ingest(tab, row) == [tab EXCEPT !.shown[row] = @ + 1]

\* The replayed rows come first, then the broadcast; a receiver more than the
\* channel's capacity behind is moved to the oldest row kept (a logged lag).
Deliver(t) ==
  LET tab == cfTabs[t]
      oldest == Len(cfSent) - CHANNEL + 1
  IN  /\ tab.pc = "live"
      /\ \/ /\ tab.replay # <<>>
            /\ cfTabs' = [cfTabs EXCEPT ![t] =
                 [Ingest(tab, Head(tab.replay)) EXCEPT !.replay = Tail(@)]]
         \/ /\ tab.replay = <<>> /\ tab.next < oldest
            /\ cfTabs' = [cfTabs EXCEPT ![t].next = oldest, ![t].lagged = TRUE]
         \/ /\ tab.replay = <<>> /\ tab.next >= oldest /\ tab.next <= Len(cfSent)
            /\ cfTabs' = [cfTabs EXCEPT ![t] =
                 [Ingest(tab, cfSent[tab.next]) EXCEPT !.next = @ + 1]]
      /\ UNCHANGED <<cfLog, cfClock, cfMtime, cfTail, cfSent, cfFaults, cfDrops>>

\* The browser connects again by itself; the page keeps what it has added up.
DropConnection(t) ==
  /\ cfTabs[t].pc = "live"
  /\ cfDrops < MaxDrops
  /\ cfDrops' = cfDrops + 1
  /\ cfTabs' = [cfTabs EXCEPT ![t].pc = "closed", ![t].replay = <<>>]
  /\ UNCHANGED <<cfLog, cfClock, cfMtime, cfTail, cfSent, cfFaults>>

----------------------------------------------------------------------------
cfInit ==
  /\ cfLog = <<>> /\ cfClock = 0 /\ cfMtime = -1
  /\ cfTail = [pc |-> "sleep", len |-> 0, mtime |-> -1]
  /\ cfSent = <<>>
  /\ cfTabs = [t \in Tabs |-> [pc |-> "closed", replay |-> <<>>, next |-> 1, since |-> 0,
                               shown |-> [r \in 1..MaxLines |-> 0], lagged |-> FALSE]]
  /\ cfFaults = 0 /\ cfDrops = 0

cfTailStep == TailPoll \/ TailRead
cfTabStep(t) == Subscribe(t) \/ Deliver(t)

cfNext ==
  \/ \E line \in {"row", "other"} : AgentWrites(line)
  \/ ClockTicks
  \/ cfTailStep \/ TailReadFails
  \/ \E t \in Tabs : Connect(t) \/ cfTabStep(t) \/ DropConnection(t)

cfSpec == cfInit /\ [][cfNext]_cfVars

\* The task and the streams run while the server does; agents, clock, browsers
\* and faults owe nothing.
cfFairness == WF_cfVars(cfTailStep) /\ \A t \in Tabs : WF_cfVars(cfTabStep(t))

----------------------------------------------------------------------------
\* A row an agent writes while a tab follows the log is added up by that tab in
\* the end, even when its write leaves the modification time as it was; only a
\* failed read, a lag or a lost connection excuses it (tail_cost_log, sse_handler).
RowReachesOpenTab ==
  \A t \in Tabs, row \in 1..MaxLines :
    [] (/\ cfTabs[t].pc = "live" /\ row <= Len(cfLog) /\ row > cfTabs[t].since
        /\ cfLog[row] = "row"
        => <> (\/ Shown(cfTabs[t], row)
               \/ cfTabs[t].pc # "live" \/ cfTabs[t].lagged \/ cfFaults > 0))

\* What the task is documented to push, "new rows": as long as no connection is
\* lost a tab counts no row of the log twice, so that its total is what was spent.
TotalIsWhatWasSpent ==
  cfDrops = 0 => \A t \in Tabs, row \in 1..MaxLines : cfTabs[t].shown[row] <= 1
=============================================================================
