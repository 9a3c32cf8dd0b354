------------------------------- MODULE Evidence -------------------------------
(***************************************************************************)
(* The evidence of the tenants: the hash chain, the service that seals     *)
(* packets on chains in memory, and the store that keeps a chain in a file. *)
(* The service and the store share no state.                               *)
(***************************************************************************)
EXTENDS Integers, Sequences, FiniteSets

(***************************************************************************)
(* The hash chain of themis-evidence (crates/themis-evidence/src/chain.rs) *)
(* as operators on sequences of entries.  BLAKE3 is taken as free of       *)
(* collisions: the hash of (sequence, prev_hash, payload) is that triple,  *)
(* and the all-zero placeholder is the empty tuple.                        *)
(***************************************************************************)

Zeros == <<>>

\* compute_entry_hash
EntryHash(sequence, prev_hash, payload) == <<sequence, prev_hash, payload>>

\* The hash that the entry after chain must carry as its prev_hash.
LatestHash(hc) ==
    IF hc = <<>> THEN Zeros ELSE hc[Len(hc)].blake3_hash

\* HashChain::append_with_timestamp
AppendEntry(hc, payload, now) ==
    Append(hc,
           [sequence    |-> Len(hc),
            payload     |-> payload,
            prev_hash   |-> LatestHash(hc),
            blake3_hash |-> EntryHash(Len(hc), LatestHash(hc), payload),
            created_at  |-> now])

\* HashChain::enforce_retention: only the age of the latest entry counts.
WithinRetention(hc, window, now) ==
    hc # <<>> => now - hc[Len(hc)].created_at <= window

\* HashChain::verify: what it demands of one entry, given the hash of the
\* entry before it.  The loop stops at the first entry that fails.
EntryVerifies(e, running) ==
    /\ e.sequence = 0 => e.prev_hash = running
    /\ e.sequence > 0 => e.prev_hash # Zeros
    /\ e.blake3_hash = EntryHash(e.sequence, e.prev_hash, e.payload)

Verify(hc) ==
    \A i \in 1..Len(hc) :
        EntryVerifies(hc[i], LatestHash(SubSeq(hc, 1, i - 1)))

\* What a chain built by AppendEntry alone looks like: numbered from 0, each
\* entry hashed and carrying the hash of the one before it.
Linked(hc) ==
    \A i \in 1..Len(hc) :
        /\ hc[i].sequence = i - 1
        /\ hc[i].prev_hash = IF i = 1 THEN Zeros
                                ELSE hc[i - 1].blake3_hash
        /\ hc[i].blake3_hash = EntryHash(hc[i].sequence,
                                            hc[i].prev_hash,
                                            hc[i].payload)

Payloads(hc) == [i \in 1..Len(hc) |-> hc[i].payload]

-----------------------------------------------------------------------------
(***************************************************************************)
(* Sealing: EvidenceSealing::seal of the orchestrator                      *)
(* (crates/themis-orchestrator/src/evidence_sealing.rs) around             *)
(* EvidenceService::seal and ::verify                                      *)
(* (crates/themis-evidence/src/packet.rs).                                 *)
(*                                                                         *)
(* One tokio mutex guards the services of all tenants and is held over the *)
(* call to the time-stamp authority.  A call can be dropped at either of   *)
(* its awaits, when the HTTP client goes away.  The chains live in memory: *)
(* the binary builds the services anew at every start.                     *)
(***************************************************************************)

CONSTANTS
    Calls,      \* calls of seal
    Tenants,    \* tenants with an evidence service
    Strangers,  \* tenants without one
    Window,     \* RetentionPolicy::effective_months, in ticks of the clock
    MaxClock,   \* bound on the clock
    MaxStarts   \* bound on restarts of the process

ASSUME WindowAssumption == Window \in Nat
ASSUME BoundsAssumption == MaxClock \in Nat /\ MaxStarts \in Nat
ASSUME TenantsAssumption == Tenants \cap Strangers = {}
ASSUME CallsAssumption == IsFiniteSet(Calls)

VARIABLES
    chain,      \* EvidenceService::chain of every tenant
    queue,      \* the mutex: its holder, then the waiters in order
    pc, tenant,
    stamp,      \* what the authority answered the call with
    issued,     \* sealed packets handed out, over all lives of the process
    clock, life

esVars == <<chain, queue, pc, tenant, stamp, issued, clock, life>>

Points == {"idle", "waiting", "stamping", "sealed", "failed", "dropped"}

\* A token over the packet's hash; a well-formed reply without one; no reply.
Stamps == {"token", "rejection", "error"}

\* Every variable keeps its type.
esTypeOK ==
    /\ \A t \in Tenants : Len(chain[t]) <= Cardinality(Calls)
    /\ queue \in Seq(Calls)
    /\ pc \in [Calls -> Points]
    /\ tenant \in [Calls -> Tenants \cup Strangers \cup {"none"}]
    /\ stamp \in [Calls -> Stamps \cup {"none"}]
    /\ issued \subseteq [call : Calls, tenant : Tenants, chain_length : Nat,
                         life : 0..MaxStarts]
    /\ clock \in 0..MaxClock
    /\ life \in 0..MaxStarts

esInit ==
    /\ chain = [t \in Tenants |-> <<>>]
    /\ queue = <<>>
    /\ pc = [c \in Calls |-> "idle"]
    /\ tenant = [c \in Calls |-> "none"]
    /\ stamp = [c \in Calls |-> "none"]
    /\ issued = {}
    /\ clock = 0
    /\ life = 0
-----------------------------------------------------------------------------
Holds(c) == queue # <<>> /\ Head(queue) = c

\* The tenant has a service, and its chain is not past retention.
Sealable(c) ==
    /\ tenant[c] \in Tenants
    /\ WithinRetention(chain[tenant[c]], Window, clock)

Goto(c, p) == pc' = [pc EXCEPT ![c] = p]

\* The queue of the mutex when the guard or the pending acquisition of call c
\* has been dropped.
Without(q, c) ==
    IF \A i \in 1..Len(q) : q[i] # c THEN q
    ELSE LET k == CHOOSE i \in 1..Len(q) : q[i] = c IN
         [i \in 1..(Len(q) - 1) |-> IF i < k THEN q[i] ELSE q[i + 1]]

\* The packet is serialised and the mutex is asked for.
Ask(c, t) ==
    /\ pc[c] = "idle"
    /\ tenant' = [tenant EXCEPT ![c] = t]
    /\ queue' = Append(queue, c)
    /\ Goto(c, "waiting")
    /\ UNCHANGED <<chain, stamp, issued, clock, life>>

\* A mutant of Chain: the mutex is given back before the authority is asked.
ChainWithoutLock(c) ==
    /\ pc[c] = "waiting"
    /\ Holds(c)
    /\ Sealable(c)
    /\ chain' = [chain EXCEPT ![tenant[c]] = AppendEntry(@, c, clock)]
    /\ queue' = Tail(queue)
    /\ Goto(c, "stamping")
    /\ UNCHANGED <<tenant, stamp, issued, clock, life>>

\* The call has the mutex: it hashes and signs, checks retention and appends
\* to the chain, then asks the authority for a time stamp.  The clock readings
\* of the check and of the entry are taken as one.
Chain(c) ==
    /\ pc[c] = "waiting"
    /\ Holds(c)
    /\ Sealable(c)
    /\ chain' = [chain EXCEPT ![tenant[c]] = AppendEntry(@, c, clock)]
    /\ Goto(c, "stamping")
    /\ UNCHANGED <<queue, tenant, stamp, issued, clock, life>>

\* A mutant of Refuse: the mutex is kept on the way out.
RefuseKeepingLock(c) ==
    /\ pc[c] = "waiting"
    /\ Holds(c)
    /\ ~Sealable(c)
    /\ Goto(c, "failed")
    /\ UNCHANGED <<chain, queue, tenant, stamp, issued, clock, life>>

\* There is no service for the tenant, or retention is exceeded.
Refuse(c) ==
    /\ pc[c] = "waiting"
    /\ Holds(c)
    /\ ~Sealable(c)
    /\ queue' = Tail(queue)
    /\ Goto(c, "failed")
    /\ UNCHANGED <<chain, tenant, stamp, issued, clock, life>>

\* What a caller is given: chain_length is the length of the chain now.
Packet(c) ==
    [call |-> c, tenant |-> tenant[c],
     chain_length |-> Len(chain[tenant[c]]), life |-> life]

\* The authority has answered, within the ten seconds the HTTP client gives
\* it.  Any reply with a body passes FreeTSAAuthority::verify.  On an error
\* the entry stays in the chain and the caller gets no packet.
Stamped(c) ==
    /\ pc[c] = "stamping"
    /\ \E s \in Stamps :
          /\ stamp' = [stamp EXCEPT ![c] = s]
          /\ IF s = "error"
             THEN Goto(c, "failed") /\ UNCHANGED issued
             ELSE Goto(c, "sealed") /\ issued' = issued \cup {Packet(c)}
    /\ queue' = Without(queue, c)
    /\ UNCHANGED <<chain, tenant, clock, life>>

\* The caller goes away while the call waits for the mutex or the authority.
Drop(c) ==
    /\ pc[c] \in {"waiting", "stamping"}
    /\ queue' = Without(queue, c)
    /\ Goto(c, "dropped")
    /\ UNCHANGED <<chain, tenant, stamp, issued, clock, life>>

Tick ==
    /\ clock < MaxClock
    /\ clock' = clock + 1
    /\ UNCHANGED <<chain, queue, pc, tenant, stamp, issued, life>>

\* The process stops and is started again, with empty chains.
Restart ==
    /\ life < MaxStarts
    /\ life' = life + 1
    /\ chain' = [t \in Tenants |-> <<>>]
    /\ queue' = <<>>
    /\ pc' = [c \in Calls |-> IF pc[c] \in {"waiting", "stamping"}
                              THEN "dropped" ELSE pc[c]]
    /\ UNCHANGED <<tenant, stamp, issued, clock>>

CallStep(c) == Chain(c) \/ Refuse(c) \/ Stamped(c)

esNext ==
    \/ \E c \in Calls : \/ \E t \in Tenants \cup Strangers : Ask(c, t)
                        \/ CallStep(c) \/ Drop(c)
    \/ Tick \/ Restart

esSpec == esInit /\ [][esNext]_esVars

\* The runtime polls the task that the mutex, which is first come first
\* served, has been handed to; the authority answers or times out.
esFairness == \A c \in Calls : WF_esVars(CallStep(c))
-----------------------------------------------------------------------------
\* EvidenceService::verify of a packet by the running service of its tenant:
\* hash and signature are those of the packet, so the chain decides.
Verifies(p) == Verify(chain[p.tenant])

\* Every chain the service holds is one that append built, so every packet
\* of every life verifies, before, after and between appends.
ChainsAreLinked ==
    /\ \A t \in Tenants : Linked(chain[t])
    /\ \A p \in issued : Verifies(p)

\* A packet's chain_length is the place of its own entry: no other call slips
\* in between while the time-stamp authority is asked.
PacketsNameTheirEntry ==
    \A p \in issued : p.life = life =>
        /\ p.chain_length \in 1..Len(chain[p.tenant])
        /\ chain[p.tenant][p.chain_length].payload = p.call

\* While the process runs a chain only grows, at its end.
ChainsGrow ==
    life' = life => \A t \in Tenants :
        /\ Len(chain'[t]) >= Len(chain[t])
        /\ SubSeq(chain'[t], 1, Len(chain[t])) = chain[t]

\* No call waits for ever on the mutex of all tenants, whatever becomes of
\* the calls before it.
EveryCallEnds ==
    \A c \in Calls : pc[c] = "waiting" ~> pc[c] \in {"sealed", "failed", "dropped"}
-----------------------------------------------------------------------------
(***************************************************************************)
(* ChainStore (crates/themis-evidence/src/persistence.rs): the chain of    *)
(* one tenant in memory and in its file, across failing writes, deaths of  *)
(* the process and damage done to the file while no process has it open.   *)
(*                                                                         *)
(* A write of the file system that is not atomic is two steps, so that a   *)
(* death may leave half a file; a rename is one.  A death is the death of  *)
(* the process, not of the machine: what was written stays written.        *)
(***************************************************************************)

CONSTANTS
    Texts,  \* what callers append
    MaxAppends, \* bound: appends of all processes together
    MaxDeaths,  \* bound: deaths of the process
    Damages     \* kinds of damage a file may take: "edit", "drop", "swap"

ASSUME AppendsAssumption == MaxAppends \in Nat /\ MaxDeaths \in Nat
ASSUME DamagesAssumption == Damages \subseteq {"edit", "drop", "swap"}

VARIABLES
    file,       \* the tenant's file: "absent", "torn" or "chain"
    stored,     \* the chain in the file, when it holds one
    tmp,        \* the temporary file: what the last append serialised
    memory,     \* ChainStore::chain
    csPc,         \* where the process is in open or append
    acked,      \* payloads whose append returned Ok, in order
    refused,    \* the result of the last open that failed
    appends, deaths, damaged

csVars == <<file, stored, tmp, memory, csPc, acked, refused, appends, deaths,
          damaged>>

csPoints == {"down", "creating", "ready", "writing", "renaming"}

\* Every variable keeps its type.
csTypeOK ==
    /\ file \in {"absent", "torn", "chain"}
    /\ csPc \in csPoints
    /\ \A c \in {stored, tmp, memory} : Len(c) <= MaxAppends
    /\ acked \in Seq(Texts)
    /\ refused \in {"none", "Parse", "Verify"}
    /\ appends \in 0..MaxAppends
    /\ deaths \in 0..MaxDeaths
    /\ damaged \in BOOLEAN

csInit ==
    /\ file = "absent"
    /\ stored = <<>> /\ tmp = <<>> /\ memory = <<>>
    /\ csPc = "down"
    /\ acked = <<>>
    /\ refused = "none"
    /\ appends = 0 /\ deaths = 0
    /\ damaged = FALSE
-----------------------------------------------------------------------------
\* open, the file exists: it is read, parsed and verified.
OpenLoad ==
    /\ csPc = "down"
    /\ file = "chain"
    /\ Verify(stored)
    /\ memory' = stored
    /\ csPc' = "ready"
    /\ UNCHANGED <<file, stored, tmp, acked, refused, appends, deaths,
                   damaged>>

OpenRefused ==
    /\ csPc = "down"
    /\ \/ file = "torn" /\ refused' = "Parse"
       \/ file = "chain" /\ ~Verify(stored) /\ refused' = "Verify"
    /\ UNCHANGED <<file, stored, tmp, memory, csPc, acked, appends, deaths,
                   damaged>>

\* open, the file does not exist: an empty chain is written in place, not
\* through the temporary file.
OpenCreate ==
    /\ csPc = "down"
    /\ file = "absent"
    /\ file' = "torn"
    /\ csPc' = "creating"
    /\ UNCHANGED <<stored, tmp, memory, acked, refused, appends, deaths,
                   damaged>>

OpenCreated ==
    /\ csPc = "creating"
    /\ \/ file' = "chain" /\ stored' = <<>> /\ memory' = <<>> /\ csPc' = "ready"
       \/ csPc' = "down" /\ UNCHANGED <<file, stored, memory>> \* Io
    /\ UNCHANGED <<tmp, acked, refused, appends, deaths, damaged>>

\* append: the chain in memory first.
AppendInMemory(payload) ==
    /\ csPc = "ready"
    /\ appends < MaxAppends
    /\ appends' = appends + 1
    /\ memory' = AppendEntry(memory, payload, 0)
    /\ csPc' = "writing"
    /\ UNCHANGED <<file, stored, tmp, acked, refused, deaths, damaged>>

\* A mutant of WriteTemp: the chain file itself is written, in place.
WriteTempInPlace ==
    /\ csPc = "writing"
    /\ \/ file' = "chain" /\ tmp' = memory /\ stored' = memory /\ csPc' = "renaming"
       \/ file' = "torn" /\ csPc' = "ready" /\ UNCHANGED <<tmp, stored>>
    /\ UNCHANGED <<memory, acked, refused, appends, deaths, damaged>>

\* append: the temporary file is written, or the write fails.
WriteTemp ==
    /\ csPc = "writing"
    /\ \/ tmp' = memory /\ csPc' = "renaming"
       \/ csPc' = "ready" /\ UNCHANGED tmp
    /\ UNCHANGED <<file, stored, memory, acked, refused, appends, deaths,
                   damaged>>

\* A mutant of Rename: the append is acknowledged when the rename fails.
RenameUnchecked ==
    /\ csPc = "renaming"
    /\ stored' \in {tmp, stored}
    /\ acked' = Append(acked, tmp[Len(tmp)].payload)
    /\ csPc' = "ready"
    /\ UNCHANGED <<file, tmp, memory, refused, appends, deaths, damaged>>

\* append: the rename publishes the temporary file and the append returns Ok,
\* or it fails and returns the error.
Rename ==
    /\ csPc = "renaming"
    /\ \/ stored' = tmp /\ acked' = Append(acked, tmp[Len(tmp)].payload)
       \/ UNCHANGED <<stored, acked>>
    /\ csPc' = "ready"
    /\ UNCHANGED <<file, tmp, memory, refused, appends, deaths, damaged>>

\* The process dies, wherever it is; memory is gone.
Die ==
    /\ csPc # "down"
    /\ deaths < MaxDeaths
    /\ deaths' = deaths + 1
    /\ csPc' = "down"
    /\ memory' = <<>>
    /\ UNCHANGED <<file, stored, tmp, acked, refused, appends, damaged>>
-----------------------------------------------------------------------------
\* The forms of chain after one payload has been altered, one entry lost, or
\* two entries swapped; the other fields stay as they were.
Damaged(hc, kind) ==
    CASE kind = "edit" -> {[hc EXCEPT ![i].payload = p] :
                               i \in DOMAIN hc, p \in Texts}
      [] kind = "drop" -> {[j \in 1..(Len(hc) - 1) |->
                               IF j < i THEN hc[j] ELSE hc[j + 1]] :
                               i \in DOMAIN hc}
      [] kind = "swap" -> {[hc EXCEPT ![i] = hc[j], ![j] = hc[i]] :
                               i, j \in DOMAIN hc}

\* The file is damaged, once, while no process has it open.
Damage ==
    /\ csPc = "down" /\ file = "chain" /\ ~damaged
    /\ stored' \in (UNION {Damaged(stored, kind) : kind \in Damages}) \ {stored}
    /\ damaged' = TRUE
    /\ UNCHANGED <<file, tmp, memory, csPc, acked, refused, appends, deaths>>

csNext ==
    \/ OpenLoad \/ OpenRefused \/ OpenCreate \/ OpenCreated
    \/ \E p \in Texts : AppendInMemory(p)
    \/ WriteTemp \/ Rename \/ Die \/ Damage

csSpec == csInit /\ [][csNext]_csVars
-----------------------------------------------------------------------------
IsPrefixOf(s, t) ==
    Len(s) <= Len(t) /\ \A i \in 1..Len(s) : s[i] = t[i]

\* s is a subsequence of t.
Embeds(s, t) ==
    \E f \in [1..Len(s) -> 1..Len(t)] :
        /\ \A i \in 1..Len(s) : s[i] = t[f[i]]
        /\ \A i, j \in 1..Len(s) : i < j => f[i] < f[j]

\* Nothing that append acknowledged is lost by a death of the process, or
\* overtaken: the acknowledged payloads are in the file, in that order.
AcknowledgedIsStored ==
    ~damaged => Embeds(acked, Payloads(stored))

\* What open hands out is a chain that append built: every number and every
\* link is right, whatever the file has been through.
OpenChainIsLinked == csPc # "down" => Linked(memory)

\* While the store is open the file is behind memory, never beside it: no
\* error or retry makes the two disagree about an entry.
FileIsBehindMemory ==
    csPc \in {"ready", "writing", "renaming"} /\ file = "chain" =>
        IsPrefixOf(stored, memory)

\* A file that once held a chain never turns unreadable, at whichever point
\* of an append the process dies or a write fails.
FileStaysWhole == file = "chain" => file' = "chain"
=============================================================================
