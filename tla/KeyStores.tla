------------------------------ MODULE KeyStores -------------------------------
(***************************************************************************)
(* The keys: the store of the evidence ledger with its rotations, and the  *)
(* key files and the registry of the tenants.  The two share no state.     *)
(***************************************************************************)
EXTENDS Integers, SequencesExt, Naturals, FiniteSets

(***************************************************************************)
(* The key store of the evidence ledger: one active key, the keys retired  *)
(* within their grace period, and the log of rotations.  Time is read from *)
(* the wall clock inside each call; signers use the active key.            *)
(***************************************************************************)

CONSTANTS
  KeyIds,
  rotation_interval, grace_period,               \* the policy, in ticks
  Reasons,                                       \* why an operator rotates off schedule
  MaxTime, MaxRotations                          \* bounds

NoKey == "none"

ASSUME KeyIdsAssumption == NoKey \notin KeyIds
ASSUME PolicyAssumption == rotation_interval \in Int /\ grace_period \in Int

VARIABLES
  now,            \* Utc::now()
  active_key_id,
  grace_keys,     \* the retired keys: [id, at], in no order that matters
  rotation_log,   \* sequence of events
  used            \* the times at which each key signed

krVars == <<now, active_key_id, grace_keys, rotation_log, used>>

policy_valid == rotation_interval > 0 /\ grace_period >= 0

LastRotation == Last(rotation_log).at
should_rotate == now - LastRotation >= rotation_interval

Event(old, new, reason) == [old |-> old, new |-> new, at |-> now, reason |-> reason]

\* The old key of the event is the last one of the log, not the active key.
rotate(key, reason) ==
  /\ policy_valid
  /\ grace_keys' = IF active_key_id = NoKey THEN grace_keys
                   ELSE grace_keys \cup {[id |-> active_key_id, at |-> now]}
  /\ active_key_id' = key
  /\ rotation_log' = Append(rotation_log,
       Event(IF rotation_log = <<>> THEN NoKey ELSE Last(rotation_log).new, key, reason))
  /\ UNCHANGED <<now, used>>

activate_initial(key) ==
  IF active_key_id # NoKey THEN rotate(key, "operational")
  ELSE /\ policy_valid
       /\ active_key_id' = key
       /\ rotation_log' = Append(rotation_log, Event(NoKey, key, "initial"))
       /\ UNCHANGED <<now, grace_keys, used>>

\* Mutant of evict_retired_keys: only the key retired last is kept.
evict_all_but_last ==
  {g \in grace_keys : now - g.at < grace_period /\ \A h \in grace_keys : h.at <= g.at}

evict_retired_keys == {g \in grace_keys : now - g.at < grace_period}

\* The answer for a key, by the store as eviction leaves it.
acceptable(key) ==
  CASE active_key_id = key -> "ok"
    [] active_key_id # key /\ \E g \in evict_retired_keys : g.id = key -> "ok"
    [] OTHER -> IF \E i \in DOMAIN rotation_log : rotation_log[i].new = key
                THEN "retired" ELSE "not_found"

verify_key_acceptable(key) ==
  /\ grace_keys' = evict_retired_keys
  /\ UNCHANGED <<now, active_key_id, rotation_log, used>>

krInit ==
  /\ now = 0 /\ active_key_id = NoKey /\ grace_keys = {} /\ rotation_log = <<>>
  /\ used = [k \in KeyIds |-> {}]

\* An operator rotates when the schedule says so, or for another reason.
Rotate ==
  /\ Len(rotation_log) < MaxRotations
  /\ \E k \in KeyIds :
       \/ activate_initial(k)
       \/ rotation_log # <<>> /\ should_rotate /\ rotate(k, "scheduled")
       \/ \E r \in Reasons : rotate(k, r)

Verify == \E k \in KeyIds : verify_key_acceptable(k)

Sign ==
  /\ active_key_id # NoKey
  /\ used' = [used EXCEPT ![active_key_id] = @ \cup {now}]
  /\ UNCHANGED <<now, active_key_id, grace_keys, rotation_log>>

Tick ==
  /\ now < MaxTime
  /\ now' = now + 1
  /\ UNCHANGED <<active_key_id, grace_keys, rotation_log, used>>

krNext == Rotate \/ Verify \/ Sign \/ Tick

krSpec == krInit /\ [][krNext]_krVars

----------------------------------------------------------------------------

\* "In-flight evidence signed with the OLD key must still be verifiable":
\* for a whole grace period after it was signed, through any number of
\* rotations and evictions.
SignedStaysVerifiable ==
  \A k \in KeyIds : \A t \in used[k] :
    now - t < grace_period => acceptable(k) = "ok"

\* The log is the history of the active key: its last event names the key
\* in use and each event starts from the key the one before installed.
LogIsTheHistory ==
  /\ (active_key_id = NoKey) = (rotation_log = <<>>)
  /\ rotation_log # <<>> => Last(rotation_log).new = active_key_id
  /\ \A i \in 2..Len(rotation_log) : rotation_log[i].old = rotation_log[i - 1].new

\* What was signed can be checked: by a key still accepted, of a history
\* without gaps.
SignaturesCanBeChecked == SignedStaysVerifiable /\ LogIsTheHistory

-----------------------------------------------------------------------------
(***************************************************************************)
(* The key file of a tenant (SignerService::new), which several processes  *)
(* may load or create at the same time, and the registry a process shares  *)
(* among its tasks: the keyring's cache and the map of rooms.  Writing the *)
(* file truncates it first; a process may stop between two steps.          *)
(***************************************************************************)

CONSTANTS
  Procs,      \* processes that open a service on the key directory
  KeyTenants,    \* registered tenants
  Others,     \* further ids: SaaS tenants of the signer, strangers to the registry
  Invoices,
  Rooms       \* fresh UUIDs

\* A room is a UUID, which none of the other answers of get_room is.
ASSUME RoomsAssumption ==
  Rooms \cap {"CrossTenantAccess", "UnknownTenant", "none"} = {}

VARIABLES
  file,       \* keys/{tenant}.ed25519: "missing", "short", or a key
  proc,       \* each process: its place in SignerService::new and its key
  fresh,      \* the number of keys generated so far
  derived,    \* the keyring's cache: tenant -> key, for the cached ones
  registry,   \* the registered tenants' keys and the keyring's seed
  rooms       \* (tenant, invoice) -> RoomId

tkVars == <<file, proc, fresh, derived, registry, rooms>>

----------------------------------------------------------------------------
(* Deterministic keys.                                                     *)

Baked == {"stark", "wayne"}
\* The seed in the binary, or HKDF of the baked master seed: any id has one.
derive_saas_seed(t) == <<"hkdf", t>>
for_tenant(t) == IF t \in Baked THEN <<"baked", t>> ELSE derive_saas_seed(t)
\* The keyring derives with HMAC-SHA512 from its own master seed.
load_master_seed_from_env(value) == IF value = "32 bytes" THEN "env" ELSE "dev"
derive_for_tenant(seed, t) == <<"hmac", seed, t>>

\* The registered tenants carry the public keys of the baked signers.
with_default_tenants == [t \in KeyTenants |-> for_tenant(t)]

----------------------------------------------------------------------------
(* The key file.                                                           *)

At(p, pc) == proc[p].pc = pc
Goto(p, pc) == proc' = [proc EXCEPT ![p].pc = pc]
Generated(n) == <<"random", n>>

\* create_dir_all, then exists()
Look(p) ==
  /\ At(p, "start")
  /\ Goto(p, IF file = <<"missing">> THEN "generate" ELSE "read")
  /\ UNCHANGED <<file, fresh, derived, registry, rooms>>

Read(p) ==
  /\ At(p, "read")
  /\ proc' = [proc EXCEPT ![p] =
       IF file = <<"short">> THEN [pc |-> "InvalidKeyLength", key |-> <<>>]
                             ELSE [pc |-> "open", key |-> file]]
  /\ UNCHANGED <<file, fresh, derived, registry, rooms>>

Generate(p) ==
  /\ At(p, "generate")
  /\ fresh' = fresh + 1
  /\ proc' = [proc EXCEPT ![p] = [pc |-> "truncate", key |-> Generated(fresh)]]
  /\ UNCHANGED <<file, derived, registry, rooms>>

\* fs::write in two steps, then the permissions.
Truncate(p) ==
  /\ At(p, "truncate") /\ Goto(p, "write")
  /\ file' = <<"short">>
  /\ UNCHANGED <<fresh, derived, registry, rooms>>

Write(p) ==
  /\ At(p, "write") /\ Goto(p, "open")
  /\ file' = proc[p].key
  /\ UNCHANGED <<fresh, derived, registry, rooms>>

\* An error of the file system anywhere before the end, or the process stops.
Fail(p) ==
  /\ proc[p].pc \notin {"open", "InvalidKeyLength", "stopped"}
  /\ proc' = [proc EXCEPT ![p] = [pc |-> "stopped", key |-> <<>>]]
  /\ UNCHANGED <<file, fresh, derived, registry, rooms>>

----------------------------------------------------------------------------
(* The registry.                                                           *)

Registered == DOMAIN registry.tenants

\* with_default_tenants, once at start: without a usable THEMIS_MASTER_SEED
\* the keyring derives from the seed in the binary.
StartRegistry(value) ==
  /\ registry.seed = "unset"
  /\ registry' = [seed |-> load_master_seed_from_env(value), tenants |-> with_default_tenants]
  /\ UNCHANGED <<file, proc, fresh, derived, rooms>>

\* The cache is filled under its lock; the key never depends on it.
get_or_derive(t) ==
  /\ registry.seed # "unset" /\ t \notin DOMAIN derived
  /\ derived' = [x \in DOMAIN derived \cup {t} |->
                   IF x = t THEN derive_for_tenant(registry.seed, t) ELSE derived[x]]
  /\ UNCHANGED <<file, proc, fresh, registry, rooms>>

evict(t) ==
  /\ t \in DOMAIN derived
  /\ derived' = [x \in DOMAIN derived \ {t} |-> derived[x]]
  /\ UNCHANGED <<file, proc, fresh, registry, rooms>>

\* entry().or_insert_with: the room of the pair, made on the first call.
open_room(t, i) ==
  /\ t \in Registered
  /\ <<t, i>> \notin DOMAIN rooms
  /\ \E r \in Rooms \ {rooms[x] : x \in DOMAIN rooms} :
       rooms' = [x \in DOMAIN rooms \cup {<<t, i>>} |->
                   IF x = <<t, i>> THEN r ELSE rooms[x]]
  /\ UNCHANGED <<file, proc, fresh, derived, registry>>

get_room(asking, t, i) ==
  IF asking # t THEN "CrossTenantAccess"
  ELSE IF t \notin Registered THEN "UnknownTenant"
  ELSE IF <<t, i>> \in DOMAIN rooms THEN rooms[<<t, i>>] ELSE "none"

tkInit ==
  /\ file = <<"missing">>
  /\ proc = [p \in Procs |-> [pc |-> "start", key |-> <<>>]]
  /\ fresh = 0
  /\ derived = << >> /\ rooms = << >>
  /\ registry = [seed |-> "unset", tenants |-> << >>]

tkNext ==
  \/ \E value \in {"32 bytes", "unusable"} : StartRegistry(value)
  \/ \E p \in Procs : Look(p) \/ Read(p) \/ Generate(p) \/ Truncate(p) \/ Write(p) \/ Fail(p)
  \/ \E t \in KeyTenants \cup Others : get_or_derive(t) \/ evict(t)
  \/ \E t \in KeyTenants \cup Others, i \in Invoices : open_room(t, i)

tkSpec == tkInit /\ [][tkNext]_tkVars

----------------------------------------------------------------------------

\* No service signs with a half-written key: whichever processes load, create,
\* fail or stop at the same time, an open one holds a whole key that one of
\* them drew (SignerService::new).
NoServiceOnATornKey ==
  \A p \in Procs : At(p, "open") => \E n \in 0..(fresh - 1) : proc[p].key = Generated(n)

\* A tenant never learns the room of another, and two invoices never share
\* one.
RoomsAreApart ==
  /\ \A x, y \in DOMAIN rooms : rooms[x] = rooms[y] => x = y
  /\ \A t, u \in KeyTenants, i \in Invoices :
       t # u => get_room(t, u, i) \notin {rooms[x] : x \in DOMAIN rooms}

\* Tenants are kept apart: by whole keys of their own, and by rooms of their own.
TenantsAreApart == NoServiceOnATornKey /\ RoomsAreApart
=============================================================================
