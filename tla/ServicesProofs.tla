---------------------------- MODULE ServicesProofs ----------------------------
(***************************************************************************)
(* Proofs about the keys, the tenants, the transparency log, the rooms and *)
(* sockets of Band and the time-stamping services, for any keys,           *)
(* processes, tenants, rooms, calls, handles, runs, services and bounds:   *)
(* KeyStores, Witnesses and Band, half by half, then in the composition of *)
(* MCServices.                                                             *)
(***************************************************************************)
EXTENDS MCServices, SequenceTheorems, NaturalsInduction, WellFoundedInduction, TLAPS

-----------------------------------------------------------------------------
(* KeyRotation                                                             *)

KeyEvents ==
  [old : KeyIds \cup {NoKey}, new : KeyIds, at : Nat,
   reason : Reasons \cup {"operational", "initial", "scheduled"}]

krTypeOK ==
  /\ now \in Nat
  /\ active_key_id \in KeyIds \cup {NoKey}
  /\ grace_keys \subseteq [id : KeyIds, at : Nat]
  /\ rotation_log \in Seq(KeyEvents)
  /\ used \in [KeyIds -> SUBSET Nat]

\* A key that signed less than a grace period ago is the active one, or was
\* retired no earlier than it signed.  That is what eviction goes by: it keeps
\* a key for a grace period after its retirement, not after its signature.
SignersAreHeld ==
  \A k \in KeyIds : \A t \in used[k] :
    /\ t <= now
    /\ now - t < grace_period =>
         \/ active_key_id = k
         \/ \E g \in grace_keys : g.id = k /\ t <= g.at

krInv == krTypeOK /\ LogIsTheHistory /\ SignersAreHeld

\* The key store starts in its invariant.
LEMMA RotationStarts == krInit => krInv
<1> SUFFICES ASSUME krInit PROVE krInv
  OBVIOUS
<1>1. krTypeOK
  BY DEF krInit, krTypeOK
<1>2. LogIsTheHistory
  BY DEF krInit, LogIsTheHistory
<1>3. SignersAreHeld
  BY DEF krInit, SignersAreHeld
<1> QED
  BY <1>1, <1>2, <1>3 DEF krInv

\* The log of rotations goes on from the key in use.
LEMMA LogGrows ==
  ASSUME krInv, NEW key \in KeyIds, NEW e \in KeyEvents, e.new = key,
         e.old = IF rotation_log = <<>> THEN NoKey ELSE Last(rotation_log).new,
         rotation_log' = Append(rotation_log, e), active_key_id' = key
  PROVE  rotation_log' \in Seq(KeyEvents) /\ LogIsTheHistory'
<1> DEFINE n == Len(rotation_log)
<1>1. rotation_log \in Seq(KeyEvents) /\ n \in Nat
  BY LenProperties DEF krInv, krTypeOK
<1>2. /\ rotation_log' \in Seq(KeyEvents) /\ Len(rotation_log') = n + 1
      /\ \A i \in 1..n : rotation_log'[i] = rotation_log[i]
      /\ rotation_log'[n + 1] = e
  BY <1>1, AppendProperties
<1>3. rotation_log' # <<>> /\ Last(rotation_log') = e
  BY <1>1, <1>2 DEF Last
<1>4. active_key_id' # NoKey
  BY KeyIdsAssumption
<1>5. ASSUME NEW i \in 2..Len(rotation_log')
      PROVE  rotation_log'[i].old = rotation_log'[i - 1].new
  <2>1. CASE i \in 2..n
    <3>1. i \in 1..n /\ i - 1 \in 1..n
      BY <1>1, <2>1
    <3>2. rotation_log[i].old = rotation_log[i - 1].new
      BY <2>1 DEF krInv, LogIsTheHistory
    <3> QED
      BY <1>2, <3>1, <3>2
  <2>2. CASE i = n + 1
    <3>1. n \in 1..n /\ rotation_log # <<>> /\ i - 1 = n
      BY <1>1, <1>2, <2>2
    <3>2. e.old = rotation_log[n].new
      BY <3>1 DEF Last
    <3> QED
      BY <1>2, <2>2, <3>1, <3>2
  <2> QED
    BY <1>1, <1>2, <2>1, <2>2
<1> QED
  BY <1>2, <1>3, <1>4, <1>5 DEF LogIsTheHistory

\* rotate keeps the invariant: the key that was active is retired now, after
\* all it signed.
LEMMA RotateKeeps ==
  ASSUME krInv, NEW key \in KeyIds,
         NEW reason \in Reasons \cup {"operational", "initial", "scheduled"},
         rotate(key, reason)
  PROVE  krInv'
<1> DEFINE e == Event(IF rotation_log = <<>> THEN NoKey ELSE Last(rotation_log).new,
                      key, reason)
<1>1. rotation_log' = Append(rotation_log, e) /\ active_key_id' = key
  BY DEF rotate
<1>2. e \in KeyEvents /\ e.new = key
      /\ e.old = IF rotation_log = <<>> THEN NoKey ELSE Last(rotation_log).new
  <2>1. rotation_log # <<>> => Last(rotation_log).new \in KeyIds
    <3> SUFFICES ASSUME rotation_log # <<>> PROVE Last(rotation_log) \in KeyEvents
      BY DEF KeyEvents
    <3>1. rotation_log \in Seq(KeyEvents) /\ Len(rotation_log) \in 1..Len(rotation_log)
      BY EmptySeq, LenProperties DEF krInv, krTypeOK
    <3> QED
      BY <3>1, ElementOfSeq DEF Last
  <2>2. now \in Nat
    BY DEF krInv, krTypeOK
  <2> QED
    BY <2>1, <2>2 DEF Event, KeyEvents
<1> HIDE DEF e
<1>3. rotation_log' \in Seq(KeyEvents) /\ LogIsTheHistory'
  BY <1>1, <1>2, LogGrows
<1>4. krTypeOK'
  BY <1>1, <1>3 DEF krInv, krTypeOK, rotate
<1>5. SignersAreHeld'
  <2> SUFFICES ASSUME NEW k \in KeyIds, NEW t \in used[k], now - t < grace_period
               PROVE  \/ active_key_id' = k
                      \/ \E g \in grace_keys' : g.id = k /\ t <= g.at
    BY DEF SignersAreHeld, krInv, rotate
  <2>1. CASE active_key_id = k
    <3>1. k # NoKey
      BY KeyIdsAssumption
    <3>2. [id |-> k, at |-> now] \in grace_keys'
      BY <2>1, <3>1 DEF rotate
    <3>3. t <= now
      BY DEF krInv, SignersAreHeld
    <3> QED
      BY <3>2, <3>3
  <2>2. CASE active_key_id # k
    <3>1. PICK g \in grace_keys : g.id = k /\ t <= g.at
      BY <2>2 DEF krInv, SignersAreHeld
    <3>2. g \in grace_keys'
      BY DEF rotate
    <3> QED
      BY <3>1, <3>2
  <2> QED
    BY <2>1, <2>2
<1> QED
  BY <1>3, <1>4, <1>5 DEF krInv

\* Every step of the key store keeps its invariant.
LEMMA RotationSteps == krInv /\ [krNext]_krVars => krInv'
<1> SUFFICES ASSUME krInv, [krNext]_krVars PROVE krInv'
  OBVIOUS
<1>1. ASSUME NEW key \in KeyIds, activate_initial(key) PROVE krInv'
  <2>1. CASE active_key_id # NoKey
    BY <1>1, <2>1, RotateKeeps DEF activate_initial
  <2>2. CASE active_key_id = NoKey
    <3> DEFINE e == Event(NoKey, key, "initial")
    <3>1. /\ rotation_log' = Append(rotation_log, e) /\ active_key_id' = key
          /\ UNCHANGED <<now, grace_keys, used>>
      BY <1>1, <2>2 DEF activate_initial
    <3>2. rotation_log = <<>>
      BY <2>2 DEF krInv, LogIsTheHistory
    <3>3. e \in KeyEvents /\ e.new = key /\ e.old = NoKey
      BY DEF krInv, krTypeOK, Event, KeyEvents
    <3> HIDE DEF e
    <3>4. rotation_log' \in Seq(KeyEvents) /\ LogIsTheHistory'
      BY <1>1, <3>1, <3>2, <3>3, LogGrows
    <3>5. krTypeOK'
      BY <1>1, <3>1, <3>4 DEF krInv, krTypeOK
    <3>6. SignersAreHeld'
      BY <2>2, <3>1, KeyIdsAssumption DEF krInv, SignersAreHeld
    <3> QED
      BY <3>4, <3>5, <3>6 DEF krInv
  <2> QED
    BY <2>1, <2>2
<1>2. CASE Rotate
  BY <1>1, <1>2, RotateKeeps DEF Rotate
<1>3. CASE Verify
  <2>1. /\ grace_keys' = {g \in grace_keys : now - g.at < grace_period}
        /\ UNCHANGED <<now, active_key_id, rotation_log, used>>
    BY <1>3 DEF Verify, verify_key_acceptable, evict_retired_keys
  <2>2. SignersAreHeld'
    <3> SUFFICES ASSUME NEW k \in KeyIds, NEW t \in used[k], now - t < grace_period,
                        active_key_id # k
                 PROVE  \E g \in grace_keys' : g.id = k /\ t <= g.at
      BY <2>1 DEF SignersAreHeld, krInv
    <3>1. PICK g \in grace_keys : g.id = k /\ t <= g.at
      BY DEF krInv, SignersAreHeld
    <3>2. now \in Nat /\ t \in Nat /\ g.at \in Nat
      BY DEF krInv, krTypeOK
    <3>3. now - g.at < grace_period
      BY <3>1, <3>2, PolicyAssumption
    <3> QED
      BY <2>1, <3>1, <3>3
  <2> QED
    BY <2>1, <2>2 DEF krInv, krTypeOK, LogIsTheHistory
<1>4. CASE Sign
  <2>1. /\ used' = [used EXCEPT ![active_key_id] = @ \cup {now}]
        /\ active_key_id \in KeyIds
        /\ now' = now /\ active_key_id' = active_key_id
        /\ grace_keys' = grace_keys /\ rotation_log' = rotation_log
    BY <1>4 DEF Sign, krInv, krTypeOK
  <2>2. krTypeOK'
    BY <2>1 DEF krInv, krTypeOK
  <2>3. SignersAreHeld'
    <3>1. ASSUME NEW k \in KeyIds, NEW t \in used'[k]
          PROVE  /\ t <= now
                 /\ now - t < grace_period =>
                      \/ active_key_id = k
                      \/ \E g \in grace_keys : g.id = k /\ t <= g.at
      <4>1. CASE t \in used[k]
        BY <4>1 DEF krInv, SignersAreHeld
      <4>2. CASE t \notin used[k]
        BY <2>1, <4>2 DEF krInv, krTypeOK
      <4> QED
        BY <4>1, <4>2
    <3> QED
      BY ONLY <2>1, <3>1, Zenon DEF SignersAreHeld
  <2> QED
    BY <2>1, <2>2, <2>3 DEF krInv, LogIsTheHistory
<1>5. CASE Tick
  <2>1. /\ now' = now + 1 /\ active_key_id' = active_key_id
        /\ grace_keys' = grace_keys /\ rotation_log' = rotation_log /\ used' = used
    BY <1>5 DEF Tick
  <2>2. SignersAreHeld'
    <3>1. ASSUME NEW k \in KeyIds, NEW t \in used[k]
          PROVE  /\ t <= now'
                 /\ now' - t < grace_period =>
                      \/ active_key_id = k
                      \/ \E g \in grace_keys : g.id = k /\ t <= g.at
      <4>1. t \in Nat /\ now \in Nat /\ t <= now
        BY DEF krInv, krTypeOK, SignersAreHeld
      <4>2. now' - t < grace_period => now - t < grace_period
        BY <2>1, <4>1, PolicyAssumption
      <4>3. t <= now'
        BY <2>1, <4>1
      <4> QED
        BY <4>2, <4>3 DEF krInv, SignersAreHeld
    <3> QED
      BY ONLY <2>1, <3>1, Zenon DEF SignersAreHeld
  <2> QED
    BY <2>1, <2>2 DEF krInv, krTypeOK, LogIsTheHistory
<1>6. CASE UNCHANGED krVars
  BY <1>6 DEF krVars, krInv, krTypeOK, LogIsTheHistory, SignersAreHeld
<1> QED
  BY <1>2, <1>3, <1>4, <1>5, <1>6 DEF krNext

\* What the invariant says of signatures.
LEMMA HeldCanBeChecked == krInv => SignaturesCanBeChecked
<1> SUFFICES ASSUME krInv, NEW k \in KeyIds, NEW t \in used[k], now - t < grace_period
             PROVE  acceptable(k) = "ok"
  BY DEF krInv, SignaturesCanBeChecked, SignedStaysVerifiable
<1>1. CASE active_key_id = k
  BY <1>1 DEF acceptable
<1>2. CASE active_key_id # k
  <2>1. PICK g \in grace_keys : g.id = k /\ t <= g.at
    BY <1>2 DEF krInv, SignersAreHeld
  <2>2. now \in Nat /\ t \in Nat /\ g.at \in Nat
    BY DEF krInv, krTypeOK
  <2>3. now - g.at < grace_period
    BY <2>1, <2>2, PolicyAssumption
  <2>4. g \in evict_retired_keys
    BY <2>3 DEF evict_retired_keys
  <2> QED
    BY <1>2, <2>1, <2>4 DEF acceptable
<1> QED
  BY <1>1, <1>2

-----------------------------------------------------------------------------
(* TenantKeys                                                              *)

ServicePlaces ==
  {"start", "generate", "read", "truncate", "write", "open", "InvalidKeyLength", "stopped"}

\* The keys drawn so far.
Drawn == {Generated(n) : n \in 0..(fresh - 1)}

\* The file is missing, cut short or whole, a whole one is of a key that was
\* drawn, and a file that is there stays there: that is what a process goes by
\* between exists() and read().
FileOK ==
  /\ file \in {<<"missing">>, <<"short">>} \cup Drawn
  /\ \A p \in Procs :
       /\ At(p, "read") => file # <<"missing">>
       /\ proc[p].pc \in {"truncate", "write", "open"} => proc[p].key \in Drawn

RoomsOK ==
  /\ \A x \in DOMAIN rooms : rooms[x] \in Rooms
  /\ \A x, y \in DOMAIN rooms : rooms[x] = rooms[y] => x = y

tkInv ==
  /\ fresh \in Nat
  /\ proc \in [Procs -> [pc : ServicePlaces, key : {<<>>} \cup {Generated(n) : n \in Nat}]]
  /\ FileOK
  /\ RoomsOK

\* The key file and the registry start in their invariant.
LEMMA TenantsStart == tkInit => tkInv
<1> SUFFICES ASSUME tkInit PROVE tkInv
  OBVIOUS
<1>1. fresh \in Nat
  BY DEF tkInit
<1>2. proc \in [Procs -> [pc : ServicePlaces, key : {<<>>} \cup {Generated(n) : n \in Nat}]]
  BY DEF tkInit, ServicePlaces
<1>3. FileOK
  BY DEF tkInit, FileOK, At
<1>4. RoomsOK
  <2>1. DOMAIN rooms = {}
    BY DEF tkInit
  <2> QED
    BY <2>1 DEF RoomsOK
<1> QED
  BY <1>1, <1>2, <1>3, <1>4 DEF tkInv

\* A whole key is neither of the two marks of a file without one.
LEMMA MarksAreNoKeys ==
  ASSUME NEW n
  PROVE  Generated(n) # <<"missing">> /\ <<"short">> # <<"missing">>
BY DEF Generated

\* Every step of a process, of a task or of the registry keeps the invariant.
LEMMA TenantsStep == tkInv /\ [tkNext]_tkVars => tkInv'
<1> SUFFICES ASSUME tkInv, [tkNext]_tkVars PROVE tkInv'
  OBVIOUS
<1> DEFINE KeyValues == {<<>>} \cup {Generated(n) : n \in Nat}
<1>0. /\ fresh \in Nat /\ FileOK /\ RoomsOK
      /\ proc \in [Procs -> [pc : ServicePlaces, key : KeyValues]]
  BY DEF tkInv
<1>1. Drawn \subseteq KeyValues
  BY <1>0 DEF Drawn
<1> HIDE DEF KeyValues
<1>2. ASSUME rooms' = rooms PROVE RoomsOK'
  BY <1>0, <1>2 DEF RoomsOK
<1>3. ASSUME NEW p \in Procs, Look(p) PROVE tkInv'
  <2>1. /\ file' = file /\ fresh' = fresh /\ rooms' = rooms
        /\ proc' = [proc EXCEPT ![p].pc = IF file = <<"missing">> THEN "generate" ELSE "read"]
    BY <1>3 DEF Look, Goto
  <2>2. proc' \in [Procs -> [pc : ServicePlaces, key : KeyValues]]
    BY <1>0, <2>1 DEF ServicePlaces
  <2>3. FileOK'
    BY <1>0, <2>1 DEF FileOK, At, Drawn
  <2> QED
    BY <1>0, <1>2, <2>1, <2>2, <2>3 DEF tkInv, KeyValues
<1>4. ASSUME NEW p \in Procs, Read(p) PROVE tkInv'
  <2>1. /\ file' = file /\ fresh' = fresh /\ rooms' = rooms /\ proc[p].pc = "read"
        /\ proc' = [proc EXCEPT ![p] =
             IF file = <<"short">> THEN [pc |-> "InvalidKeyLength", key |-> <<>>]
                                   ELSE [pc |-> "open", key |-> file]]
    BY <1>4 DEF Read, At
  <2>2. file = <<"short">> \/ file \in Drawn
    BY <1>0, <2>1 DEF FileOK, At
  <2>3. proc' \in [Procs -> [pc : ServicePlaces, key : KeyValues]]
    BY <1>0, <1>1, <2>1, <2>2 DEF ServicePlaces, KeyValues
  <2>4. FileOK'
    BY <1>0, <2>1, <2>2 DEF FileOK, At, Drawn
  <2> QED
    BY <1>0, <1>2, <2>1, <2>3, <2>4 DEF tkInv, KeyValues
<1>5. ASSUME NEW p \in Procs, Generate(p) PROVE tkInv'
  <2>1. /\ file' = file /\ fresh' = fresh + 1 /\ rooms' = rooms
        /\ proc' = [proc EXCEPT ![p] = [pc |-> "truncate", key |-> Generated(fresh)]]
    BY <1>5 DEF Generate
  <2>2. proc' \in [Procs -> [pc : ServicePlaces, key : KeyValues]]
    BY <1>0, <2>1 DEF ServicePlaces, KeyValues
  <2>3. Drawn \subseteq Drawn' /\ Generated(fresh) \in Drawn'
    <3>1. fresh \in 0..(fresh' - 1) /\ 0..(fresh - 1) \subseteq 0..(fresh' - 1)
      BY <1>0, <2>1
    <3> QED
      BY <3>1 DEF Drawn, Generated
  <2>4. FileOK'
    BY <1>0, <2>1, <2>3 DEF FileOK, At
  <2> QED
    BY <1>0, <1>2, <2>1, <2>2, <2>4 DEF tkInv, KeyValues
<1>6. ASSUME NEW p \in Procs, Truncate(p) PROVE tkInv'
  <2>1. /\ file' = <<"short">> /\ fresh' = fresh /\ rooms' = rooms
        /\ proc[p].pc = "truncate" /\ proc' = [proc EXCEPT ![p].pc = "write"]
    BY <1>6 DEF Truncate, Goto, At
  <2>2. proc' \in [Procs -> [pc : ServicePlaces, key : KeyValues]]
    BY <1>0, <2>1 DEF ServicePlaces
  <2>3. FileOK'
    BY <1>0, <2>1, MarksAreNoKeys DEF FileOK, At, Drawn
  <2> QED
    BY <1>0, <1>2, <2>1, <2>2, <2>3 DEF tkInv, KeyValues
<1>7. ASSUME NEW p \in Procs, Write(p) PROVE tkInv'
  <2>1. /\ file' = proc[p].key /\ fresh' = fresh /\ rooms' = rooms
        /\ proc[p].pc = "write" /\ proc' = [proc EXCEPT ![p].pc = "open"]
    BY <1>7 DEF Write, Goto, At
  <2>2. proc' \in [Procs -> [pc : ServicePlaces, key : KeyValues]]
    BY <1>0, <2>1 DEF ServicePlaces
  <2>3. file' \in Drawn /\ file' # <<"missing">>
    BY <1>0, <2>1, MarksAreNoKeys DEF FileOK, Drawn
  <2>4. FileOK'
    BY <1>0, <2>1, <2>3 DEF FileOK, At, Drawn
  <2> QED
    BY <1>0, <1>2, <2>1, <2>2, <2>4 DEF tkInv, KeyValues
<1>8. ASSUME NEW p \in Procs, Fail(p) PROVE tkInv'
  <2>1. /\ file' = file /\ fresh' = fresh /\ rooms' = rooms
        /\ proc' = [proc EXCEPT ![p] = [pc |-> "stopped", key |-> <<>>]]
    BY <1>8 DEF Fail
  <2>2. proc' \in [Procs -> [pc : ServicePlaces, key : KeyValues]]
    BY <1>0, <2>1 DEF ServicePlaces, KeyValues
  <2>3. FileOK'
    BY <1>0, <2>1 DEF FileOK, At, Drawn
  <2> QED
    BY <1>0, <1>2, <2>1, <2>2, <2>3 DEF tkInv, KeyValues
<1>9. ASSUME file' = file, proc' = proc, fresh' = fresh, RoomsOK' PROVE tkInv'
  <2>1. FileOK'
    BY <1>0, <1>9 DEF FileOK, At, Drawn
  <2> QED
    BY <1>0, <1>9, <2>1 DEF tkInv, KeyValues
<1>10. ASSUME NEW value, StartRegistry(value) PROVE tkInv'
  BY <1>2, <1>9, <1>10 DEF StartRegistry
<1>11. ASSUME NEW t, get_or_derive(t) \/ evict(t) PROVE tkInv'
  BY <1>2, <1>9, <1>11 DEF get_or_derive, evict
<1>12. ASSUME NEW t, NEW i, open_room(t, i) PROVE tkInv'
  <2>1. PICK r \in Rooms \ {rooms[x] : x \in DOMAIN rooms} :
          rooms' = [x \in DOMAIN rooms \cup {<<t, i>>} |->
                      IF x = <<t, i>> THEN r ELSE rooms[x]]
    BY <1>12 DEF open_room
  <2>2. /\ <<t, i>> \notin DOMAIN rooms
        /\ file' = file /\ proc' = proc /\ fresh' = fresh
    BY <1>12 DEF open_room
  <2> DEFINE pair == <<t, i>>
  <2> HIDE DEF pair
  <2>3. /\ DOMAIN rooms' = DOMAIN rooms \cup {pair} /\ rooms'[pair] = r
        /\ \A x \in DOMAIN rooms : rooms'[x] = rooms[x] /\ rooms[x] # r
    BY <2>1, <2>2 DEF pair
  <2>4. RoomsOK'
    BY <1>0, <2>3 DEF RoomsOK
  <2> QED
    BY <1>9, <2>2, <2>4
<1>13. CASE UNCHANGED tkVars
  BY <1>2, <1>9, <1>13 DEF tkVars
<1> QED
  BY <1>3, <1>4, <1>5, <1>6, <1>7, <1>8, <1>10, <1>11, <1>12, <1>13 DEF tkNext

\* What the invariant says of keys and rooms.
LEMMA TenantsStayApart == tkInv => TenantsAreApart
<1> SUFFICES ASSUME tkInv PROVE TenantsAreApart
  OBVIOUS
<1>1. NoServiceOnATornKey
  BY DEF tkInv, FileOK, Drawn, NoServiceOnATornKey, At
<1>2. RoomsAreApart
  BY RoomsAssumption DEF tkInv, RoomsOK, RoomsAreApart, get_room
<1> QED
  BY <1>1, <1>2 DEF TenantsAreApart

-----------------------------------------------------------------------------
(* RekorAnchoring                                                          *)

RunPlaces == {"start", "anchor", "create", "sent", "gave up", "done", "lost"}
InFlight == {"anchor", "create", "sent", "gave up"}

\* The log has the packet of run r, where the entry says if it says so.
PlaceOK(r, entry, entries) ==
  /\ \E i \in 1..Len(entries) : entries[i] = r
  /\ entry.uuid # Blank => /\ entry.uuid = r
                           /\ entry.index + 1 \in 1..Len(entries)
                           /\ entries[entry.index + 1] = r

\* What an entry on the packet of run r is good for.  One of the mock has an
\* index that the counter of its process has passed.
EntryOK(r, entry, entries, start, counter) ==
  /\ entry.source # "mock" => PlaceOK(r, entry, entries)
  /\ entry.source = "mock" =>
       /\ entry.body = r /\ entry.index \in Nat
       /\ entry.life \in Nat /\ entry.life <= start
       /\ entry.life = start => entry.index < counter

\* A packet that was wrapped is of its run, and has no entry before the run is
\* done; before that there is none.
PacketOK(r) ==
  /\ pc[r] = "start" => packet[r] = <<>>
  /\ pc[r] # "start" => packet[r].hash = r
  /\ pc[r] \in InFlight =>
       packet[r] = [hash |-> r, rekor |-> NoEntry]
  /\ pc[r] # "start" /\ packet[r].rekor # NoEntry =>
       EntryOK(r, packet[r].rekor, log, life, log_index)

\* The run has an entry of the mock client.
MockAnchored(r) ==
  /\ pc[r] # "start" /\ packet[r].rekor # NoEntry
  /\ packet[r].rekor.source = "mock"

\* No two packets of one process are told the same place.
PlacesDiffer ==
  \A r, s \in Runs :
    /\ MockAnchored(r) /\ MockAnchored(s) /\ r # s
    /\ packet[r].rekor.life = packet[s].rekor.life
    => packet[r].rekor.index # packet[s].rekor.index

raInv ==
  /\ log_index \in Nat /\ life \in Nat /\ log \in Seq(Runs)
  /\ pc \in [Runs -> RunPlaces] /\ packet = [r \in Runs |-> packet[r]]
  /\ \A r \in Runs : PacketOK(r)
  /\ PlacesDiffer

\* The runs start in the invariant: no packet, an empty log.
LEMMA AnchoringStarts == raInit => raInv
<1> SUFFICES ASSUME raInit PROVE raInv
  OBVIOUS
<1>1. /\ log_index \in Nat /\ life \in Nat /\ log \in Seq(Runs)
      /\ pc \in [Runs -> RunPlaces] /\ packet = [r \in Runs |-> packet[r]]
  BY DEF raInit, RunPlaces
<1>2. \A r \in Runs : pc[r] = "start" /\ packet[r] = <<>>
  BY DEF raInit
<1>3. \A r \in Runs : PacketOK(r)
  BY <1>2 DEF PacketOK, InFlight
<1>4. PlacesDiffer
  BY <1>2 DEF PlacesDiffer, MockAnchored
<1> QED
  BY <1>1, <1>3, <1>4 DEF raInv

\* An entry stays good while the log and the counter grow.
LEMMA EntryStays ==
  ASSUME raInv, NEW r \in Runs, NEW entry, EntryOK(r, entry, log, life, log_index),
         life' = life, log_index' \in Nat, log_index <= log_index',
         log' = log \/ \E x \in Runs : log' = Append(log, x)
  PROVE  EntryOK(r, entry, log', life', log_index')
<1>1. log \in Seq(Runs) /\ Len(log) \in Nat /\ log_index \in Nat
  BY LenProperties DEF raInv
<1>2. ASSUME NEW i \in 1..Len(log) PROVE i \in 1..Len(log') /\ log'[i] = log[i]
  <2>1. CASE log' = log
    BY <2>1
  <2>2. CASE \E x \in Runs : log' = Append(log, x)
    BY <1>1, <2>2, AppendProperties
  <2> QED
    BY <2>1, <2>2
<1>3. entry.source # "mock" => PlaceOK(r, entry, log')
  BY <1>2 DEF EntryOK, PlaceOK
<1> QED
  BY <1>1, <1>3 DEF EntryOK

\* A step of run r that changes its place, and its packet to one that is sound
\* and shares its place with no other, keeps the invariant.
LEMMA OneRunMoves ==
  ASSUME raInv, NEW r \in Runs, NEW place \in RunPlaces, NEW new,
         pc' = [pc EXCEPT ![r] = place], packet' = [packet EXCEPT ![r] = new],
         life' = life, log_index' \in Nat, log_index <= log_index',
         log' = log \/ \E x \in Runs : log' = Append(log, x),
         PacketOK(r)',
         \A s \in Runs \ {r} : /\ MockAnchored(r)' /\ MockAnchored(s)
                                /\ packet'[r].rekor.life = packet[s].rekor.life
                               => packet'[r].rekor.index # packet[s].rekor.index
  PROVE  raInv'
<1>1. /\ pc \in [Runs -> RunPlaces] /\ packet = [s \in Runs |-> packet[s]]
      /\ life \in Nat /\ log \in Seq(Runs)
  BY DEF raInv
<1>2. /\ pc'[r] = place /\ packet'[r] = new
      /\ \A s \in Runs \ {r} : pc'[s] = pc[s] /\ packet'[s] = packet[s]
  BY <1>1
<1>3. /\ pc' \in [Runs -> RunPlaces] /\ packet' = [s \in Runs |-> packet'[s]]
      /\ life' \in Nat /\ log' \in Seq(Runs)
  <2>1. log' \in Seq(Runs)
    BY <1>1, AppendProperties, SMTT(60)
  <2>2. packet' = [s \in Runs |-> packet'[s]]
    BY <1>1
  <2> QED
    BY <1>1, <2>1, <2>2
<1>4. ASSUME NEW s \in Runs \ {r} PROVE PacketOK(s)'
  <2>1. PacketOK(s) /\ pc'[s] = pc[s] /\ packet'[s] = packet[s]
    BY <1>2 DEF raInv
  <2>2. ASSUME pc[s] # "start", packet[s].rekor # NoEntry
        PROVE  EntryOK(s, packet[s].rekor, log', life', log_index')
    <3>1. EntryOK(s, packet[s].rekor, log, life, log_index)
      BY <2>1, <2>2 DEF PacketOK, InFlight
    <3> QED
      BY <3>1, EntryStays
  <2> QED
    BY <2>1, <2>2 DEF PacketOK, InFlight
<1>5. PlacesDiffer'
  <2> SUFFICES ASSUME NEW s \in Runs, NEW t \in Runs, s # t,
                      MockAnchored(s)', MockAnchored(t)',
                      packet'[s].rekor.life = packet'[t].rekor.life
               PROVE  packet'[s].rekor.index # packet'[t].rekor.index
    BY DEF PlacesDiffer
  <2>1. CASE s # r /\ t # r
    BY <1>2, <2>1 DEF raInv, PlacesDiffer, MockAnchored
  <2>2. CASE s = r
    BY <1>2, <2>2 DEF MockAnchored
  <2>3. CASE t = r
    BY <1>2, <2>3 DEF MockAnchored
  <2> QED
    BY <2>1, <2>2, <2>3
<1> QED
  BY <1>3, <1>4, <1>5 DEF raInv

\* Finish puts the entry on the packet, or leaves the packet alone.
LEMMA FinishedPacket ==
  ASSUME raInv, NEW r \in Runs, pc[r] \in InFlight, NEW entry,
         Finish(r, entry)
  PROVE  /\ pc' = [pc EXCEPT ![r] = "done"] /\ pc'[r] = "done"
         /\ packet' = [packet EXCEPT ![r] = packet'[r]]
         /\ packet'[r].hash = r /\ packet'[r].rekor = entry
<1>1. packet[r] = [hash |-> r, rekor |-> NoEntry]
  BY DEF raInv, PacketOK, InFlight
<1>2. /\ packet = [s \in Runs |-> packet[s]] /\ pc \in [Runs -> RunPlaces]
      /\ packet' = [packet EXCEPT ![r] =
           IF entry = NoEntry THEN packet[r] ELSE [packet[r] EXCEPT !.rekor = entry]]
      /\ pc' = [pc EXCEPT ![r] = "done"]
  BY DEF raInv, Finish, wrap_with_rekor
<1>3. pc'[r] = "done"
  BY <1>2
<1>4. packet'[r] = IF entry = NoEntry THEN packet[r] ELSE [packet[r] EXCEPT !.rekor = entry]
  BY <1>2
<1>5. packet'[r].hash = r /\ packet'[r].rekor = entry
  BY ONLY <1>1, <1>4
<1>6. packet' = [packet EXCEPT ![r] = packet'[r]]
  BY <1>2, <1>4
<1> QED
  BY <1>2, <1>3, <1>5, <1>6

\* A run that is done with an entry of a real log, or with none.
LEMMA FinishKeeps ==
  ASSUME raInv, NEW r \in Runs, pc[r] \in InFlight, NEW entry,
         Finish(r, entry), life' = life, log_index' = log_index,
         log' = log \/ \E x \in Runs : log' = Append(log, x),
         entry = NoEntry \/ (entry.source # "mock" /\ PlaceOK(r, entry, log'))
  PROVE  raInv'
<1>1. /\ pc' = [pc EXCEPT ![r] = "done"] /\ pc'[r] = "done"
      /\ packet' = [packet EXCEPT ![r] = packet'[r]]
      /\ packet'[r].hash = r /\ packet'[r].rekor = entry
  BY FinishedPacket
<1>2. pc'[r] = "done" /\ packet'[r].rekor = entry /\ packet'[r].hash = r
  BY ONLY <1>1
<1>3. PacketOK(r)'
  BY <1>2 DEF PacketOK, EntryOK, InFlight
<1>4. ~MockAnchored(r)'
  BY <1>2 DEF MockAnchored
<1>5. log_index' \in Nat /\ log_index <= log_index'
  <2>1. log_index \in Nat
    BY DEF raInv
  <2> QED
    BY ONLY <2>1, log_index' = log_index
<1>6. "done" \in RunPlaces
  BY DEF RunPlaces, InFlight
<1> QED
  BY <1>1, <1>3, <1>4, <1>5, <1>6, OneRunMoves

\* The mock's entry: its index is the counter, which moves on.
LEMMA MockKeeps ==
  ASSUME raInv, NEW r \in Runs, mock_anchor(r)
  PROVE  raInv'
<1> DEFINE entry == RekorEntry("mock", packet[r].hash, log_index, packet[r].hash)
<1>1. /\ pc[r] = "anchor" /\ log_index' = log_index + 1 /\ Finish(r, entry)
      /\ life' = life /\ log' = log
  BY DEF mock_anchor
<1>2. packet[r].hash = r /\ log_index \in Nat /\ life \in Nat
  BY <1>1 DEF raInv, PacketOK, InFlight
<1>3. /\ entry.source = "mock" /\ entry.life = life /\ entry.index = log_index
      /\ entry.body = r
  BY <1>2 DEF RekorEntry
<1> HIDE DEF entry
<1>4. /\ pc' = [pc EXCEPT ![r] = "done"] /\ pc'[r] = "done"
      /\ packet' = [packet EXCEPT ![r] = packet'[r]]
      /\ packet'[r].hash = r /\ packet'[r].rekor = entry
  BY <1>1, FinishedPacket DEF InFlight
<1>5. log_index' \in Nat /\ log_index <= log_index' /\ log_index < log_index'
  BY <1>1, <1>2
<1>6. EntryOK(r, entry, log', life', log_index')
  BY <1>1, <1>2, <1>3, <1>5 DEF EntryOK
<1>7. PacketOK(r)'
  BY <1>4, <1>6 DEF PacketOK, InFlight
<1>8. ASSUME NEW s \in Runs \ {r}, MockAnchored(s), packet'[r].rekor.life = packet[s].rekor.life
      PROVE  packet'[r].rekor.index # packet[s].rekor.index
  <2>1. EntryOK(s, packet[s].rekor, log, life, log_index)
    BY <1>8 DEF raInv, PacketOK, MockAnchored, InFlight
  <2>2. /\ packet[s].rekor.source = "mock" /\ packet[s].rekor.life = life
        /\ packet[s].rekor.index \in Nat
    BY <1>3, <1>4, <1>8, <2>1 DEF MockAnchored, EntryOK
  <2>3. packet[s].rekor.index < log_index
    BY <2>1, <2>2 DEF EntryOK
  <2>4. packet'[r].rekor.index = log_index
    BY <1>3, <1>4
  <2> QED
    BY <1>2, <2>2, <2>3, <2>4
<1>9. "done" \in RunPlaces
  BY DEF RunPlaces, InFlight
<1> QED
  BY <1>1, <1>4, <1>5, <1>7, <1>8, <1>9, OneRunMoves

\* A step that changes neither a packet nor the counter: the run goes to
\* another place after it was wrapped, and the log may take an entry.
LEMMA PlaceKeeps ==
  ASSUME raInv, NEW r \in Runs, NEW place, place \in InFlight,
         pc[r] \in InFlight, pc' = [pc EXCEPT ![r] = place],
         packet' = packet, life' = life, log_index' = log_index,
         log' = log \/ \E x \in Runs : log' = Append(log, x)
  PROVE  raInv'
<1>1. pc \in [Runs -> RunPlaces] /\ packet = [s \in Runs |-> packet[s]]
  BY DEF raInv
<1>2. packet[r] = [hash |-> r, rekor |-> NoEntry] /\ packet[r].hash = r
  BY DEF raInv, PacketOK, InFlight
<1>3. pc'[r] = place /\ packet'[r] = packet[r] /\ packet' = [packet EXCEPT ![r] = packet[r]]
  BY <1>1
<1>4. packet'[r].rekor = NoEntry
  <2>1. packet[r].rekor = NoEntry
    BY ONLY <1>2
  <2> QED
    BY ONLY <1>3, <2>1
<1>5. PacketOK(r)'
  BY <1>2, <1>3, <1>4 DEF PacketOK, InFlight
<1>6. ~MockAnchored(r)'
  BY <1>4 DEF MockAnchored
<1>7. log_index' \in Nat /\ log_index <= log_index'
  <2>1. log_index \in Nat
    BY DEF raInv
  <2> QED
    BY ONLY <2>1, log_index' = log_index
<1>8. place \in RunPlaces
  BY DEF RunPlaces, InFlight
<1> QED
  BY <1>3, <1>5, <1>6, <1>7, <1>8, OneRunMoves

\* A run that is wrapped has a packet of its own, without an entry.
LEMMA WrapKeeps ==
  ASSUME raInv, NEW r \in Runs, Wrap(r)
  PROVE  raInv'
<1> DEFINE place == IF client = "none" THEN "done" ELSE "anchor"
<1>1. /\ packet' = [packet EXCEPT ![r] = wrap(r)] /\ pc' = [pc EXCEPT ![r] = place]
      /\ life' = life /\ log_index' = log_index /\ log' = log
  BY DEF Wrap
<1>2. place \in RunPlaces /\ place # "start"
  BY DEF RunPlaces, InFlight
<1> HIDE DEF place
<1>3. pc \in [Runs -> RunPlaces] /\ packet = [s \in Runs |-> packet[s]]
  BY DEF raInv
<1>4. pc'[r] = place
  BY <1>1, <1>3
<1>5. packet'[r] = [hash |-> r, rekor |-> NoEntry]
  BY <1>1, <1>3 DEF wrap
<1>6. packet'[r].hash = r /\ packet'[r].rekor = NoEntry
  BY ONLY <1>5
<1>7. PacketOK(r)'
  BY <1>2, <1>4, <1>5, <1>6 DEF PacketOK, InFlight
<1>8. ~MockAnchored(r)'
  BY <1>6 DEF MockAnchored
<1>9. log_index' \in Nat /\ log_index <= log_index'
  <2>1. log_index \in Nat /\ log_index' = log_index
    BY <1>1 DEF raInv
  <2> QED
    BY ONLY <2>1
<1> QED
  BY <1>1, <1>2, <1>7, <1>8, <1>9, OneRunMoves

\* An entry made of a place in the log.
LEMMA PlacedEntry ==
  ASSUME raInv, NEW r \in Runs, NEW i \in DOMAIN log, log[i] = r, NEW source, NEW body
  PROVE  PlaceOK(r, RekorEntry(source, r, i - 1, body), log)
<1>1. i \in 1..Len(log) /\ i \in Int
  BY LenProperties DEF raInv
<1> DEFINE entry == RekorEntry(source, r, i - 1, body)
<1>2. entry.uuid = r /\ entry.index = i - 1
  BY DEF RekorEntry
<1> HIDE DEF entry
<1>3. entry.index + 1 = i
  BY <1>1, <1>2
<1>4. PlaceOK(r, entry, log)
  BY <1>1, <1>2, <1>3 DEF PlaceOK
<1> QED
  BY <1>4 DEF entry

\* A run that is done because its client names an entry, with what it names,
\* or none.
LEMMA CosignKeeps ==
  ASSUME raInv, NEW r \in Runs, cosign_version(r) \/ cosign_create(r)
  PROVE  raInv'
<1>1. life' = life /\ log_index' = log_index /\ log' = log /\ pc[r] \in InFlight
  BY DEF cosign_version, cosign_create, InFlight
<1>2. packet[r].hash = r
  BY <1>1 DEF raInv, PacketOK, InFlight
<1>3. CASE Finish(r, NoEntry)
  BY <1>1, <1>3, FinishKeeps
<1>4. CASE pc' = [pc EXCEPT ![r] = "create"] /\ packet' = packet
  <2>1. "create" \in InFlight
    BY DEF InFlight
  <2> QED
    BY <1>1, <1>4, <2>1, PlaceKeeps
<1>5. ASSUME NEW i \in DOMAIN log, log[i] = packet[r].hash,
             Finish(r, RekorEntry("cosign", packet[r].hash, i - 1, "canonical"))
      PROVE  raInv'
  <2> DEFINE entry == RekorEntry("cosign", r, i - 1, "canonical")
  <2>1. Finish(r, entry)
    BY <1>2, <1>5
  <2>2. entry.source # "mock"
    BY DEF RekorEntry
  <2>3. PlaceOK(r, entry, log')
    BY <1>1, <1>2, <1>5, PlacedEntry
  <2> HIDE DEF entry
  <2> QED
    BY <1>1, <2>1, <2>2, <2>3, FinishKeeps
<1>6. ASSUME NEW i \in DOMAIN log, log[i] = packet[r].hash,
             Finish(r, RekorEntry("cosign", Blank, 0, Blank))
      PROVE  raInv'
  <2> DEFINE entry == RekorEntry("cosign", Blank, 0, Blank)
  <2>1. entry.source # "mock" /\ entry.uuid = Blank
    BY DEF RekorEntry
  <2>2. i \in 1..Len(log')
    BY <1>1, LenProperties DEF raInv
  <2> HIDE DEF entry
  <2>3. PlaceOK(r, entry, log')
    BY <1>1, <1>2, <1>6, <2>1, <2>2 DEF PlaceOK
  <2>4. Finish(r, entry)
    BY <1>6 DEF entry
  <2> QED
    BY <1>1, <2>1, <2>3, <2>4, FinishKeeps
<1> QED
  BY <1>3, <1>4, <1>5, <1>6 DEF cosign_version, cosign_create

\* A restart loses the runs in flight; the entries of the lives before stay
\* apart from what the counter, at zero again, will give out.
LEMMA RestartKeeps ==
  ASSUME raInv, Restart
  PROVE  raInv'
<1>1. /\ life' = life + 1 /\ log_index' = 0 /\ log' = log /\ packet' = packet
      /\ pc' = [r \in Runs |-> IF pc[r] \in {"start", "done"} THEN pc[r] ELSE "lost"]
  BY DEF Restart
<1>2. life \in Nat /\ pc \in [Runs -> RunPlaces]
  BY DEF raInv
<1>3. \A r \in Runs : /\ pc'[r] = "start" <=> pc[r] = "start"
                      /\ pc'[r] \in {"start", "done", "lost"}
  BY <1>1
<1>4. pc' \in [Runs -> RunPlaces]
  BY <1>1, <1>2 DEF RunPlaces
<1>5. ASSUME NEW r \in Runs, pc[r] # "start", packet[r].rekor # NoEntry
      PROVE  EntryOK(r, packet[r].rekor, log', life', log_index')
  <2>1. EntryOK(r, packet[r].rekor, log, life, log_index)
    BY <1>5 DEF raInv, PacketOK, InFlight
  <2>2. \A l \in Nat : l <= life => l <= life' /\ l # life'
    BY <1>1, <1>2
  <2> QED
    BY <1>1, <2>1, <2>2 DEF EntryOK
<1>6. ASSUME NEW r \in Runs PROVE PacketOK(r)'
  <2>1. PacketOK(r)
    BY DEF raInv
  <2> QED
    BY <1>1, <1>3, <1>5, <2>1 DEF PacketOK, InFlight
<1>7. PlacesDiffer'
  BY <1>1, <1>3 DEF raInv, PlacesDiffer, MockAnchored
<1>8. log_index' \in Nat /\ life' \in Nat /\ log' \in Seq(Runs) /\ packet' = [r \in Runs |-> packet'[r]]
  BY <1>1, <1>2 DEF raInv
<1> QED
  BY <1>4, <1>6, <1>7, <1>8 DEF raInv

\* Every step of the runs, the log and the process keeps the invariant.
LEMMA AnchoringSteps == raInv /\ [raNext]_raVars => raInv'
<1> SUFFICES ASSUME raInv, [raNext]_raVars PROVE raInv'
  OBVIOUS
<1>1. CASE UNCHANGED raVars
  BY <1>1 DEF raVars, raInv, PacketOK, PlacesDiffer, MockAnchored, InFlight
<1>2. CASE Restart
  BY <1>2, RestartKeeps
<1>3. ASSUME NEW r \in Runs,
             \/ Wrap(r) \/ mock_anchor(r) \/ cosign_version(r) \/ cosign_create(r)
             \/ v2_send(r) \/ LogTakes(r) \/ v2_answer(r) \/ v2_fail(r) \/ v2_unanchored(r)
      PROVE  raInv'
  <2>1. pc \in [Runs -> RunPlaces] /\ log \in Seq(Runs) /\ PacketOK(r)
    BY DEF raInv
  <2>2. pc[r] \in InFlight => packet[r].hash = r
    BY <2>1 DEF PacketOK, InFlight
  <2>3. CASE Wrap(r)
    BY <2>3, WrapKeeps
  <2>4. CASE mock_anchor(r)
    BY <2>4, MockKeeps
  <2>5. CASE cosign_version(r) \/ cosign_create(r)
    BY <2>5, CosignKeeps
  <2>6. CASE v2_send(r)
    BY <2>6, PlaceKeeps DEF v2_send, InFlight
  <2>7. CASE LogTakes(r)
    <3>0. pc' = pc /\ pc[r] \in {"sent", "gave up", "create"}
      BY <2>7, Zenon DEF LogTakes
    <3>1. pc[r] \in InFlight /\ pc' = [pc EXCEPT ![r] = pc[r]]
      BY <2>1, <3>0 DEF InFlight
    <3>2. log' = Append(log, r)
      BY <2>2, <2>7, <3>1 DEF LogTakes
    <3>3. packet' = packet /\ life' = life /\ log_index' = log_index
      BY <2>7 DEF LogTakes
    <3> QED
      BY <3>1, <3>2, <3>3, PlaceKeeps
  <2>8. CASE v2_answer(r)
    <3>1. PICK i \in DOMAIN log, body \in {"canonical", packet[r].hash} :
            log[i] = packet[r].hash /\ Finish(r, RekorEntry("v2", packet[r].hash, i - 1, body))
      BY <2>8 DEF v2_answer
    <3> DEFINE entry == RekorEntry("v2", packet[r].hash, i - 1, body)
    <3>2. entry.source = "v2"
      BY DEF RekorEntry
    <3>3. pc[r] = "sent" /\ log' = log /\ life' = life /\ log_index' = log_index
      BY <2>8 DEF v2_answer
    <3>4. PlaceOK(r, entry, log')
      BY <2>2, <3>1, <3>3, PlacedEntry DEF InFlight
    <3>5. Finish(r, entry)
      BY <3>1
    <3> HIDE DEF entry
    <3> QED
      BY <3>2, <3>3, <3>4, <3>5, FinishKeeps DEF InFlight
  <2>9. CASE v2_fail(r)
    BY <2>9, PlaceKeeps DEF v2_fail, InFlight
  <2>10. CASE v2_unanchored(r)
    BY <2>10, FinishKeeps DEF v2_unanchored, InFlight
  <2> QED
    BY <1>3, <2>3, <2>4, <2>5, <2>6, <2>7, <2>8, <2>9, <2>10
<1> QED
  BY <1>1, <1>2, <1>3 DEF raNext

\* What the invariant says of the entries.
LEMMA AnchoredAreHonest == raInv => EntriesAreHonest
<1> SUFFICES ASSUME raInv PROVE EntriesAreHonest
  OBVIOUS
<1>1. ASSUME NEW r \in Anchored
      PROVE  /\ r \in Runs /\ pc[r] # "start" /\ packet[r].rekor # NoEntry
             /\ packet[r].hash = r /\ EntryOK(r, packet[r].rekor, log, life, log_index)
  BY DEF Anchored, raInv, PacketOK, InFlight
<1>2. PlacesAreTheLogs
  <2>1. DOMAIN log = 1..Len(log)
    BY LenProperties DEF raInv
  <2> QED
    BY <1>1, <2>1, ZenonT(60) DEF PlacesAreTheLogs, EntryOK, PlaceOK
<1>3. ASSUME NEW r \in Anchored, NEW s \in Anchored,
             packet[r].rekor.source = "mock", packet[s].rekor.source = "mock"
      PROVE  /\ r # s /\ packet[r].rekor.life = packet[s].rekor.life
                  => packet[r].rekor.index # packet[s].rekor.index
             /\ client = "mock" => (verify(packet[r].rekor, packet[s].hash) <=> r = s)
  <2>1. MockAnchored(r) /\ MockAnchored(s)
    BY <1>1, <1>3 DEF MockAnchored
  <2>2. r # s /\ packet[r].rekor.life = packet[s].rekor.life
          => packet[r].rekor.index # packet[s].rekor.index
    BY <1>1, <2>1 DEF raInv, PlacesDiffer
  <2>3. packet[r].rekor.body = r /\ packet[s].hash = s
    BY <1>1, <1>3 DEF EntryOK
  <2>4. ASSUME client = "mock" PROVE verify(packet[r].rekor, packet[s].hash) <=> r = s
    <3>1. verify(packet[r].rekor, packet[s].hash) <=> packet[r].rekor.body = packet[s].hash
      BY <2>4 DEF verify
    <3> QED
      BY <2>3, <3>1
  <2> QED
    BY <2>2, <2>4
<1> QED
  BY <1>2, <1>3 DEF EntriesAreHonest, MockEntriesAreTold

-----------------------------------------------------------------------------
(* BandRooms                                                               *)

Chatrooms == [room : RoomIds, in : SUBSET STRING, posts : Seq(RoomIds \X Tenants)]

RequestFields == {"op", "room", "chatroom", "from"}
CallFields ==
  {"at", "op", "room", "from", "added", "chatroom", "request", "result", "reply"}

\* n is a chatroom that was made for this room.
MadeFor(band, n, room) == n \in 1..Len(band) /\ band[n].room = room

\* A request names a chatroom of its own room.
RoomRequestOK(band, q) ==
  /\ DOMAIN q = RequestFields
  /\ q.op = "create" => q.room \in RoomIds
  /\ q.op \in {"post", "history", "close", "add"} => MadeFor(band, q.chatroom, q.room)
  /\ q.op = "post" => q.from \in Tenants
  /\ q.op = "add" => q.from \in STRING

\* An answer is to its request, and a chatroom it tells of is the room's.
RoomReplyOK(band, a, q) ==
  \/ a = NoRequest
  \/ /\ a.op = q.op /\ a.room = q.room
     /\ q.op = "create" /\ a.chatroom # 0 => MadeFor(band, a.chatroom, q.room)

RoomCallOK(band, s) ==
  /\ DOMAIN s = CallFields
  /\ s.at \in {"idle", "remove", "ask", "write", "read", "insert", "done"}
  /\ s.at # "idle" => s.room \in RoomIds
  /\ RoomRequestOK(band, s.request)
  /\ s.request.op = "create" => s.request.room = s.room
  /\ s.request.op = "add" \/ s.at = "insert" => MadeFor(band, s.chatroom, s.room)
  /\ s.request.op = "add" /\ s.at \in {"ask", "write", "read"}
        => s.added \in Nat /\ s.added < Len(Participants)
  /\ s.at \in {"remove", "insert", "done"} /\ s.reply # NoRequest
        => s.reply.op = s.request.op /\ s.reply.room = s.request.room

\* The chatrooms, the map and the messages are each room's own.
BandOK ==
  /\ brBand \in Seq(Chatrooms)
  /\ \A i \in 1..Len(brBand) : \A k \in 1..Len(brBand[i].posts) :
         brBand[i].posts[k][1] = brBand[i].room
  /\ \A r \in DOMAIN brRooms : MadeFor(brBand, brRooms[r], r)

\* The mutexes have one holder, and it is the call that writes and reads.
HolderOK ==
  /\ brHolder \in RoomCalls \cup {NoRoom}
  /\ \A c \in RoomCalls : brCall[c].at \in {"write", "read"} <=> brHolder = c
  /\ brHolder # NoRoom => brStdout /\ brMode # "unset"
  /\ brMode = "unset" => ~brStdout

\* One line is under way at a time: a request, or its answer.
PipeOK ==
  \/ brPipe = <<>> /\ brOut = <<>>
  \/ /\ brPipe # <<>> /\ brPipe = <<brPipe[1]>> /\ brOut = <<>>
     /\ RoomRequestOK(brBand, brPipe[1][2])
  \/ brPipe = <<>> /\ brOut # <<>> /\ brOut = <<brOut[1]>>

\* What lies in the pipes while stdout is there is of the call that reads;
\* what was given up took stdout with it.
LineOK ==
  /\ brMode = "unset" => brPipe = <<>> /\ brOut = <<>>
  /\ brStdout /\ brHolder = NoRoom => brPipe = <<>> /\ brOut = <<>>
  /\ \A c \in RoomCalls :
       /\ brCall[c].at = "write" => brPipe = <<>> /\ brOut = <<>>
       /\ brCall[c].at = "read" =>
            /\ brPipe # <<>> => brPipe[1][2] = brCall[c].request
            /\ brOut # <<>> => RoomReplyOK(brBand, brOut[1], brCall[c].request)

CallsOK ==
  /\ DOMAIN brCall = RoomCalls
  /\ \A c \in RoomCalls : RoomCallOK(brBand, brCall[c])

brInv == CallsOK /\ BandOK /\ HolderOK /\ PipeOK /\ LineOK

\* What a call becomes with the answer of its request.
LEMMA AnsweredIsOK ==
  ASSUME NEW s, NEW a, RoomCallOK(brBand, s), s.at \in {"ask", "write", "read"},
         RoomReplyOK(brBand, a, s.request)
  PROVE  /\ RoomCallOK(brBand, AfterReply(s, a))
         /\ AfterReply(s, a).at \in {"ask", "insert", "done"}
<1> DEFINE t == AfterReply(s, a)
           end(r) == [s EXCEPT !.at = "done", !.result = r, !.reply = a]
<1>0. /\ DOMAIN s = CallFields /\ s.room \in RoomIds /\ RoomRequestOK(brBand, s.request)
      /\ s.request.op = "create" => s.request.room = s.room
      /\ s.request.op = "add" => /\ MadeFor(brBand, s.chatroom, s.room)
                                 /\ s.added \in Nat /\ s.added < Len(Participants)
  BY DEF RoomCallOK
<1>1. ASSUME NEW r PROVE RoomCallOK(brBand, end(r)) /\ end(r).at = "done"
  <2>1. /\ DOMAIN end(r) = CallFields /\ end(r).at = "done" /\ end(r).room = s.room
        /\ end(r).request = s.request /\ end(r).reply = a /\ end(r).chatroom = s.chatroom
    BY <1>0 DEF CallFields
  <2> HIDE DEF end
  <2>2. a # NoRequest => a.op = s.request.op /\ a.room = s.request.room
    BY DEF RoomReplyOK
  <2> QED
    BY <1>0, <2>1, <2>2 DEF RoomCallOK
<1>2. ASSUME NEW n \in Nat, n <= Len(Participants), NEW chatroom, MadeFor(brBand, chatroom, s.room),
             a # NoRequest => a.op = s.request.op /\ a.room = s.request.room,
             t = IF n = Len(Participants)
                 THEN [s EXCEPT !.at = "insert", !.added = n, !.chatroom = chatroom, !.reply = a]
                 ELSE [s EXCEPT !.at = "ask", !.added = n, !.chatroom = chatroom, !.reply = a,
                      !.request = [NoRequest EXCEPT !.op = "add", !.room = s.room,
                                       !.chatroom = chatroom, !.from = Participants[n + 1]]]
      PROVE  RoomCallOK(brBand, t) /\ t.at \in {"ask", "insert"}
  <2>1. CASE n = Len(Participants)
    <3>1. /\ DOMAIN t = CallFields /\ t.at = "insert" /\ t.room = s.room /\ t.chatroom = chatroom
          /\ t.request = s.request /\ t.reply = a
      BY <1>0, <1>2, <2>1 DEF CallFields
    <3> HIDE DEF t
    <3> QED
      BY <1>0, <1>2, <3>1 DEF RoomCallOK
  <2>2. CASE n # Len(Participants)
    <3> DEFINE q == [NoRequest EXCEPT !.op = "add", !.room = s.room,
                                       !.chatroom = chatroom, !.from = Participants[n + 1]]
    <3>1. Participants[n + 1] \in STRING /\ n < Len(Participants)
      <4>1. Len(Participants) \in Nat
        BY ParticipantsAssumption, LenProperties
      <4>2. n + 1 \in 1..Len(Participants)
        BY <1>2, <2>2, <4>1
      <4> QED
        BY <4>1, <4>2, ParticipantsAssumption, ElementOfSeq, <1>2, <2>2
    <3>2. /\ DOMAIN q = RequestFields /\ q.op = "add" /\ q.room = s.room
          /\ q.chatroom = chatroom /\ q.from = Participants[n + 1]
      BY DEF NoRequest, RequestFields
    <3>3. RoomRequestOK(brBand, q)
      <4> HIDE DEF q
      <4> QED
        BY <1>2, <3>1, <3>2 DEF RoomRequestOK
    <3>4. /\ DOMAIN t = CallFields /\ t.at = "ask" /\ t.room = s.room /\ t.chatroom = chatroom
          /\ t.request = q /\ t.reply = a /\ t.added = n
      <4> HIDE DEF q
      <4>1. t = [s EXCEPT !.at = "ask", !.added = n, !.chatroom = chatroom, !.reply = a, !.request = q]
        BY <1>2, <2>2 DEF q
      <4> HIDE DEF t
      <4> QED
        BY <1>0, <4>1 DEF CallFields
    <3> HIDE DEF t, q
    <3> QED
      BY <1>0, <1>2, <3>1, <3>2, <3>3, <3>4 DEF RoomCallOK
  <2> QED
    BY <2>1, <2>2
<1>3. CASE s.request.op = "create" /\ a # NoRequest /\ a.chatroom # 0
  <2>1. MadeFor(brBand, a.chatroom, s.room) /\ a.op = s.request.op /\ a.room = s.request.room
    BY <1>0, <1>3 DEF RoomReplyOK
  <2>2. 0 \in Nat /\ 0 <= Len(Participants)
    BY ParticipantsAssumption, LenProperties
  <2>3. t = IF 0 = Len(Participants)
            THEN [s EXCEPT !.at = "insert", !.added = 0, !.chatroom = a.chatroom, !.reply = a]
            ELSE [s EXCEPT !.at = "ask", !.added = 0, !.chatroom = a.chatroom, !.reply = a,
                      !.request = [NoRequest EXCEPT !.op = "add", !.room = s.room,
                                       !.chatroom = a.chatroom, !.from = Participants[0 + 1]]]
    BY <1>3 DEF AfterReply
  <2> HIDE DEF t
  <2>4. RoomCallOK(brBand, t) /\ t.at \in {"ask", "insert"}
    BY <1>2, <2>1, <2>2, <2>3
  <2> QED
    BY <2>4 DEF t
<1>4. CASE s.request.op = "add"
  <2>1. a # NoRequest => a.op = s.request.op /\ a.room = s.request.room
    BY DEF RoomReplyOK
  <2>2. s.added + 1 \in Nat /\ s.added + 1 <= Len(Participants)
    BY <1>0, <1>4, ParticipantsAssumption, LenProperties
  <2>3. t = IF s.added + 1 = Len(Participants)
            THEN [s EXCEPT !.at = "insert", !.added = s.added + 1, !.chatroom = s.chatroom, !.reply = a]
            ELSE [s EXCEPT !.at = "ask", !.added = s.added + 1, !.chatroom = s.chatroom, !.reply = a,
                      !.request = [NoRequest EXCEPT !.op = "add", !.room = s.room,
                                       !.chatroom = s.chatroom, !.from = Participants[(s.added + 1) + 1]]]
    BY <1>4 DEF AfterReply
  <2> HIDE DEF t
  <2>4. RoomCallOK(brBand, t) /\ t.at \in {"ask", "insert"}
    BY <1>0, <1>2, <1>4, <2>1, <2>2, <2>3
  <2> QED
    BY <2>4 DEF t
<1>5. CASE ~(s.request.op = "create" /\ a # NoRequest /\ a.chatroom # 0) /\ s.request.op # "add"
  <2>1. t \in {end("ok"), end("error")}
    BY <1>5 DEF AfterReply
  <2> HIDE DEF t, end
  <2>2. RoomCallOK(brBand, t) /\ t.at = "done"
    BY <1>1, <2>1
  <2> QED
    BY <2>2 DEF t
<1> QED
  BY <1>3, <1>4, <1>5

\* No call is under way and nothing is in the pipes.
LEMMA RoomsStart == brInit => brInv
<1> SUFFICES ASSUME brInit PROVE brInv
  OBVIOUS
<1>1. RoomCallOK(brBand, NoRoomCall) /\ NoRoomCall.at = "idle"
  <2>1. RoomRequestOK(brBand, NoRequest)
    BY DEF RoomRequestOK, NoRequest, RequestFields
  <2>2. NoRequest.op = "none"
    BY DEF NoRequest
  <2> QED
    BY <2>1, <2>2 DEF RoomCallOK, NoRoomCall, CallFields
<1>2. \A c \in RoomCalls : brCall[c] = NoRoomCall
  BY DEF brInit
<1>3. CallsOK
  BY <1>1, <1>2 DEF CallsOK, brInit
<1>4. BandOK
  <2>1. brBand = <<>> /\ brRooms = <<>>
    BY DEF brInit
  <2> QED
    BY <2>1, EmptySeq DEF BandOK
<1>5. HolderOK
  BY <1>1, <1>2, RoomCallsAssumption DEF HolderOK, brInit
<1>6. PipeOK /\ LineOK
  BY <1>1, <1>2 DEF PipeOK, LineOK, brInit
<1> QED
  BY <1>3, <1>4, <1>5, <1>6 DEF brInv

\* A step of one call leaves the others as they are.
LEMMA OneCallMoves ==
  ASSUME CallsOK, UNCHANGED brBand, NEW c \in RoomCalls, NEW t, RoomCallOK(brBand, t),
         brCall' = [brCall EXCEPT ![c] = t]
  PROVE  CallsOK' /\ brCall'[c] = t /\ \A d \in RoomCalls \ {c} : brCall'[d] = brCall[d]
<1>1. brCall'[c] = t /\ \A d \in RoomCalls \ {c} : brCall'[d] = brCall[d]
  BY DEF CallsOK
<1>2. DOMAIN brCall' = RoomCalls
  BY DEF CallsOK
<1>3. \A d \in RoomCalls : RoomCallOK(brBand', brCall'[d])
  BY <1>1 DEF CallsOK
<1> QED
  BY <1>1, <1>2, <1>3 DEF CallsOK

\* try_real_band_room starts from empty pipes that nobody holds.
LEMMA SpawnKeeps ==
  ASSUME brInv, NEW m, TryRealBandRoom(m)
  PROVE  brInv'
<1>1. /\ brCall' = brCall /\ brBand' = brBand /\ brRooms' = brRooms /\ brPipe' = brPipe
      /\ brOut' = brOut /\ brHolder' = brHolder
  BY DEF TryRealBandRoom
<1>2. brMode = "unset" /\ brMode' \in {"real", "scripted"}
  BY DEF TryRealBandRoom
<1>3. brHolder = NoRoom /\ brPipe = <<>> /\ brOut = <<>>
  BY <1>2 DEF brInv, HolderOK, LineOK
<1>4. CallsOK' /\ BandOK' /\ PipeOK'
  BY <1>1 DEF brInv, CallsOK, BandOK, PipeOK
<1>5. HolderOK'
  BY <1>1, <1>2, <1>3 DEF brInv, HolderOK
<1>6. LineOK'
  BY <1>1, <1>2, <1>3 DEF brInv, LineOK
<1> QED
  BY <1>4, <1>5, <1>6 DEF brInv

\* A step of one call that leaves the bridge and Band alone, before or after
\* its request.
LEMMA AsideKeeps ==
  ASSUME brInv, NEW c \in RoomCalls, NEW t, RoomCallOK(brBand, t),
         brCall' = [brCall EXCEPT ![c] = t], UNCHANGED <<brMode, brBand, brPipe, brOut, brHolder>>,
         brStdout' = brStdout,
         brCall[c].at \notin {"write", "read"}, t.at \notin {"write", "read"},
         \A r \in DOMAIN brRooms' : MadeFor(brBand, brRooms'[r], r)
  PROVE  brInv'
<1>1. CallsOK' /\ brCall'[c] = t /\ \A d \in RoomCalls \ {c} : brCall'[d] = brCall[d]
  BY OneCallMoves DEF brInv
<1>2. BandOK'
  BY DEF brInv, BandOK
<1>3. HolderOK'
  BY <1>1 DEF brInv, HolderOK
<1>4. PipeOK'
  BY DEF brInv, PipeOK
<1>5. LineOK'
  BY <1>1 DEF brInv, LineOK
<1> QED
  BY <1>1, <1>2, <1>3, <1>4, <1>5 DEF brInv

\* A call of the real room asks about the chatroom its map gives the room.
LEMMA AskKeeps ==
  ASSUME brInv, NEW c \in RoomCalls, NEW op, NEW room \in RoomIds, NEW from \in Tenants,
         RoomAsk(c, op, room, from), op # "add", op # "create"
  PROVE  brInv'
<1> DEFINE call == [NoRoomCall EXCEPT !.op = op, !.room = room, !.from = from]
           send(r) == [call EXCEPT !.at = "ask", !.request = r]
           end(r)  == [call EXCEPT !.at = "done", !.result = r]
           create  == [NoRequest EXCEPT !.op = "create", !.room = room]
           peers   == [NoRequest EXCEPT !.op = "peers"]
           about   == [op |-> op, room |-> room, chatroom |-> brRooms[room], from |-> from]
           remove  == [call EXCEPT !.at = "remove"]
<1>1. /\ DOMAIN call = CallFields /\ call.room = room /\ call.request = NoRequest
      /\ call.reply = NoRequest
  BY DEF NoRoomCall, CallFields
<1>2. RoomRequestOK(brBand, NoRequest) /\ NoRequest.op = "none"
  BY DEF RoomRequestOK, NoRequest, RequestFields
<1>3. /\ RoomRequestOK(brBand, create) /\ RoomRequestOK(brBand, peers)
      /\ create.op = "create" /\ create.room = room /\ peers.op = "peers"
  BY DEF RoomRequestOK, NoRequest, RequestFields
<1>4. ASSUME room \in DOMAIN brRooms PROVE RoomRequestOK(brBand, about)
  <2>1. MadeFor(brBand, brRooms[room], room)
    BY <1>4 DEF brInv, BandOK
  <2>2. /\ DOMAIN about = RequestFields /\ about.op = op /\ about.room = room
        /\ about.chatroom = brRooms[room] /\ about.from = from
    BY DEF RequestFields
  <2> HIDE DEF about
  <2> QED
    BY <2>1, <2>2 DEF RoomRequestOK
<1>5. about.op = op
  OBVIOUS
<1> HIDE DEF call, create, peers, about
<1>6. ASSUME NEW r, RoomRequestOK(brBand, r), r.op # "add", r.op = "create" => r.room = room
      PROVE  RoomCallOK(brBand, send(r)) /\ send(r).at = "ask"
  <2>1. /\ DOMAIN send(r) = CallFields /\ send(r).at = "ask" /\ send(r).room = room
        /\ send(r).request = r
    BY <1>1 DEF CallFields
  <2> HIDE DEF send
  <2> QED
    BY <1>6, <2>1 DEF RoomCallOK
<1>7. ASSUME NEW r PROVE RoomCallOK(brBand, end(r)) /\ end(r).at = "done"
  <2>1. /\ DOMAIN end(r) = CallFields /\ end(r).at = "done" /\ end(r).room = room
        /\ end(r).request = NoRequest /\ end(r).reply = NoRequest
    BY <1>1 DEF CallFields
  <2> HIDE DEF end
  <2> QED
    BY <1>2, <2>1 DEF RoomCallOK
<1>8. RoomCallOK(brBand, remove) /\ remove.at = "remove"
  <2>1. /\ DOMAIN remove = CallFields /\ remove.at = "remove" /\ remove.room = room
        /\ remove.request = NoRequest /\ remove.reply = NoRequest
    BY <1>1 DEF CallFields
  <2> HIDE DEF remove
  <2> QED
    BY <1>2, <2>1 DEF RoomCallOK
<1>9. PICK t : /\ brCall' = [brCall EXCEPT ![c] = t]
               /\ \/ t \in {end("ok"), end("unknown room"), send(create), send(peers), remove}
                  \/ room \in DOMAIN brRooms /\ t = send(about)
  <2> DEFINE known == room \in DOMAIN brRooms
             t == CASE op = "open" -> IF known THEN end("ok") ELSE send(create)
                    [] op = "close" -> remove
                    [] op = "peers" -> send(peers)
                    [] OTHER -> IF known THEN send(about) ELSE end("unknown room")
  <2>1. brCall' = [brCall EXCEPT ![c] = t]
    BY DEF RoomAsk, call, create, peers, about
  <2>2. \/ t \in {end("ok"), end("unknown room"), send(create), send(peers), remove}
        \/ room \in DOMAIN brRooms /\ t = send(about)
    <3> HIDE DEF end, send, remove
    <3> QED
      OBVIOUS
  <2> HIDE DEF t
  <2> QED
    BY <2>1, <2>2
<1>10. RoomCallOK(brBand, t) /\ t.at \notin {"write", "read"}
  <2> HIDE DEF end, send, remove
  <2> QED
    BY <1>3, <1>4, <1>5, <1>6, <1>7, <1>8, <1>9
<1>11. /\ UNCHANGED <<brMode, brBand, brPipe, brOut, brHolder>> /\ brRooms' = brRooms
       /\ brCall[c].at = "idle"
  BY DEF RoomAsk, bridge
<1>12. brStdout' = brStdout
  BY DEF RoomAsk, bridge
<1> QED
  BY <1>9, <1>10, <1>11, <1>12, AsideKeeps DEF brInv, BandOK

\* The scripted room touches neither the bridge nor Band.
LEMMA ScriptedKeeps ==
  ASSUME brInv, NEW c \in RoomCalls, NEW op, NEW room \in RoomIds, NEW from,
         ScriptedCall(c, op, room, from)
  PROVE  brInv'
<1>1. PICK r : brCall' = [brCall EXCEPT ![c] = [NoRoomCall EXCEPT !.at = "done", !.op = op,
                  !.room = room, !.from = from, !.result = r]]
  BY DEF ScriptedCall, MockCall
<1> DEFINE t == [NoRoomCall EXCEPT !.at = "done", !.op = op, !.room = room, !.from = from, !.result = r]
<1>2. /\ DOMAIN t = CallFields /\ t.at = "done" /\ t.room = room /\ t.request = NoRequest
      /\ t.reply = NoRequest
  BY DEF NoRoomCall, CallFields
<1> HIDE DEF t
<1>3. RoomRequestOK(brBand, NoRequest) /\ NoRequest.op = "none"
  BY DEF RoomRequestOK, NoRequest, RequestFields
<1>4. RoomCallOK(brBand, t)
  BY <1>2, <1>3 DEF RoomCallOK
<1>5. /\ UNCHANGED <<brMode, brBand, brPipe, brOut, brHolder>> /\ brRooms' = brRooms
      /\ brCall[c].at = "idle"
  BY DEF ScriptedCall, MockCall, bridge
<1>6. brStdout' = brStdout
  BY DEF ScriptedCall, MockCall, bridge
<1>7. brCall' = [brCall EXCEPT ![c] = t]
  BY <1>1 DEF t
<1> QED
  BY <1>2, <1>4, <1>5, <1>6, <1>7, AsideKeeps DEF brInv, BandOK

\* close asks about the chatroom it took out of the map.
LEMMA RemoveKeeps ==
  ASSUME brInv, NEW c \in RoomCalls, RoomRemove(c)
  PROVE  brInv'
<1> DEFINE s == brCall[c]
           q == [NoRequest EXCEPT !.op = "close", !.room = s.room, !.chatroom = brRooms[s.room]]
           asked == [s EXCEPT !.at = "ask", !.request = q]
           ended == [s EXCEPT !.at = "done", !.result = "ok"]
<1>1. RoomCallOK(brBand, s) /\ s.at = "remove" /\ DOMAIN s = CallFields
  BY DEF brInv, CallsOK, RoomRemove, RoomCallOK
<1>2. /\ UNCHANGED <<brMode, brBand, brPipe, brOut, brHolder>>
  BY DEF RoomRemove, bridge
<1>3. brStdout' = brStdout
  BY DEF RoomRemove, bridge
<1>4. \A r \in DOMAIN brRooms : MadeFor(brBand, brRooms[r], r)
  BY DEF brInv, BandOK
<1>5. CASE s.room \in DOMAIN brRooms
  <2>1. /\ brRooms' = [r \in DOMAIN brRooms \ {s.room} |-> brRooms[r]]
        /\ brCall' = [brCall EXCEPT ![c] = asked]
    BY <1>5 DEF RoomRemove
  <2>2. /\ DOMAIN q = RequestFields /\ q.op = "close" /\ q.room = s.room
        /\ q.chatroom = brRooms[s.room]
    BY DEF NoRequest, RequestFields
  <2>3. /\ DOMAIN asked = CallFields /\ asked.at = "ask" /\ asked.room = s.room
        /\ asked.request = q
    BY <1>1 DEF CallFields
  <2> HIDE DEF asked, q
  <2>4. RoomRequestOK(brBand, q)
    BY <1>4, <1>5, <2>2 DEF RoomRequestOK
  <2>5. RoomCallOK(brBand, asked)
    BY <1>1, <2>2, <2>3, <2>4 DEF RoomCallOK
  <2>6. \A r \in DOMAIN brRooms' : MadeFor(brBand, brRooms'[r], r)
    BY <1>4, <2>1
  <2> QED
    BY <1>1, <1>2, <1>3, <2>1, <2>3, <2>5, <2>6, AsideKeeps
<1>6. CASE s.room \notin DOMAIN brRooms
  <2>1. brRooms' = brRooms /\ brCall' = [brCall EXCEPT ![c] = ended]
    BY <1>6 DEF RoomRemove
  <2>2. /\ DOMAIN ended = CallFields /\ ended.at = "done" /\ ended.room = s.room
        /\ ended.request = s.request /\ ended.reply = s.reply /\ ended.chatroom = s.chatroom
    BY <1>1 DEF CallFields
  <2> HIDE DEF ended
  <2>3. RoomCallOK(brBand, ended)
    BY <1>1, <2>2 DEF RoomCallOK
  <2> QED
    BY <1>1, <1>2, <1>3, <1>4, <2>1, <2>2, <2>3, AsideKeeps
<1> QED
  BY <1>5, <1>6

\* open enters a chatroom that was made for its room.
LEMMA InsertKeeps ==
  ASSUME brInv, NEW c \in RoomCalls, RoomInsert(c)
  PROVE  brInv'
<1> DEFINE s == brCall[c]
           t == [s EXCEPT !.at = "done", !.result = "ok"]
<1>1. RoomCallOK(brBand, s) /\ s.at = "insert" /\ DOMAIN s = CallFields
  BY DEF brInv, CallsOK, RoomInsert, RoomCallOK
<1>2. /\ UNCHANGED <<brMode, brBand, brPipe, brOut, brHolder>>
      /\ brCall' = [brCall EXCEPT ![c] = t] /\ brRooms' = PutAt(brRooms, s.room, s.chatroom)
  BY DEF RoomInsert, bridge
<1>3. brStdout' = brStdout
  BY DEF RoomInsert, bridge
<1>4. /\ DOMAIN t = CallFields /\ t.at = "done" /\ t.room = s.room
      /\ t.request = s.request /\ t.reply = s.reply /\ t.chatroom = s.chatroom
  BY <1>1 DEF CallFields
<1> HIDE DEF t
<1>5. RoomCallOK(brBand, t) /\ MadeFor(brBand, s.chatroom, s.room)
  BY <1>1, <1>4 DEF RoomCallOK
<1>6. \A r \in DOMAIN brRooms' : MadeFor(brBand, brRooms'[r], r)
  BY <1>2, <1>5 DEF brInv, BandOK, PutAt
<1> QED
  BY <1>1, <1>2, <1>3, <1>4, <1>5, <1>6, AsideKeeps

\* Who takes the two handles finds the pipes empty.
LEMMA TakeKeeps ==
  ASSUME brInv, NEW c \in RoomCalls, BridgeTake(c)
  PROVE  brInv'
<1> DEFINE s == brCall[c]
           t == [s EXCEPT !.at = "write"]
<1>1. RoomCallOK(brBand, s) /\ s.at = "ask" /\ DOMAIN s = CallFields /\ brHolder = NoRoom
  BY DEF brInv, CallsOK, BridgeTake, RoomCallOK
<1>2. UNCHANGED <<brMode, brBand, brRooms, brPipe, brOut>>
  BY DEF BridgeTake
<1>3. brStdout' = brStdout
  BY DEF BridgeTake
<1>4. CASE brStdin /\ brStdout
  <2>1. brHolder' = c /\ brCall' = [brCall EXCEPT ![c] = t]
    BY <1>4 DEF BridgeTake
  <2>2. /\ DOMAIN t = CallFields /\ t.at = "write" /\ t.room = s.room /\ t.added = s.added
        /\ t.request = s.request /\ t.reply = s.reply /\ t.chatroom = s.chatroom
    BY <1>1 DEF CallFields
  <2> HIDE DEF t
  <2>3. RoomCallOK(brBand, t)
    BY <1>1, <2>2 DEF RoomCallOK
  <2>4. CallsOK' /\ brCall'[c] = t /\ \A d \in RoomCalls \ {c} : brCall'[d] = brCall[d]
    BY <1>2, <2>1, <2>3, OneCallMoves DEF brInv
  <2>5. BandOK' /\ PipeOK'
    BY <1>2 DEF brInv, BandOK, PipeOK
  <2>6. c # NoRoom /\ brMode # "unset" /\ \A d \in RoomCalls : brCall[d].at \notin {"write", "read"}
    BY <1>1, <1>4, RoomCallsAssumption DEF brInv, HolderOK
  <2>7. HolderOK'
    BY <1>2, <1>3, <1>4, <2>1, <2>2, <2>4, <2>6 DEF brInv, HolderOK
  <2>8. brPipe = <<>> /\ brOut = <<>>
    BY <1>1, <1>4 DEF brInv, LineOK
  <2>9. LineOK'
    BY <1>2, <2>2, <2>4, <2>6, <2>8 DEF LineOK
  <2> QED
    BY <2>4, <2>5, <2>7, <2>9 DEF brInv
<1>5. CASE ~(brStdin /\ brStdout)
  <2>1. brHolder' = brHolder /\ brCall' = [brCall EXCEPT ![c] = AfterReply(s, NoRequest)]
    BY <1>5 DEF BridgeTake
  <2>2. /\ RoomCallOK(brBand, AfterReply(s, NoRequest))
        /\ AfterReply(s, NoRequest).at \in {"ask", "insert", "done"}
    BY <1>1, AnsweredIsOK DEF RoomReplyOK
  <2> QED
    BY <1>1, <1>2, <1>3, <2>1, <2>2, AsideKeeps DEF brInv, BandOK
<1> QED
  BY <1>4, <1>5

\* A call that gives the mutexes back with stdout leaves the pipes empty; one
\* that leaves a line behind takes stdout with it.
LEMMA GivingBackKeeps ==
  ASSUME brInv, NEW c \in RoomCalls, brCall[c].at \in {"write", "read"},
         NEW t, RoomCallOK(brBand, t), t.at \in {"ask", "insert", "done"},
         brCall' = [brCall EXCEPT ![c] = t],
         UNCHANGED <<brMode, brBand, brRooms, brPipe>>, brHolder' = NoRoom,
         brOut' \in {brOut, <<>>},
         brStdout' => brPipe' = <<>> /\ brOut' = <<>>
  PROVE  brInv'
<1>1. CallsOK' /\ brCall'[c] = t /\ \A d \in RoomCalls \ {c} : brCall'[d] = brCall[d]
  BY OneCallMoves DEF brInv
<1>2. BandOK'
  BY DEF brInv, BandOK
<1>3. brHolder = c /\ c # NoRoom /\ brMode # "unset"
  BY RoomCallsAssumption DEF brInv, HolderOK
<1>4. \A d \in RoomCalls : brCall'[d].at \notin {"write", "read"}
  <2>1. \A d \in RoomCalls \ {c} : brCall[d].at \notin {"write", "read"}
    BY <1>3 DEF brInv, HolderOK
  <2> QED
    BY <1>1, <2>1
<1>5. HolderOK'
  BY <1>3, <1>4, RoomCallsAssumption DEF brInv, HolderOK
<1>6. PipeOK'
  BY DEF brInv, PipeOK
<1>7. LineOK'
  BY <1>3, <1>4 DEF brInv, LineOK
<1> QED
  BY <1>1, <1>2, <1>5, <1>6, <1>7 DEF brInv

\* The request written is the only line under way.
LEMMA WriteKeeps ==
  ASSUME brInv, NEW c \in RoomCalls, BridgeWrite(c)
  PROVE  brInv'
<1> DEFINE s == brCall[c]
           t == [s EXCEPT !.at = "read"]
           e == <<c, s.request>>
<1>1. RoomCallOK(brBand, s) /\ s.at = "write" /\ DOMAIN s = CallFields
  BY DEF brInv, CallsOK, BridgeWrite, RoomCallOK
<1>2. UNCHANGED <<brMode, brBand, brRooms, brOut>>
  BY DEF BridgeWrite
<1>3. brStdout' = brStdout
  BY DEF BridgeWrite
<1>4. brPipe = <<>> /\ brOut = <<>> /\ brHolder = c /\ brStdout /\ brMode # "unset" /\ c # NoRoom
  BY <1>1, RoomCallsAssumption DEF brInv, LineOK, HolderOK
<1>5. CASE brChild
  <2>1. /\ brPipe' = Append(brPipe, e) /\ brCall' = [brCall EXCEPT ![c] = t]
        /\ brHolder' = brHolder
    BY <1>5 DEF BridgeWrite
  <2>2. /\ DOMAIN t = CallFields /\ t.at = "read" /\ t.room = s.room /\ t.added = s.added
        /\ t.request = s.request /\ t.reply = s.reply /\ t.chatroom = s.chatroom
    BY <1>1 DEF CallFields
  <2> HIDE DEF t
  <2>3. RoomCallOK(brBand, t) /\ RoomRequestOK(brBand, s.request)
    BY <1>1, <2>2 DEF RoomCallOK
  <2>4. CallsOK' /\ brCall'[c] = t /\ \A d \in RoomCalls \ {c} : brCall'[d] = brCall[d]
    BY <1>2, <2>1, <2>3, OneCallMoves DEF brInv
  <2>5. BandOK'
    BY <1>2 DEF brInv, BandOK
  <2>6. brPipe' = <<e>> /\ e[2] = s.request
    BY <1>4, <2>1
  <2> HIDE DEF e
  <2>7. PipeOK'
    BY <1>2, <1>4, <2>3, <2>6 DEF PipeOK
  <2>8. \A d \in RoomCalls \ {c} : brCall[d].at \notin {"write", "read"}
    BY <1>4 DEF brInv, HolderOK
  <2>9. HolderOK'
    BY <1>2, <1>3, <1>4, <2>1, <2>2, <2>4, <2>8 DEF brInv, HolderOK
  <2>10. LineOK'
    BY <1>2, <1>4, <2>1, <2>2, <2>4, <2>6, <2>8 DEF LineOK
  <2> QED
    BY <2>4, <2>5, <2>7, <2>9, <2>10 DEF brInv
<1>6. CASE ~brChild
  <2>1. /\ brCall' = [brCall EXCEPT ![c] = AfterReply(brCall[c], NoRequest)]
        /\ brHolder' = NoRoom /\ brPipe' = brPipe
    BY <1>6 DEF BridgeWrite
  <2>2. /\ RoomCallOK(brBand, AfterReply(brCall[c], NoRequest))
        /\ AfterReply(brCall[c], NoRequest).at \in {"ask", "insert", "done"}
    BY <1>1, AnsweredIsOK DEF RoomReplyOK
  <2> QED
    <3>1. /\ brCall[c].at \in {"write", "read"} /\ brOut' \in {brOut, <<>>}
          /\ UNCHANGED <<brMode, brBand, brRooms, brPipe>>
          /\ brPipe' = <<>> /\ brOut' = <<>>
      BY <1>1, <1>2, <1>4, <2>1
    <3> QED
      BY <2>1, <2>2, <3>1, GivingBackKeeps
<1> QED
  BY <1>5, <1>6

\* The line read is the answer to the request of the call that reads.
LEMMA AnswerKeeps ==
  ASSUME brInv, NEW c \in RoomCalls, BridgeRead(c)
  PROVE  brInv'
<1>1. /\ brCall[c].at = "read" /\ brOut # <<>> /\ brOut' = <<>> /\ brHolder' = NoRoom
      /\ UNCHANGED <<brMode, brBand, brRooms, brPipe>>
      /\ brCall' = [brCall EXCEPT ![c] = AfterReply(brCall[c], Head(brOut))]
  BY DEF BridgeRead
<1>2. brPipe = <<>> /\ brOut = <<brOut[1]>>
  BY <1>1 DEF brInv, PipeOK
<1>3. Head(brOut) = brOut[1]
  BY <1>2
<1>4. RoomReplyOK(brBand, Head(brOut), brCall[c].request)
  BY <1>1, <1>3 DEF brInv, LineOK
<1>5. /\ RoomCallOK(brBand, AfterReply(brCall[c], Head(brOut)))
      /\ AfterReply(brCall[c], Head(brOut)).at \in {"ask", "insert", "done"}
  BY <1>1, <1>4, AnsweredIsOK DEF brInv, CallsOK
<1> QED
  <2>1. /\ brCall[c].at \in {"write", "read"} /\ brOut' \in {brOut, <<>>} /\ brPipe' = <<>>
    BY <1>1, <1>2
  <2> QED
    BY <1>1, <1>5, <2>1, GivingBackKeeps

\* A request given up leaves its line behind, and no stdout to read it by.
LEMMA TimeoutKeeps ==
  ASSUME brInv, NEW c \in RoomCalls, BridgeTimeout(c)
  PROVE  brInv'
<1>1. /\ brCall[c].at = "read" /\ brHolder' = NoRoom
      /\ UNCHANGED <<brMode, brBand, brRooms, brPipe, brOut>>
      /\ brCall' = [brCall EXCEPT ![c] = AfterReply(brCall[c], NoRequest)]
  BY DEF BridgeTimeout
<1>2. brStdout' = FALSE
  BY DEF BridgeTimeout
<1>3. /\ RoomCallOK(brBand, AfterReply(brCall[c], NoRequest))
      /\ AfterReply(brCall[c], NoRequest).at \in {"ask", "insert", "done"}
  BY <1>1, AnsweredIsOK DEF brInv, CallsOK, RoomReplyOK
<1> QED
  <2>1. /\ brCall[c].at \in {"write", "read"} /\ brOut' \in {brOut, <<>>}
        /\ UNCHANGED <<brMode, brBand, brRooms, brPipe>>
    BY <1>1
  <2>2. ~brStdout'
    BY <1>2
  <2> QED
    BY <1>1, <1>3, <2>1, <2>2, GivingBackKeeps

\* shutdown finds no call at the bridge.
LEMMA ShutdownKeeps ==
  ASSUME brInv, BridgeShutdown
  PROVE  brInv'
<1>1. UNCHANGED <<brMode, brBand, brRooms, brPipe, brOut, brCall, brHolder>>
  BY DEF BridgeShutdown
<1>2. ~brStdout'
  BY DEF BridgeShutdown
<1>3. brHolder = NoRoom
  BY DEF brInv, HolderOK, BridgeShutdown
<1>4. CallsOK' /\ BandOK' /\ PipeOK'
  BY <1>1 DEF brInv, CallsOK, BandOK, PipeOK
<1>5. HolderOK' /\ LineOK'
  BY <1>1, <1>2, <1>3 DEF brInv, HolderOK, LineOK
<1> QED
  BY <1>4, <1>5 DEF brInv

\* A child that ends takes the request it had not read with it.
LEMMA ExitKeeps ==
  ASSUME brInv, ChildExits
  PROVE  brInv'
<1>1. UNCHANGED <<brMode, brBand, brRooms, brOut, brCall, brHolder>> /\ brPipe' = <<>>
  BY DEF ChildExits
<1>2. brStdout' = brStdout
  BY DEF ChildExits
<1>3. CallsOK' /\ BandOK' /\ PipeOK'
  BY <1>1 DEF brInv, CallsOK, BandOK, PipeOK
<1>4. HolderOK' /\ LineOK'
  BY <1>1, <1>2 DEF brInv, HolderOK, LineOK
<1> QED
  BY <1>3, <1>4 DEF brInv

\* What was said of a chatroom stays true while Band makes more of them.
LEMMA StaysMade ==
  ASSUME NEW b, NEW d, \A n, r : MadeFor(b, n, r) => MadeFor(d, n, r)
  PROVE  /\ \A q : RoomRequestOK(b, q) => RoomRequestOK(d, q)
         /\ \A a, q : RoomReplyOK(b, a, q) => RoomReplyOK(d, a, q)
         /\ \A s : RoomCallOK(b, s) => RoomCallOK(d, s)
<1>1. \A q : RoomRequestOK(b, q) => RoomRequestOK(d, q)
  BY DEF RoomRequestOK
<1>2. \A a, q : RoomReplyOK(b, a, q) => RoomReplyOK(d, a, q)
  BY DEF RoomReplyOK
<1>3. \A s : RoomCallOK(b, s) => RoomCallOK(d, s)
  BY <1>1 DEF RoomCallOK
<1> QED
  BY <1>1, <1>2, <1>3

\* A chatroom that is changed and stays its room's own.
LEMMA OneChatroomMoves ==
  ASSUME BandOK, NEW n \in 1..Len(brBand), NEW x \in Chatrooms, x.room = brBand[n].room,
         \A k \in 1..Len(x.posts) : x.posts[k][1] = x.room,
         brBand' = [brBand EXCEPT ![n] = x], UNCHANGED brRooms
  PROVE  BandOK' /\ \A m, r : MadeFor(brBand, m, r) => MadeFor(brBand', m, r)
<1>1. /\ brBand' \in Seq(Chatrooms) /\ Len(brBand') = Len(brBand)
      /\ \A i \in 1..Len(brBand) : brBand'[i] = IF i = n THEN x ELSE brBand[i]
  BY ExceptSeq, LenProperties DEF BandOK
<1>2. \A m, r : MadeFor(brBand, m, r) => MadeFor(brBand', m, r)
  BY <1>1 DEF MadeFor
<1>3. \A i \in 1..Len(brBand') : \A k \in 1..Len(brBand'[i].posts) :
         brBand'[i].posts[k][1] = brBand'[i].room
  BY <1>1 DEF BandOK
<1> QED
  BY <1>1, <1>2, <1>3 DEF BandOK

\* What the SDK does for a request keeps the chatrooms their rooms' own, and
\* its answer is to that request.
LEMMA ServedIsOK ==
  ASSUME BandOK, NEW q, RoomRequestOK(brBand, q), NEW outcome, SdkServe(q, outcome),
         UNCHANGED brRooms
  PROVE  /\ BandOK'
         /\ \A m, r : MadeFor(brBand, m, r) => MadeFor(brBand', m, r)
         /\ \E a : brOut' = Append(brOut, a) /\ RoomReplyOK(brBand', a, q)
<1> DEFINE made == Len(brBand) + 1
           opened == [room |-> q.room, in |-> {}, posts |-> <<>>]
           n == q.chatroom
           x == brBand[n]
           more == [x EXCEPT !.in = @ \cup {q.from}]
           said == [x EXCEPT !.posts = Append(@, <<q.room, q.from>>)]
<1>0. brBand \in Seq(Chatrooms) /\ Len(brBand) \in Nat /\ DOMAIN q = RequestFields
  BY LenProperties DEF BandOK, RoomRequestOK
<1>1. CASE outcome # "refused" /\ q.op = "create"
  <2>1. brBand' = Append(brBand, opened)
    BY <1>1 DEF SdkServe
  <2>2. opened \in Chatrooms /\ opened.room = q.room /\ opened.posts = <<>>
    BY <1>1, EmptySeq DEF Chatrooms, RoomRequestOK
  <2> HIDE DEF opened
  <2>3. /\ brBand' \in Seq(Chatrooms) /\ Len(brBand') = made
        /\ \A i \in 1..Len(brBand) : brBand'[i] = brBand[i]
        /\ brBand'[made] = opened
    BY <1>0, <2>1, <2>2, AppendProperties
  <2>4. \A m, r : MadeFor(brBand, m, r) => MadeFor(brBand', m, r)
    BY <1>0, <2>3 DEF MadeFor
  <2>5. \A i \in 1..Len(brBand') : \A k \in 1..Len(brBand'[i].posts) :
           brBand'[i].posts[k][1] = brBand'[i].room
    <3> SUFFICES ASSUME NEW i \in 1..Len(brBand'), NEW k \in 1..Len(brBand'[i].posts)
                 PROVE  brBand'[i].posts[k][1] = brBand'[i].room
      OBVIOUS
    <3>1. CASE i = made
      <4>1. Len(brBand'[i].posts) = 0
        BY <2>2, <2>3, <3>1, EmptySeq
      <4> QED
        BY <4>1
    <3>2. CASE i # made
      BY <1>0, <2>3, <3>2 DEF BandOK
    <3> QED
      BY <3>1, <3>2
  <2>6. BandOK'
    BY <2>3, <2>4, <2>5 DEF BandOK
  <2>7. MadeFor(brBand', made, q.room)
    BY <1>0, <2>2, <2>3 DEF MadeFor
  <2> DEFINE a == IF outcome = "garbled" THEN NoRequest ELSE [q EXCEPT !.chatroom = made]
  <2>8. brOut' = Append(brOut, a)
    BY <1>1 DEF SdkServe
  <2>9. RoomReplyOK(brBand', a, q)
    BY <1>0, <2>7 DEF RoomReplyOK, RequestFields
  <2> QED
    BY <2>4, <2>6, <2>8, <2>9
<1>2. ASSUME ~(outcome # "refused" /\ q.op = "create")
      PROVE  \E a : brOut' = Append(brOut, a) /\ RoomReplyOK(brBand', a, q)
  <2> DEFINE a == IF outcome = "garbled" THEN NoRequest
                  ELSE IF outcome = "refused" THEN [q EXCEPT !.chatroom = 0] ELSE q
  <2>1. brOut' = Append(brOut, a)
    BY <1>2 DEF SdkServe
  <2>2. RoomReplyOK(brBand', a, q)
    BY <1>0, <1>2 DEF RoomReplyOK, RequestFields
  <2> QED
    BY <2>1, <2>2
<1>3. ASSUME brBand' = brBand
      PROVE  BandOK' /\ \A m, r : MadeFor(brBand, m, r) => MadeFor(brBand', m, r)
  BY <1>3 DEF BandOK
<1>4. ASSUME q.op \in {"add", "post"}
      PROVE  /\ n \in 1..Len(brBand) /\ x \in Chatrooms /\ x.room = q.room
             /\ \A k \in 1..Len(x.posts) : x.posts[k][1] = x.room
  BY <1>0, <1>4, ElementOfSeq DEF RoomRequestOK, MadeFor, BandOK
<1>5. CASE outcome # "refused" /\ q.op = "add"
  <2>1. brBand' = [brBand EXCEPT ![n] = more]
    BY <1>5 DEF SdkServe
  <2>2. more \in Chatrooms /\ more.room = x.room /\ more.posts = x.posts
    BY <1>4, <1>5 DEF Chatrooms, RoomRequestOK
  <2> HIDE DEF more
  <2> QED
    BY <1>2, <1>4, <1>5, <2>1, <2>2, OneChatroomMoves
<1>6. CASE outcome # "refused" /\ q.op = "post"
  <2>1. brBand' = [brBand EXCEPT ![n] = said]
    BY <1>6 DEF SdkServe
  <2> DEFINE p == <<q.room, q.from>>
             posts == Append(x.posts, p)
  <2>2. p \in RoomIds \X Tenants /\ p[1] = x.room /\ x.posts \in Seq(RoomIds \X Tenants)
    BY <1>4, <1>6 DEF Chatrooms, RoomRequestOK
  <2> HIDE DEF p
  <2>3. /\ posts \in Seq(RoomIds \X Tenants) /\ Len(posts) = Len(x.posts) + 1
        /\ \A k \in 1..Len(x.posts) : posts[k] = x.posts[k]
        /\ posts[Len(x.posts) + 1] = p /\ Len(x.posts) \in Nat
    BY <2>2, AppendProperties, LenProperties
  <2>4. said = [x EXCEPT !.posts = posts]
    BY DEF p
  <2> HIDE DEF posts, said
  <2>5. said \in Chatrooms /\ said.room = x.room /\ said.posts = posts
    BY <1>4, <1>6, <2>3, <2>4 DEF Chatrooms
  <2>6. ASSUME NEW k \in 1..Len(posts) PROVE posts[k][1] = x.room
    <3>1. CASE k = Len(x.posts) + 1
      BY <2>2, <2>3, <3>1
    <3>2. CASE k # Len(x.posts) + 1
      <4>1. k \in 1..Len(x.posts)
        BY <2>3, <3>2
      <4>2. posts[k] = x.posts[k]
        BY <2>3, <4>1
      <4> QED
        BY <1>4, <1>6, <4>1, <4>2
    <3> QED
      BY <3>1, <3>2
  <2> QED
    BY <1>2, <1>4, <1>6, <2>1, <2>5, <2>6, OneChatroomMoves
<1>7. CASE outcome = "refused" \/ q.op \notin {"create", "add", "post"}
  <2>1. brBand' = brBand
    BY <1>7 DEF SdkServe
  <2> QED
    BY <1>2, <1>3, <1>7, <2>1
<1> QED
  BY <1>1, <1>5, <1>6, <1>7

\* The child serves the request under way, given up or not.
LEMMA ServesKeeps ==
  ASSUME brInv, NEW outcome, ChildServes(outcome)
  PROVE  brInv'
<1> DEFINE q == brPipe[1][2]
<1>1. /\ brPipe # <<>> /\ brPipe' = Tail(brPipe) /\ SdkServe(q, outcome)
      /\ UNCHANGED <<brMode, brRooms, brHolder, brCall>>
  BY DEF ChildServes
<1>2. brStdout' = brStdout
  BY DEF ChildServes
<1>3. brPipe = <<brPipe[1]>> /\ brOut = <<>> /\ RoomRequestOK(brBand, q)
  BY <1>1 DEF brInv, PipeOK
<1>4. brPipe' = <<>>
  BY <1>1, <1>3
<1> HIDE DEF q
<1>5. /\ BandOK' /\ \A m, r : MadeFor(brBand, m, r) => MadeFor(brBand', m, r)
      /\ \E a : brOut' = Append(brOut, a) /\ RoomReplyOK(brBand', a, q)
  BY <1>1, <1>3, ServedIsOK DEF brInv
<1>6. PICK a : brOut' = Append(brOut, a) /\ RoomReplyOK(brBand', a, q)
  BY <1>5
<1>7. brOut' = <<a>>
  BY <1>3, <1>6
<1>8. CallsOK'
  <2>1. \A s : RoomCallOK(brBand, s) => RoomCallOK(brBand', s)
    BY <1>5, StaysMade
  <2> QED
    BY <1>1, <2>1 DEF brInv, CallsOK
<1>9. HolderOK'
  BY <1>1, <1>2 DEF brInv, HolderOK
<1>10. PipeOK'
  BY <1>4, <1>7 DEF PipeOK
<1>11. LineOK'
  <2>1. brMode # "unset" /\ ~(brStdout /\ brHolder = NoRoom)
    BY <1>1 DEF brInv, LineOK
  <2>2. ASSUME NEW c \in RoomCalls
        PROVE  /\ brCall[c].at # "write"
               /\ brCall[c].at = "read" => brCall[c].request = q
    BY <1>1 DEF brInv, LineOK, q
  <2> QED
    BY <1>1, <1>2, <1>4, <1>6, <1>7, <2>1, <2>2 DEF LineOK
<1> QED
  BY <1>5, <1>8, <1>9, <1>10, <1>11 DEF brInv

\* Every step keeps the rooms, the pipes and the calls in order.
LEMMA RoomsStep == brInv /\ [brNext]_brVars => brInv'
<1> SUFFICES ASSUME brInv, [brNext]_brVars PROVE brInv'
  OBVIOUS
<1>1. ASSUME NEW m \in SpawnModes, TryRealBandRoom(m) PROVE brInv'
  BY <1>1, SpawnKeeps
<1>2. ASSUME NEW c \in RoomCalls, brCalls(c) PROVE brInv'
  <2>1. PICK op \in {"open", "post", "history", "close", "peers"}, room \in RoomIds, from \in Tenants :
          RoomAsk(c, op, room, from) \/ ScriptedCall(c, op, room, from)
    BY <1>2 DEF brCalls
  <2> QED
    BY <2>1, AskKeeps, ScriptedKeeps
<1>3. ASSUME NEW c \in RoomCalls, brStep(c) \/ BridgeWrite(c) PROVE brInv'
  BY <1>3, RemoveKeeps, TakeKeeps, WriteKeeps, AnswerKeeps, TimeoutKeeps, InsertKeeps DEF brStep
<1>4. ASSUME NEW o, ChildServes(o) PROVE brInv'
  BY <1>4, ServesKeeps
<1>5. CASE ChildExits
  BY <1>5, ExitKeeps
<1>6. CASE BridgeShutdown
  BY <1>6, ShutdownKeeps
<1>7. CASE UNCHANGED brVars
  <2>1. UNCHANGED <<brMode, brRooms, brHolder, brPipe, brOut, brBand, brCall>>
    BY <1>7 DEF brVars
  <2>2. brStdout' = brStdout
    BY <1>7 DEF brVars
  <2>3. CallsOK' /\ BandOK' /\ PipeOK'
    BY <2>1 DEF brInv, CallsOK, BandOK, PipeOK
  <2>4. HolderOK' /\ LineOK'
    BY <2>1, <2>2 DEF brInv, HolderOK, LineOK
  <2> QED
    BY <2>3, <2>4 DEF brInv
<1> QED
  BY <1>1, <1>2, <1>3, <1>4, <1>5, <1>6, <1>7 DEF brNext

\* Then no answer was taken for another's and no message went astray.
LEMMA RoomsAreSound == brInv => RoomsAreTheirOwn
<1> SUFFICES ASSUME brInv PROVE RoomsAreTheirOwn
  OBVIOUS
<1>1. \A r \in DOMAIN brRooms : brBand[brRooms[r]].room = r
  BY DEF brInv, BandOK, MadeFor
<1>2. ASSUME NEW i \in DOMAIN brBand, NEW p \in Range(brBand[i].posts)
      PROVE  p[1] = brBand[i].room
  <2>1. i \in 1..Len(brBand) /\ brBand[i] \in Chatrooms
    BY ElementOfSeq, LenProperties DEF brInv, BandOK
  <2>2. brBand[i].posts \in Seq(RoomIds \X Tenants)
    BY <2>1 DEF Chatrooms
  <2>3. PICK k \in DOMAIN brBand[i].posts : p = brBand[i].posts[k]
    BY DEF Range
  <2>4. k \in 1..Len(brBand[i].posts)
    BY <2>2, <2>3, LenProperties
  <2> QED
    BY <2>1, <2>3, <2>4 DEF brInv, BandOK
<1>3. ASSUME NEW c \in RoomCalls, brCall[c].at = "done", brCall[c].reply # NoRequest
      PROVE  /\ brCall[c].reply.op = brCall[c].request.op
             /\ brCall[c].reply.room = brCall[c].request.room
  BY <1>3 DEF brInv, CallsOK, RoomCallOK
<1> QED
  BY <1>1, <1>2, <1>3 DEF RoomsAreTheirOwn

-----------------------------------------------------------------------------
(* BandSocket                                                              *)

BandLines ==
  [event : {"connecting", "connected", "room:joined", "room:new_msg", "phx_reply", "pong",
            "shim_error", "heartbeat", "post_message", "join_room", "ping", "other"},
   ref : Nat]

HandleFields ==
  {"owner", "room", "shim", "stdin", "in", "lines", "beats", "held", "reader", "chan", "pending",
   "next", "wait", "op", "answer", "told", "observed", "received", "replies", "kept"}

HandleTyped(s, printed) ==
  /\ DOMAIN s = HandleFields
  /\ s.in \in Seq(BandLines) /\ s.lines \in Seq(BandLines)
  /\ s.chan \in Seq(BandLines) /\ s.received \in Seq(BandLines)
  /\ s.held \in BandLines \cup {NoEvent} /\ s.answer \in BandLines \cup {NoEvent}
  /\ s.next \in Nat \ {0} /\ s.observed \in Nat /\ s.replies \in Nat /\ s.kept \in Seq(Nat)
  /\ printed \in Seq(BandLines)

\* What a request was told, and what waits for it, is the reply to its ref.
RepliesMatch(s) ==
  /\ \A t \in s.told : t[1] = t[2]
  /\ s.wait # NoRef /\ s.answer # NoEvent => s.answer.ref = s.wait

HandleOK(s, printed) == HandleTyped(s, printed) /\ NothingIsLost(s, printed) /\ RepliesMatch(s)

bsInv ==
  /\ DOMAIN bsHandle = Handles /\ DOMAIN bsPrinted = Handles
  /\ \A h \in Handles : HandleOK(bsHandle[h], bsPrinted[h])

\* A line is never taken for the absence of one.
LEMMA LinesAreEvents == NoEvent \notin BandLines
BY DEF NoEvent, BandLines

\* The events of a handle: received, then queued, then held.
LEMMA EventsTyped ==
  ASSUME NEW s, NEW printed, HandleTyped(s, printed)
  PROVE  /\ Events(s) \in Seq(BandLines)
         /\ s.held = NoEvent => Events(s) = s.received \o s.chan
         /\ s.held # NoEvent => Events(s) = Append(s.received \o s.chan, s.held)
<1> DEFINE q == s.received \o s.chan
<1>1. q \in Seq(BandLines)
  BY ConcatProperties DEF HandleTyped
<1> HIDE DEF q
<1>2. CASE s.held = NoEvent
  <2>1. Events(s) = q \o <<>>
    BY <1>2 DEF Events, q
  <2> QED
    BY <1>1, <1>2, <2>1, ConcatEmptySeq DEF q
<1>3. CASE s.held # NoEvent
  <2>1. Events(s) = q \o <<s.held>> /\ s.held \in BandLines
    BY <1>3 DEF Events, q, HandleTyped
  <2>2. Events(s) = Append(q, s.held)
    BY <1>1, <2>1, AppendIsConcat
  <2> QED
    BY <1>1, <1>3, <2>1, <2>2, AppendProperties DEF q
<1> QED
  BY <1>2, <1>3

\* A handle whose lines, events and history are left alone loses nothing.
LEMMA FrameKeeps ==
  ASSUME NEW s, NEW t, NEW printed, NothingIsLost(s, printed), Events(t) = Events(s),
         t.lines = s.lines, t.observed = s.observed, t.kept = s.kept, t.replies = s.replies
  PROVE  NothingIsLost(t, printed)
BY DEF NothingIsLost

\* Moving the oldest event from the channel to the owner changes no order.
LEMMA HandOver ==
  ASSUME NEW r \in Seq(BandLines), NEW c \in Seq(BandLines), c # <<>>
  PROVE  Append(r, Head(c)) \o Tail(c) = r \o c
<1> DEFINE a == Append(r, Head(c))
           b == Tail(c)
<1>1. /\ Head(c) \in BandLines /\ b \in Seq(BandLines) /\ Len(b) = Len(c) - 1
      /\ \A i \in 1..Len(b) : b[i] = c[i + 1]
      /\ Head(c) = c[1] /\ Len(c) \in Nat /\ Len(r) \in Nat /\ Len(c) >= 1
  BY HeadTailProperties, LenProperties, EmptySeq
<1>2. /\ a \in Seq(BandLines) /\ Len(a) = Len(r) + 1
      /\ \A i \in 1..Len(r) : a[i] = r[i]
      /\ a[Len(r) + 1] = c[1]
  BY <1>1, AppendProperties
<1> HIDE DEF a, b
<1>3. /\ a \o b \in Seq(BandLines) /\ Len(a \o b) = Len(r) + Len(c)
      /\ \A i \in 1..(Len(r) + Len(c)) : (a \o b)[i] = IF i <= Len(r) + 1 THEN a[i] ELSE b[i - (Len(r) + 1)]
  <2>1. /\ a \o b \in Seq(BandLines) /\ Len(a \o b) = Len(a) + Len(b)
        /\ \A i \in 1..(Len(a) + Len(b)) : (a \o b)[i] = IF i <= Len(a) THEN a[i] ELSE b[i - Len(a)]
    BY <1>1, <1>2, ConcatProperties, ZenonT(60)
  <2>2. Len(a) + Len(b) = Len(r) + Len(c)
    BY <1>1, <1>2
  <2> QED
    BY <1>2, <2>1, <2>2
<1>4. /\ r \o c \in Seq(BandLines) /\ Len(r \o c) = Len(r) + Len(c)
      /\ \A i \in 1..(Len(r) + Len(c)) : (r \o c)[i] = IF i <= Len(r) THEN r[i] ELSE c[i - Len(r)]
  BY ConcatProperties
<1>5. ASSUME NEW i \in 1..(Len(r) + Len(c)) PROVE (a \o b)[i] = (r \o c)[i]
  <2>1. CASE i <= Len(r)
    BY <1>1, <1>2, <1>3, <1>4, <2>1
  <2>2. CASE i = Len(r) + 1
    BY <1>1, <1>2, <1>3, <1>4, <2>2
  <2>3. CASE i > Len(r) + 1
    <3>1. i - (Len(r) + 1) \in 1..Len(b) /\ (i - (Len(r) + 1)) + 1 = i - Len(r)
      BY <1>1, <2>3
    <3>2. b[i - (Len(r) + 1)] = c[i - Len(r)]
      BY <1>1, <3>1
    <3>3. ~(i <= Len(r)) /\ ~(i <= Len(r) + 1)
      BY <1>1, <2>3
    <3>4. (a \o b)[i] = b[i - (Len(r) + 1)]
      BY <1>3, <3>3
    <3>5. (r \o c)[i] = c[i - Len(r)]
      BY <1>4, <3>3
    <3> QED
      BY <3>2, <3>4, <3>5
  <2>4. i <= Len(r) \/ i = Len(r) + 1 \/ i > Len(r) + 1
    BY <1>1
  <2> QED
    BY <2>1, <2>2, <2>3, <2>4
<1>6. a \o b = r \o c
  BY <1>3, <1>4, <1>5, SeqEqual
<1> QED
  BY <1>6 DEF a, b

\* New lines are printed: they come after all others, unread.
LEMMA PrintKeeps ==
  ASSUME NEW s, NEW t, NEW printed, NEW new \in Seq(BandLines),
         HandleTyped(s, printed), NothingIsLost(s, printed), Events(t) = Events(s),
         t.lines = s.lines \o new, t.observed = s.observed, t.kept = s.kept, t.replies = s.replies
  PROVE  NothingIsLost(t, printed \o new) /\ printed \o new \in Seq(BandLines) /\ t.lines \in Seq(BandLines)
<1> DEFINE n == s.observed
           p == printed \o new
           m == Len(s.lines)
<1>1. /\ n \in Nat /\ m \in Nat /\ Len(new) \in Nat /\ Len(printed) = n + m
      /\ DOMAIN s.lines = 1..m /\ s.kept \in Seq(Nat)
  BY LenProperties DEF HandleTyped, NothingIsLost
<1>2. /\ p \in Seq(BandLines) /\ Len(p) = n + m + Len(new)
      /\ \A i \in 1..(n + m + Len(new)) : p[i] = IF i <= n + m THEN printed[i] ELSE new[i - (n + m)]
  <2>1. /\ p \in Seq(BandLines) /\ Len(p) = Len(printed) + Len(new)
        /\ \A i \in 1..(Len(printed) + Len(new)) :
             p[i] = IF i <= Len(printed) THEN printed[i] ELSE new[i - Len(printed)]
    BY ConcatProperties DEF HandleTyped
  <2> QED
    BY <1>1, <2>1
<1>3. /\ t.lines \in Seq(BandLines) /\ Len(t.lines) = m + Len(new) /\ DOMAIN t.lines = 1..(m + Len(new))
      /\ \A i \in 1..(m + Len(new)) : t.lines[i] = IF i <= m THEN s.lines[i] ELSE new[i - m]
  BY <1>1, ConcatProperties, LenProperties DEF HandleTyped
<1> HIDE DEF p, n, m
<1>4. \A k \in 1..n : p[k] = printed[k]
  BY <1>1, <1>2
<1>5. ASSUME NEW i \in DOMAIN t.lines PROVE t.lines[i] = p[n + i]
  <2>1. i \in 1..(m + Len(new)) /\ n + i \in 1..(n + m + Len(new))
    BY <1>1, <1>3
  <2>2. CASE i <= m
    <3>1. s.lines[i] = printed[n + i]
      BY <1>1, <2>1, <2>2 DEF NothingIsLost, n
    <3> QED
      BY <1>1, <1>2, <1>3, <2>1, <2>2, <3>1
  <2>3. CASE i > m
    <3>1. (n + i) - (n + m) = i - m /\ ~(n + i <= n + m) /\ ~(i <= m)
      BY <1>1, <2>1, <2>3, SMTT(60)
    <3> QED
      BY <1>2, <1>3, <2>1, <3>1
  <2> QED
    BY <1>1, <2>1, <2>2, <2>3
<1>6. \A i \in DOMAIN s.kept :
        /\ s.kept[i] \in 1..n /\ Events(s)[i] = p[s.kept[i]]
        /\ \A j \in 1..(i - 1) : s.kept[j] < s.kept[i]
  BY <1>4 DEF NothingIsLost, n
<1>7. \A k \in 1..n : (\E i \in DOMAIN s.kept : s.kept[i] = k) \/ p[k].event = "phx_reply"
  BY <1>4 DEF NothingIsLost, n
<1>8. Len(p) = n + Len(t.lines)
  BY <1>1, <1>2, <1>3
<1>9. Len(s.kept) = Len(Events(s)) /\ Len(s.kept) + s.replies = n
  BY DEF NothingIsLost, n
<1>10. NothingIsLost(t, p)
  BY <1>5, <1>6, <1>7, <1>8, <1>9, SMTT(60) DEF NothingIsLost, n
<1> QED
  BY <1>2, <1>3, <1>10 DEF p

\* The reader takes the first unread line: as an event, or as the reply to a
\* request.
LEMMA ReadKeeps ==
  ASSUME NEW s, NEW t, NEW printed, HandleTyped(s, printed), NothingIsLost(s, printed),
         s.held = NoEvent, s.lines # <<>>, HandleTyped(t, printed),
         t.received = s.received, t.chan = s.chan,
         t.lines = Tail(s.lines), t.observed = s.observed + 1,
         \/ /\ Head(s.lines).event = "phx_reply"
            /\ t.held = NoEvent /\ t.kept = s.kept /\ t.replies = s.replies + 1
         \/ /\ t.held = Head(s.lines) /\ t.kept = Append(s.kept, s.observed + 1)
            /\ t.replies = s.replies
  PROVE  NothingIsLost(t, printed)
<1> DEFINE n == s.observed
           m == Len(s.lines)
           e == Events(s)
           k == s.kept
           l == Head(s.lines)
<1>1. /\ n \in Nat /\ m \in Nat /\ m >= 1 /\ Len(printed) = n + m /\ DOMAIN s.lines = 1..m
      /\ k \in Seq(Nat) /\ Len(k) \in Nat /\ DOMAIN k = 1..Len(k) /\ s.replies \in Nat
  BY LenProperties, EmptySeq DEF HandleTyped, NothingIsLost
<1>2. /\ l \in BandLines /\ l = printed[n + 1]
      /\ Tail(s.lines) \in Seq(BandLines) /\ Len(Tail(s.lines)) = m - 1
      /\ DOMAIN Tail(s.lines) = 1..(m - 1)
      /\ \A i \in 1..(m - 1) : Tail(s.lines)[i] = s.lines[i + 1]
  <2>1. /\ l \in BandLines /\ l = s.lines[1]
        /\ Tail(s.lines) \in Seq(BandLines) /\ Len(Tail(s.lines)) = m - 1
        /\ \A i \in 1..(m - 1) : Tail(s.lines)[i] = s.lines[i + 1]
    BY HeadTailProperties DEF HandleTyped
  <2>2. DOMAIN Tail(s.lines) = 1..(m - 1)
    BY <2>1, LenProperties
  <2>3. s.lines[1] = printed[n + 1]
    <3>1. 1 \in DOMAIN s.lines
      BY <1>1
    <3> QED
      BY <3>1 DEF NothingIsLost
  <2> QED
    BY <2>1, <2>2, <2>3
<1>3. Events(s) = s.received \o s.chan /\ e \in Seq(BandLines)
  BY EventsTyped
<1>4. /\ Len(k) = Len(e) /\ Len(k) + s.replies = n
      /\ \A i \in 1..Len(k) :
           /\ k[i] \in 1..n /\ e[i] = printed[k[i]]
           /\ \A j \in 1..(i - 1) : k[j] < k[i]
      /\ \A x \in 1..n : (\E i \in 1..Len(k) : k[i] = x) \/ printed[x].event = "phx_reply"
  BY <1>1 DEF NothingIsLost
<1>5. /\ Len(printed) = t.observed + Len(t.lines)
      /\ \A i \in DOMAIN t.lines : t.lines[i] = printed[t.observed + i]
  <2>1. Len(printed) = t.observed + Len(t.lines)
    BY <1>1, <1>2
  <2>2. ASSUME NEW i \in DOMAIN t.lines PROVE t.lines[i] = printed[t.observed + i]
    <3>0. i \in 1..(m - 1)
      BY <1>2
    <3> HIDE DEF n, m
    <3>1. i + 1 \in 1..m /\ (n + 1) + i = n + (i + 1)
      BY <1>1, <3>0, SMTT(60)
    <3>2. s.lines[i + 1] = printed[n + (i + 1)]
      BY <1>1, <3>1 DEF NothingIsLost, n
    <3> QED
      BY <1>2, <3>0, <3>1, <3>2 DEF n
  <2> QED
    BY <2>1, <2>2
<1> HIDE DEF n, m, e, k, l
<1>6. CASE l.event = "phx_reply" /\ t.held = NoEvent /\ t.kept = k /\ t.replies = s.replies + 1
  <2>1. Events(t) = e
    BY <1>3, <1>6, EventsTyped DEF e
  <2>2. \A i \in 1..Len(k) : k[i] \in 1..(n + 1)
    BY <1>1, <1>4
  <2>3. ASSUME NEW x \in 1..(n + 1)
        PROVE  (\E i \in 1..Len(k) : k[i] = x) \/ printed[x].event = "phx_reply"
    <3>1. x \in 1..n \/ x = n + 1
      BY <1>1
    <3> QED
      BY <1>2, <1>4, <1>6, <3>1
  <2>4. Len(k) + t.replies = n + 1
    <3>1. Len(k) + (s.replies + 1) = (Len(k) + s.replies) + 1
      BY <1>1, SMTT(60)
    <3> QED
      BY <1>4, <1>6, <3>1
  <2>5. t.observed = n + 1 /\ t.kept = k /\ DOMAIN k = 1..Len(k)
    BY <1>1, <1>6, ZenonT(60) DEF n
  <2> QED
    BY <1>4, <1>5, <2>1, <2>2, <2>3, <2>4, <2>5, ZenonT(60) DEF NothingIsLost
<1>7. CASE t.held = l /\ t.kept = Append(k, n + 1) /\ t.replies = s.replies
  <2> DEFINE f == Append(e, l)
             c == Append(k, n + 1)
  <2>1. Events(t) = f
    <3>1. t.held # NoEvent
      BY <1>2, <1>7, LinesAreEvents
    <3> QED
      BY <1>3, <1>7, <3>1, EventsTyped DEF e
  <2>2. /\ Len(f) = Len(k) + 1 /\ f[Len(k) + 1] = l
        /\ \A i \in 1..Len(k) : f[i] = e[i]
    BY <1>2, <1>3, <1>4, AppendProperties
  <2>3. /\ c \in Seq(Nat) /\ Len(c) = Len(k) + 1 /\ c[Len(k) + 1] = n + 1 /\ DOMAIN c = 1..(Len(k) + 1)
        /\ \A i \in 1..Len(k) : c[i] = k[i]
    <3>1. n + 1 \in Nat
      BY <1>1
    <3>2. /\ c \in Seq(Nat) /\ Len(c) = Len(k) + 1 /\ c[Len(k) + 1] = n + 1
          /\ \A i \in 1..Len(k) : c[i] = k[i]
      BY <1>1, <3>1, AppendProperties
    <3> QED
      BY <3>2, LenProperties
  <2> HIDE DEF f, c
  <2>4. ASSUME NEW i \in 1..(Len(k) + 1)
        PROVE  /\ c[i] \in 1..(n + 1) /\ f[i] = printed[c[i]]
               /\ \A j \in 1..(i - 1) : c[j] < c[i]
    <3>1. CASE i \in 1..Len(k)
      <4>1. k[i] \in 1..n /\ f[i] = printed[k[i]] /\ c[i] = k[i]
        BY <1>4, <2>2, <2>3, <3>1
      <4>2. ASSUME NEW j \in 1..(i - 1) PROVE c[j] < c[i]
        <5>1. j \in 1..Len(k)
          BY <1>1, <3>1
        <5> QED
          BY <1>4, <2>3, <3>1, <4>1, <5>1
      <4> QED
        BY <1>1, <4>1, <4>2
    <3>2. CASE i = Len(k) + 1
      <4>1. c[i] = n + 1 /\ f[i] = printed[n + 1]
        BY <1>2, <2>2, <2>3, <3>2
      <4>2. ASSUME NEW j \in 1..(i - 1) PROVE c[j] < c[i]
        <5>1. j \in 1..Len(k)
          BY <1>1, <3>2
        <5>2. c[j] \in 1..n
          BY <1>4, <2>3, <5>1
        <5> QED
          BY <1>1, <4>1, <5>2
      <4> QED
        BY <1>1, <4>1, <4>2
    <3> QED
      BY <1>1, <3>1, <3>2
  <2>5. ASSUME NEW x \in 1..(n + 1)
        PROVE  (\E i \in 1..(Len(k) + 1) : c[i] = x) \/ printed[x].event = "phx_reply"
    <3>1. CASE x = n + 1
      <4>1. Len(k) + 1 \in 1..(Len(k) + 1)
        BY <1>1
      <4> QED
        BY <2>3, <3>1, <4>1
    <3>2. CASE x \in 1..n
      <4>1. CASE \E i \in 1..Len(k) : k[i] = x
        <5> PICK i \in 1..Len(k) : k[i] = x
          BY <4>1
        <5>1. i \in 1..(Len(k) + 1)
          BY <1>1
        <5> QED
          BY <2>3, <5>1
      <4> QED
        BY <1>4, <3>2, <4>1
    <3> QED
      BY <1>1, <3>1, <3>2
  <2>6. (Len(k) + 1) + t.replies = n + 1
    <3>1. \A x, y \in Nat : (x + 1) + y = (x + y) + 1
      OBVIOUS
    <3> QED
      BY <1>1, <1>4, <1>7, <3>1
  <2>7. t.observed = n + 1 /\ t.kept = c
    BY <1>7 DEF n, c
  <2> QED
    BY <1>5, <2>1, <2>2, <2>3, <2>4, <2>5, <2>6, <2>7 DEF NothingIsLost
<1> QED
  BY <1>6, <1>7 DEF n, k, l

\* What a shim prints is lines.
LEMMA ShimsPrintLines ==
  /\ \A cmd \in BandLines : ShimAnswer(cmd) \in Seq(BandLines)
  /\ Greeting \in Seq(BandLines)
  /\ \A op \in {"post_message", "join_room", "ping", "other"}, n \in Nat : Line(op, n) \in BandLines
  /\ Line("heartbeat", NoRef) \in BandLines
<1>2. \A x, y \in BandLines : <<x>> \in Seq(BandLines) /\ <<x, y>> \in Seq(BandLines)
  OBVIOUS
<1>3. NoRef \in Nat
  BY DEF NoRef
<1>4. ASSUME NEW cmd \in BandLines PROVE ShimAnswer(cmd) \in Seq(BandLines)
  <2>1. cmd.ref \in Nat
    BY DEF BandLines
  <2>2. /\ Line("room:new_msg", cmd.ref) \in BandLines /\ Line("phx_reply", cmd.ref) \in BandLines
        /\ Line("room:joined", NoRef) \in BandLines /\ Line("pong", cmd.ref) \in BandLines
        /\ Line("shim_error", cmd.ref) \in BandLines
    BY <1>3, <2>1 DEF Line, BandLines
  <2>3. \/ ShimAnswer(cmd) = <<Line("room:new_msg", cmd.ref), Line("phx_reply", cmd.ref)>>
        \/ ShimAnswer(cmd) = <<Line("room:joined", NoRef), Line("phx_reply", cmd.ref)>>
        \/ ShimAnswer(cmd) = <<Line("pong", cmd.ref)>>
        \/ ShimAnswer(cmd) = <<Line("shim_error", cmd.ref)>>
    BY DEF ShimAnswer
  <2> QED
    BY <1>2, <2>2, <2>3
<1>5. Greeting \in Seq(BandLines)
  <2>1. /\ Line("connecting", NoRef) \in BandLines /\ Line("connected", NoRef) \in BandLines
        /\ Line("room:joined", NoRef) \in BandLines
    BY <1>3 DEF Line, BandLines
  <2> QED
    BY <2>1 DEF Greeting
<1>6. \A op \in {"post_message", "join_room", "ping", "other"}, n \in Nat : Line(op, n) \in BandLines
  BY DEF Line, BandLines
<1>7. Line("heartbeat", NoRef) \in BandLines
  BY <1>3 DEF Line, BandLines
<1> QED
  BY <1>4, <1>5, <1>6, <1>7

\* A handle starts with the greeting of its shim, unread.
LEMMA SpawnedIsOK ==
  ASSUME NEW owner, NEW room PROVE HandleOK(SpawnedHandle(owner, room), Greeting)
<1> DEFINE s == SpawnedHandle(owner, room)
<1>1. /\ DOMAIN s = HandleFields /\ s.in = <<>> /\ s.lines = Greeting /\ s.chan = <<>>
      /\ s.received = <<>> /\ s.held = NoEvent /\ s.answer = NoEvent /\ s.next = 1
      /\ s.observed = 0 /\ s.replies = 0 /\ s.kept = <<>> /\ s.told = {} /\ s.wait = NoRef
  BY DEF SpawnedHandle, NotSpawned, HandleFields
<1> HIDE DEF s
<1>2. HandleTyped(s, Greeting)
  BY <1>1, ShimsPrintLines DEF HandleTyped
<1>3. Events(s) = <<>>
  <2>1. Events(s) = (<<>> \o <<>>) \o <<>>
    BY <1>1 DEF Events
  <2> QED
    BY <2>1
<1>4. NothingIsLost(s, Greeting)
  <2>1. Len(Greeting) \in Nat /\ DOMAIN Greeting = 1..Len(Greeting)
    BY ShimsPrintLines, LenProperties
  <2> QED
    BY <1>1, <1>3, <2>1 DEF NothingIsLost
<1>5. RepliesMatch(s)
  BY <1>1 DEF RepliesMatch
<1> QED
  BY <1>2, <1>4, <1>5 DEF HandleOK, s

\* No shim is spawned and no line printed.
LEMMA SocketsStart == bsInit => bsInv
<1> SUFFICES ASSUME bsInit PROVE bsInv
  OBVIOUS
<1> DEFINE s == NotSpawned
<1>1. /\ DOMAIN s = HandleFields /\ s.in = <<>> /\ s.lines = <<>> /\ s.chan = <<>>
      /\ s.received = <<>> /\ s.held = NoEvent /\ s.answer = NoEvent /\ s.next = 1
      /\ s.observed = 0 /\ s.replies = 0 /\ s.kept = <<>> /\ s.told = {} /\ s.wait = NoRef
  BY DEF NotSpawned, HandleFields
<1>a. bsHandle = [h \in Handles |-> s] /\ bsPrinted = [h \in Handles |-> <<>>]
  BY DEF bsInit
<1> HIDE DEF s
<1>2. HandleTyped(s, <<>>)
  BY <1>1 DEF HandleTyped
<1>3. Events(s) = <<>>
  <2>1. Events(s) = (<<>> \o <<>>) \o <<>>
    BY <1>1 DEF Events
  <2> QED
    BY <2>1
<1>4. NothingIsLost(s, <<>>)
  BY <1>1, <1>3 DEF NothingIsLost
<1>5. RepliesMatch(s)
  BY <1>1 DEF RepliesMatch
<1>6. HandleOK(s, <<>>)
  BY <1>2, <1>4, <1>5 DEF HandleOK
<1> QED
  BY <1>a, <1>6 DEF bsInv

\* A step on one handle leaves the others sound.
LEMMA OneHandleMoves ==
  ASSUME bsInv, NEW h \in Handles, NEW t, NEW printed, HandleOK(t, printed),
         bsHandle' = [bsHandle EXCEPT ![h] = t],
         \/ UNCHANGED bsPrinted /\ printed = bsPrinted[h]
         \/ bsPrinted' = [bsPrinted EXCEPT ![h] = printed]
  PROVE  bsInv'
<1>1. DOMAIN bsHandle' = Handles /\ DOMAIN bsPrinted' = Handles
  BY DEF bsInv
<1>2. \A g \in Handles : HandleOK(bsHandle'[g], bsPrinted'[g])
  BY DEF bsInv
<1> QED
  BY <1>1, <1>2 DEF bsInv

\* The steps of a caller keep every handle sound.
LEMMA CallerKeeps ==
  ASSUME bsInv, NEW h \in Handles,
         \/ \E op \in {"post_message", "join_room", "ping", "other"} : SendRequest(h, op)
         \/ RequestAnswered(h) \/ RequestTimesOut(h) \/ ShutdownHandle(h)
  PROVE  bsInv'
<1> DEFINE s == bsHandle[h]
           q == bsPrinted[h]
<1>0. HandleOK(s, q)
  BY DEF bsInv
<1>f. DOMAIN s = HandleFields
  BY <1>0 DEF HandleOK, HandleTyped
<1>1. ASSUME NEW t, DOMAIN t = HandleFields, t.in \in Seq(BandLines), t.next \in Nat \ {0},
             t.lines = s.lines, t.chan = s.chan, t.received = s.received, t.held = s.held,
             t.observed = s.observed, t.kept = s.kept, t.replies = s.replies,
             t.answer \in {s.answer, NoEvent}, RepliesMatch(t)
      PROVE  HandleOK(t, q)
  <2>1. HandleTyped(t, q)
    BY <1>0, <1>1 DEF HandleOK, HandleTyped
  <2>2. Events(t) = Events(s)
    BY <1>1 DEF Events
  <2>3. NothingIsLost(t, q)
    BY <1>0, <1>1, <2>2, FrameKeeps DEF HandleOK
  <2> QED
    BY <1>1, <2>1, <2>3 DEF HandleOK
<1>2. ASSUME NEW t, HandleOK(t, q), Update(h, t), UNCHANGED bsPrinted
      PROVE  bsInv'
  BY <1>2, OneHandleMoves DEF Update
<1>t. s.in \in Seq(BandLines) /\ s.next \in Nat \ {0} /\ RepliesMatch(s)
  BY <1>0 DEF HandleOK, HandleTyped
<1>3. CASE \E op \in {"post_message", "join_room", "ping", "other"} : SendRequest(h, op)
  <2> PICK op \in {"post_message", "join_room", "ping", "other"} : SendRequest(h, op)
    BY <1>3
  <2>1. CASE s.stdin /\ s.shim = "up"
    <3> DEFINE t == [s EXCEPT !.pending = @ \cup {s.next}, !.next = @ + 1, !.wait = s.next,
                              !.op = op, !.answer = NoEvent, !.in = Append(@, Line(op, s.next))]
    <3>1. /\ DOMAIN t = HandleFields /\ t.in = Append(s.in, Line(op, s.next)) /\ t.next = s.next + 1
          /\ t.lines = s.lines /\ t.chan = s.chan /\ t.received = s.received /\ t.held = s.held
          /\ t.observed = s.observed /\ t.kept = s.kept /\ t.replies = s.replies
          /\ t.answer = NoEvent /\ t.told = s.told
      BY <1>f DEF HandleFields
    <3>2. Update(h, t) /\ UNCHANGED bsPrinted
      BY <2>1 DEF SendRequest
    <3> HIDE DEF t
    <3>3. t.in \in Seq(BandLines) /\ t.next \in Nat \ {0}
      <4>1. s.next \in Nat
        BY <1>t
      <4>2. Line(op, s.next) \in BandLines
        BY <4>1, ShimsPrintLines
      <4>3. t.in \in Seq(BandLines)
        BY <1>t, <3>1, <4>2, AppendProperties
      <4> QED
        BY <1>t, <3>1, <4>3
    <3>4. RepliesMatch(t)
      BY <1>t, <3>1 DEF RepliesMatch
    <3> QED
      BY <1>1, <1>2, <3>1, <3>2, <3>3, <3>4
  <2>2. CASE ~(s.stdin /\ s.shim = "up")
    <3> DEFINE t == [s EXCEPT !.pending = @ \cup {s.next}, !.next = @ + 1, !.stdin = FALSE]
    <3>1. /\ DOMAIN t = HandleFields /\ t.in = s.in /\ t.next = s.next + 1
          /\ t.lines = s.lines /\ t.chan = s.chan /\ t.received = s.received /\ t.held = s.held
          /\ t.observed = s.observed /\ t.kept = s.kept /\ t.replies = s.replies
          /\ t.answer = s.answer /\ t.told = s.told /\ t.wait = s.wait
      BY <1>f DEF HandleFields
    <3>2. Update(h, t) /\ UNCHANGED bsPrinted
      BY <2>2 DEF SendRequest
    <3> HIDE DEF t
    <3>3. t.next \in Nat \ {0}
      BY <1>t, <3>1
    <3>4. RepliesMatch(t)
      BY <1>t, <3>1 DEF RepliesMatch
    <3> QED
      BY <1>1, <1>2, <1>t, <3>1, <3>2, <3>3, <3>4
  <2> QED
    BY <2>1, <2>2
<1>4. CASE RequestAnswered(h)
  <2> DEFINE t == [s EXCEPT !.pending = @ \ {s.wait}, !.wait = NoRef,
                            !.told = @ \cup {<<s.wait, s.answer.ref, ResultOf(s.op, s.answer)>>}]
  <2>1. /\ DOMAIN t = HandleFields /\ t.in = s.in /\ t.next = s.next
        /\ t.lines = s.lines /\ t.chan = s.chan /\ t.received = s.received /\ t.held = s.held
        /\ t.observed = s.observed /\ t.kept = s.kept /\ t.replies = s.replies
        /\ t.answer = s.answer /\ t.wait = NoRef
        /\ t.told = s.told \cup {<<s.wait, s.answer.ref, ResultOf(s.op, s.answer)>>}
    BY <1>f DEF HandleFields
  <2>2. Update(h, t) /\ UNCHANGED bsPrinted /\ s.wait # NoRef /\ s.answer # NoEvent
    BY <1>4 DEF RequestAnswered
  <2> HIDE DEF t
  <2>3. RepliesMatch(t)
    BY <1>t, <2>1, <2>2 DEF RepliesMatch
  <2> QED
    BY <1>1, <1>2, <1>t, <2>1, <2>2, <2>3
<1>5. CASE RequestTimesOut(h)
  <2> DEFINE t == [s EXCEPT !.pending = @ \ {s.wait}, !.wait = NoRef]
  <2>1. /\ DOMAIN t = HandleFields /\ t.in = s.in /\ t.next = s.next
        /\ t.lines = s.lines /\ t.chan = s.chan /\ t.received = s.received /\ t.held = s.held
        /\ t.observed = s.observed /\ t.kept = s.kept /\ t.replies = s.replies
        /\ t.answer = s.answer /\ t.wait = NoRef /\ t.told = s.told
    BY <1>f DEF HandleFields
  <2>2. Update(h, t) /\ UNCHANGED bsPrinted
    BY <1>5 DEF RequestTimesOut
  <2> HIDE DEF t
  <2>3. RepliesMatch(t)
    BY <1>t, <2>1 DEF RepliesMatch
  <2> QED
    BY <1>1, <1>2, <1>t, <2>1, <2>2, <2>3
<1>6. CASE ShutdownHandle(h)
  <2> DEFINE t == [s EXCEPT !.stdin = FALSE, !.shim = "dropped", !.in = <<>>, !.owner = "gone"]
  <2>1. /\ DOMAIN t = HandleFields /\ t.in = <<>> /\ t.next = s.next
        /\ t.lines = s.lines /\ t.chan = s.chan /\ t.received = s.received /\ t.held = s.held
        /\ t.observed = s.observed /\ t.kept = s.kept /\ t.replies = s.replies
        /\ t.answer = s.answer /\ t.wait = s.wait /\ t.told = s.told
    BY <1>f DEF HandleFields
  <2>2. Update(h, t) /\ UNCHANGED bsPrinted
    BY <1>6 DEF ShutdownHandle
  <2> HIDE DEF t
  <2>3. RepliesMatch(t)
    BY <1>t, <2>1 DEF RepliesMatch
  <2>4. t.in \in Seq(BandLines)
    BY <2>1
  <2> QED
    BY <1>1, <1>2, <1>t, <2>1, <2>2, <2>3, <2>4
<1> QED
  BY <1>3, <1>4, <1>5, <1>6

\* The steps of the reader and of the owner who receives keep every handle
\* sound.
LEMMA ReaderKeeps ==
  ASSUME bsInv, NEW h \in Handles,
         RecvEvent(h) \/ ReadLine(h) \/ PushEvent(h) \/ ReaderEnds(h)
  PROVE  bsInv'
<1> DEFINE s == bsHandle[h]
           q == bsPrinted[h]
<1>0. HandleOK(s, q)
  BY DEF bsInv
<1>1. HandleTyped(s, q) /\ NothingIsLost(s, q) /\ RepliesMatch(s) /\ DOMAIN s = HandleFields
  BY <1>0 DEF HandleOK, HandleTyped
<1>2. CASE RecvEvent(h)
  <2> DEFINE t == [s EXCEPT !.chan = Tail(@), !.received = Append(@, Head(s.chan))]
  <2>1. /\ DOMAIN t = HandleFields /\ t.in = s.in /\ t.next = s.next /\ t.lines = s.lines
        /\ t.chan = Tail(s.chan) /\ t.received = Append(s.received, Head(s.chan)) /\ t.held = s.held
        /\ t.observed = s.observed /\ t.kept = s.kept /\ t.replies = s.replies
        /\ t.answer = s.answer /\ t.wait = s.wait /\ t.told = s.told
    BY <1>1 DEF HandleFields
  <2>2. bsHandle' = [bsHandle EXCEPT ![h] = t] /\ UNCHANGED bsPrinted /\ s.chan # <<>>
    BY <1>2 DEF RecvEvent, bsInv
  <2> HIDE DEF t
  <2>3. t.chan \in Seq(BandLines) /\ t.received \in Seq(BandLines)
    <3>1. s.chan \in Seq(BandLines) /\ s.received \in Seq(BandLines)
      BY <1>1 DEF HandleTyped
    <3>2. Head(s.chan) \in BandLines /\ Tail(s.chan) \in Seq(BandLines)
      BY <2>2, <3>1, HeadTailProperties
    <3> QED
      BY <2>1, <3>1, <3>2, AppendProperties
  <2>4. HandleTyped(t, q)
    BY <1>1, <2>1, <2>3 DEF HandleTyped
  <2>5. t.received \o t.chan = s.received \o s.chan
    BY <1>1, <2>1, <2>2, HandOver, ZenonT(60) DEF HandleTyped
  <2>6. Events(t) = Events(s)
    BY <2>1, <2>5 DEF Events
  <2>7. NothingIsLost(t, q)
    BY <1>1, <2>1, <2>6, FrameKeeps
  <2>8. RepliesMatch(t)
    BY <1>1, <2>1 DEF RepliesMatch
  <2> QED
    BY <2>2, <2>4, <2>7, <2>8, OneHandleMoves DEF HandleOK
<1>3. CASE ReadLine(h)
  <2> DEFINE l == Head(s.lines)
             s1 == [s EXCEPT !.lines = Tail(@), !.observed = @ + 1]
  <2>0. s.held = NoEvent /\ s.lines # <<>> /\ UNCHANGED bsPrinted
    BY <1>3 DEF ReadLine
  <2>1. /\ l \in BandLines /\ Tail(s.lines) \in Seq(BandLines) /\ s.lines \in Seq(BandLines)
        /\ s.observed \in Nat /\ s.replies \in Nat /\ s.kept \in Seq(Nat)
    BY <1>1, <2>0, HeadTailProperties DEF HandleTyped
  <2>2. CASE l.event = "phx_reply" /\ l.ref \in s.pending
    <3> DEFINE t == [s1 EXCEPT !.pending = @ \ {l.ref}, !.replies = @ + 1,
                               !.answer = IF l.ref = s.wait THEN l ELSE @]
    <3>1. /\ DOMAIN t = HandleFields /\ t.in = s.in /\ t.next = s.next /\ t.lines = Tail(s.lines)
          /\ t.chan = s.chan /\ t.received = s.received /\ t.held = s.held
          /\ t.observed = s.observed + 1 /\ t.kept = s.kept /\ t.replies = s.replies + 1
          /\ t.answer = (IF l.ref = s.wait THEN l ELSE s.answer) /\ t.wait = s.wait /\ t.told = s.told
      BY <1>1 DEF HandleFields
    <3>2. bsHandle' = [bsHandle EXCEPT ![h] = t]
      BY <1>3, <2>2 DEF ReadLine, Update
    <3> HIDE DEF t
    <3>3. HandleTyped(t, q)
      <4>1. t.answer \in BandLines \cup {NoEvent}
        BY <1>1, <2>1, <3>1 DEF HandleTyped
      <4>2. s.observed + 1 \in Nat /\ s.replies + 1 \in Nat
        BY <1>1, SMTT(60) DEF HandleTyped
      <4> QED
        BY <1>1, <2>1, <3>1, <4>1, <4>2, SMTT(60) DEF HandleTyped
    <3>4. NothingIsLost(t, q)
      BY <1>1, <2>0, <2>2, <3>1, <3>3, ReadKeeps
    <3>5. RepliesMatch(t)
      BY <1>1, <3>1 DEF RepliesMatch
    <3> QED
      BY <2>0, <3>2, <3>3, <3>4, <3>5, OneHandleMoves DEF HandleOK
  <2>3. CASE ~(l.event = "phx_reply" /\ l.ref \in s.pending)
    <3> DEFINE t == [s1 EXCEPT !.held = l, !.kept = Append(@, s.observed + 1)]
    <3>1. /\ DOMAIN t = HandleFields /\ t.in = s.in /\ t.next = s.next /\ t.lines = Tail(s.lines)
          /\ t.chan = s.chan /\ t.received = s.received /\ t.held = l
          /\ t.observed = s.observed + 1 /\ t.kept = Append(s.kept, s.observed + 1)
          /\ t.replies = s.replies /\ t.answer = s.answer /\ t.wait = s.wait /\ t.told = s.told
      BY <1>1 DEF HandleFields
    <3>2. bsHandle' = [bsHandle EXCEPT ![h] = t]
      BY <1>3, <2>3 DEF ReadLine, Update
    <3> HIDE DEF t
    <3>a. s.observed + 1 \in Nat
      BY <2>1
    <3>b. t.kept \in Seq(Nat)
      BY <2>1, <3>1, <3>a, AppendProperties
    <3>3. HandleTyped(t, q)
      BY <1>1, <2>1, <3>1, <3>a, <3>b DEF HandleTyped
    <3>4. NothingIsLost(t, q)
      BY <1>1, <2>0, <3>1, <3>3, ReadKeeps
    <3>5. RepliesMatch(t)
      BY <1>1, <3>1 DEF RepliesMatch
    <3> QED
      BY <2>0, <3>2, <3>3, <3>4, <3>5, OneHandleMoves DEF HandleOK
  <2> QED
    BY <2>2, <2>3
<1>4. CASE PushEvent(h)
  <2> DEFINE t == [s EXCEPT !.held = NoEvent, !.chan = Append(@, s.held)]
  <2>1. /\ DOMAIN t = HandleFields /\ t.in = s.in /\ t.next = s.next /\ t.lines = s.lines
        /\ t.chan = Append(s.chan, s.held) /\ t.received = s.received /\ t.held = NoEvent
        /\ t.observed = s.observed /\ t.kept = s.kept /\ t.replies = s.replies
        /\ t.answer = s.answer /\ t.wait = s.wait /\ t.told = s.told
    BY <1>1 DEF HandleFields
  <2>2. bsHandle' = [bsHandle EXCEPT ![h] = t] /\ UNCHANGED bsPrinted /\ s.held # NoEvent
    BY <1>4 DEF PushEvent, Update
  <2> HIDE DEF t
  <2>3. s.chan \in Seq(BandLines) /\ s.received \in Seq(BandLines) /\ s.held \in BandLines
    BY <1>1, <2>2 DEF HandleTyped
  <2>4. HandleTyped(t, q)
    <3>1. t.chan \in Seq(BandLines)
      BY <2>1, <2>3, AppendProperties
    <3> QED
      BY <1>1, <2>1, <3>1 DEF HandleTyped
  <2>5. Events(t) = Events(s)
    <3>1. /\ t.chan = s.chan \o <<s.held>> /\ <<s.held>> \in Seq(BandLines)
          /\ s.received \o s.chan \in Seq(BandLines)
      BY <2>1, <2>3, AppendIsConcat, ConcatProperties, SMTT(60)
    <3>a. \A u, v, w \in Seq(BandLines) : (u \o v) \o w = u \o (v \o w)
      BY ConcatAssociative, SMTT(60)
    <3>b. (s.received \o s.chan) \o <<s.held>> = s.received \o (s.chan \o <<s.held>>)
      BY <2>3, <3>1, <3>a, ZenonT(60)
    <3>2. t.received \o t.chan = (s.received \o s.chan) \o <<s.held>>
      BY <2>1, <3>1, <3>b, ZenonT(60)
    <3>3. Events(t) = t.received \o t.chan
      BY <2>1, <2>4, EventsTyped
    <3>4. Events(s) = (s.received \o s.chan) \o <<s.held>>
      BY <2>2 DEF Events
    <3> QED
      BY <3>2, <3>3, <3>4
  <2>6. NothingIsLost(t, q)
    BY <1>1, <2>1, <2>5, FrameKeeps
  <2>7. RepliesMatch(t)
    BY <1>1, <2>1 DEF RepliesMatch
  <2> QED
    BY <2>2, <2>4, <2>6, <2>7, OneHandleMoves DEF HandleOK
<1>5. CASE ReaderEnds(h)
  <2> DEFINE t == [s EXCEPT !.reader = FALSE]
  <2>1. /\ DOMAIN t = HandleFields /\ t.in = s.in /\ t.next = s.next /\ t.lines = s.lines
        /\ t.chan = s.chan /\ t.received = s.received /\ t.held = s.held
        /\ t.observed = s.observed /\ t.kept = s.kept /\ t.replies = s.replies
        /\ t.answer = s.answer /\ t.wait = s.wait /\ t.told = s.told
    BY <1>1 DEF HandleFields
  <2>2. bsHandle' = [bsHandle EXCEPT ![h] = t] /\ UNCHANGED bsPrinted
    BY <1>5 DEF ReaderEnds, Update
  <2> HIDE DEF t
  <2>3. HandleTyped(t, q) /\ RepliesMatch(t)
    BY <1>1, <2>1 DEF HandleTyped, RepliesMatch
  <2>4. Events(t) = Events(s)
    BY <2>1 DEF Events
  <2>5. NothingIsLost(t, q)
    BY <1>1, <2>1, <2>4, FrameKeeps
  <2> QED
    BY <2>2, <2>3, <2>5, OneHandleMoves DEF HandleOK
<1> QED
  BY <1>2, <1>3, <1>4, <1>5

\* The steps of a shim keep every handle sound.
LEMMA ShimKeeps ==
  ASSUME bsInv, NEW h \in Handles, ShimCommand(h) \/ Heartbeat(h) \/ ShimExits(h)
  PROVE  bsInv'
<1> DEFINE s == bsHandle[h]
           q == bsPrinted[h]
<1>0. HandleOK(s, q)
  BY DEF bsInv
<1>1. /\ HandleTyped(s, q) /\ NothingIsLost(s, q) /\ RepliesMatch(s) /\ DOMAIN s = HandleFields
      /\ s.lines \in Seq(BandLines) /\ q \in Seq(BandLines) /\ s.in \in Seq(BandLines)
  BY <1>0 DEF HandleOK, HandleTyped
<1>2. ASSUME NEW t, NEW new \in Seq(BandLines), DOMAIN t = HandleFields, t.in \in Seq(BandLines),
             t.next = s.next, t.lines = s.lines \o new, t.chan = s.chan, t.received = s.received,
             t.held = s.held, t.observed = s.observed, t.kept = s.kept, t.replies = s.replies,
             t.answer = s.answer, t.wait = s.wait, t.told = s.told
      PROVE  HandleOK(t, q \o new)
  <2>1. Events(t) = Events(s)
    BY <1>2 DEF Events
  <2>2. NothingIsLost(t, q \o new) /\ q \o new \in Seq(BandLines) /\ t.lines \in Seq(BandLines)
    BY <1>1, <1>2, <2>1, PrintKeeps
  <2>3. HandleTyped(t, q \o new) /\ RepliesMatch(t)
    BY <1>1, <1>2, <2>2 DEF HandleTyped, RepliesMatch
  <2> QED
    BY <2>2, <2>3 DEF HandleOK
<1>3. CASE ShimCommand(h)
  <2> DEFINE new == ShimAnswer(Head(s.in))
             t == [s EXCEPT !.in = Tail(@), !.lines = @ \o new]
  <2>0. s.in # <<>>
    BY <1>3 DEF ShimCommand
  <2>1. Head(s.in) \in BandLines /\ Tail(s.in) \in Seq(BandLines)
    BY <1>1, <2>0, HeadTailProperties
  <2>2. new \in Seq(BandLines)
    BY <2>1, ShimsPrintLines
  <2>3. /\ bsHandle' = [bsHandle EXCEPT ![h] = t]
        /\ bsPrinted' = [bsPrinted EXCEPT ![h] = q \o new]
    BY <1>3 DEF ShimCommand, Update, bsInv
  <2> HIDE DEF new
  <2>4. /\ DOMAIN t = HandleFields /\ t.in = Tail(s.in) /\ t.next = s.next /\ t.lines = s.lines \o new
        /\ t.chan = s.chan /\ t.received = s.received /\ t.held = s.held
        /\ t.observed = s.observed /\ t.kept = s.kept /\ t.replies = s.replies
        /\ t.answer = s.answer /\ t.wait = s.wait /\ t.told = s.told
    BY <1>1 DEF HandleFields
  <2> HIDE DEF t
  <2>5. HandleOK(t, q \o new)
    BY <1>2, <2>1, <2>2, <2>4
  <2> QED
    BY <2>3, <2>5, OneHandleMoves
<1>4. CASE Heartbeat(h)
  <2> DEFINE beat == Line("heartbeat", NoRef)
             t == [s EXCEPT !.beats = @ + 1, !.lines = Append(@, beat)]
  <2>1. beat \in BandLines /\ <<beat>> \in Seq(BandLines)
    BY ShimsPrintLines
  <2>2. /\ bsHandle' = [bsHandle EXCEPT ![h] = t]
        /\ bsPrinted' = [bsPrinted EXCEPT ![h] = Append(q, beat)]
    BY <1>4 DEF Heartbeat, Update, bsInv
  <2> HIDE DEF beat
  <2>3. /\ DOMAIN t = HandleFields /\ t.in = s.in /\ t.next = s.next /\ t.lines = Append(s.lines, beat)
        /\ t.chan = s.chan /\ t.received = s.received /\ t.held = s.held
        /\ t.observed = s.observed /\ t.kept = s.kept /\ t.replies = s.replies
        /\ t.answer = s.answer /\ t.wait = s.wait /\ t.told = s.told
    BY <1>1 DEF HandleFields
  <2> HIDE DEF t
  <2>4. t.lines = s.lines \o <<beat>> /\ Append(q, beat) = q \o <<beat>>
    BY <1>1, <2>1, <2>3, AppendIsConcat
  <2>5. HandleOK(t, q \o <<beat>>)
    BY <1>1, <1>2, <2>1, <2>3, <2>4
  <2> QED
    BY <2>2, <2>4, <2>5, OneHandleMoves
<1>5. CASE ShimExits(h)
  <2> DEFINE t == [s EXCEPT !.shim = "exited", !.in = <<>>]
  <2>1. /\ DOMAIN t = HandleFields /\ t.in = <<>> /\ t.next = s.next /\ t.lines = s.lines
        /\ t.chan = s.chan /\ t.received = s.received /\ t.held = s.held
        /\ t.observed = s.observed /\ t.kept = s.kept /\ t.replies = s.replies
        /\ t.answer = s.answer /\ t.wait = s.wait /\ t.told = s.told
    BY <1>1 DEF HandleFields
  <2>2. bsHandle' = [bsHandle EXCEPT ![h] = t] /\ UNCHANGED bsPrinted
    BY <1>5 DEF ShimExits, Update
  <2> HIDE DEF t
  <2>3. HandleTyped(t, q) /\ RepliesMatch(t)
    BY <1>1, <2>1 DEF HandleTyped, RepliesMatch
  <2>4. Events(t) = Events(s)
    BY <2>1 DEF Events
  <2>5. NothingIsLost(t, q)
    BY <1>1, <2>1, <2>4, FrameKeeps
  <2> QED
    BY <2>2, <2>3, <2>5, OneHandleMoves DEF HandleOK
<1> QED
  BY <1>3, <1>4, <1>5

\* Every step of the sockets keeps every handle sound.
LEMMA SocketsStep == bsInv /\ [bsNext]_bsVars => bsInv'
<1> SUFFICES ASSUME bsInv, [bsNext]_bsVars PROVE bsInv'
  OBVIOUS
<1>1. ASSUME NEW h \in Handles, NEW r \in RoomNames, SpawnOne(h, r) PROVE bsInv'
  BY <1>1, SpawnedIsOK, OneHandleMoves DEF SpawnOne
<1>2. ASSUME NEW h \in Handles,
             \/ \E op \in {"post_message", "join_room", "ping", "other"} : SendRequest(h, op)
             \/ RequestAnswered(h) \/ RequestTimesOut(h) \/ ShutdownHandle(h)
      PROVE  bsInv'
  BY <1>2, CallerKeeps
<1>3. ASSUME NEW h \in Handles, RecvEvent(h) \/ ReadLine(h) \/ PushEvent(h) \/ ReaderEnds(h)
      PROVE  bsInv'
  BY <1>3, ReaderKeeps
<1>4. ASSUME NEW h \in Handles, ShimCommand(h) \/ Heartbeat(h) \/ ShimExits(h)
      PROVE  bsInv'
  BY <1>4, ShimKeeps
<1>5. ASSUME UNCHANGED <<bsHandle, bsPrinted>> PROVE bsInv'
  BY <1>5 DEF bsInv
<1>6. ASSUME NEW t \in Starts, NEW r \in RoomNames, NEW o \in SpawnOutcomes(AGENTS), StartRoom(t, r, o)
      PROVE  bsInv'
  <2>1. CASE UNCHANGED <<bsHandle, bsPrinted>>
    BY <1>5, <2>1
  <2>2. CASE \E fleet \in SUBSET Fresh :
          /\ bsHandle' = [h \in Handles |-> IF h \in fleet THEN SpawnedHandle(t, r) ELSE bsHandle[h]]
          /\ bsPrinted' = [h \in Handles |-> IF h \in fleet THEN Greeting ELSE bsPrinted[h]]
    <3> PICK fleet \in SUBSET Fresh :
          /\ bsHandle' = [h \in Handles |-> IF h \in fleet THEN SpawnedHandle(t, r) ELSE bsHandle[h]]
          /\ bsPrinted' = [h \in Handles |-> IF h \in fleet THEN Greeting ELSE bsPrinted[h]]
      BY <2>2
    <3>1. \A h \in Handles : HandleOK(bsHandle'[h], bsPrinted'[h])
      BY SpawnedIsOK DEF bsInv
    <3> QED
      BY <3>1 DEF bsInv
  <2> QED
    BY <1>6, <2>1, <2>2 DEF StartRoom
<1>7. ASSUME NEW t \in Starts, Register(t) \/ StartMetrics(t) PROVE bsInv'
  BY <1>5, <1>7 DEF Register, StartMetrics
<1>8. CASE UNCHANGED bsVars
  BY <1>5, <1>8 DEF bsVars
<1> QED
  BY <1>1, <1>2, <1>3, <1>4, <1>6, <1>7, <1>8 DEF bsNext

\* Then replies are to their requests and no event is dropped or reordered.
LEMMA SocketsAreSound == bsInv => AnswerIsToItsRequest /\ NoEventIsLost
BY DEF bsInv, HandleOK, RepliesMatch, AnswerIsToItsRequest, NoEventIsLost

-----------------------------------------------------------------------------
(* Timestamping: the DER a service writes is the DER that is read          *)

\* A set of naturals that is not empty has a least element, which Min is.
LEMMA MinIsLeast ==
  ASSUME NEW I \in SUBSET Nat, I # {}
  PROVE  Min(I) \in I /\ \A j \in I : Min(I) <= j
<1> DEFINE R == OpToRel(<, Nat)
<1>1. IsWellFoundedOn(R, Nat)
  BY NatLessThanWellFounded
<1>2. \E x \in I : \A y \in I : ~ (<<y, x>> \in R)
  <2> HIDE DEF R
  <2> QED  BY <1>1, WFMin
<1>3. PICK x \in I : \A y \in I : ~ (<<y, x>> \in R)
  BY <1>2
<1>4. ASSUME NEW y \in I PROVE x <= y
  <2>1. <<y, x>> \notin {ss \in Nat \X Nat : ss[1] < ss[2]}
    BY <1>3, Zenon DEF OpToRel
  <2>2. <<y, x>> \in Nat \X Nat /\ x \in Nat /\ y \in Nat
    OBVIOUS
  <2>3. ~(<<y, x>>[1] < <<y, x>>[2])
    BY <2>1, <2>2, Zenon
  <2> QED  BY <2>2, <2>3
<1> QED
  BY <1>4, Zenon DEF Min

\* The part of a concatenation behind its first sequence is the second.
LEMMA ConcatIsSplit ==
  ASSUME NEW S, NEW s \in Seq(S), NEW t \in Seq(S)
  PROVE  /\ s \o t \in Seq(S) /\ Len(s \o t) = Len(s) + Len(t)
         /\ SubSeq(s \o t, 1, Len(s)) = s
         /\ SubSeq(s \o t, Len(s) + 1, Len(s) + Len(t)) = t
         /\ \A i \in 1..Len(s) : (s \o t)[i] = s[i]
         /\ \A i \in 1..Len(t) : (s \o t)[Len(s) + i] = t[i]
<1> DEFINE b == s \o t
           p == Len(s)
           q == Len(t)
           u == SubSeq(b, 1, p)
           w == SubSeq(b, p + 1, p + q)
<1>1. p \in Nat /\ q \in Nat
  BY LenProperties
<1>2. /\ b \in Seq(S) /\ Len(b) = p + q
      /\ \A i \in 1 .. p + q : b[i] = IF i <= p THEN s[i] ELSE t[i - p]
  BY ConcatProperties, Zenon
<1>3. \A i \in 1 .. p + q : b[i] \in S
  BY <1>2, ElementOfSeq
<1> HIDE DEF b, p, q
<1>4. u = s
  <2>1. \A i \in 1 .. p : b[i] \in S
    BY <1>1, <1>3
  <2>2. /\ u \in Seq(S) /\ Len(u) = IF 1 <= p THEN p - 1 + 1 ELSE 0
        /\ \A i \in 1 .. p - 1 + 1 : u[i] = b[1 + i - 1]
    BY <2>1, <1>1, SubSeqProperties
  <2> HIDE DEF u
  <2>3. Len(u) = p /\ \A i \in 1..p : u[i] = s[i]
    <3>1. Len(u) = p
      BY <2>2, <1>1, SMTT(60)
    <3>2. ASSUME NEW i \in 1..p PROVE u[i] = s[i]
      <4>1. i \in 1 .. p + q /\ i \in 1 .. p - 1 + 1 /\ i <= p /\ 1 + i - 1 = i
        BY <1>1, SMTT(60)
      <4>2. u[i] = b[i]
        BY <2>2, <4>1, Zenon
      <4> QED  BY <1>2, <4>1, <4>2, Zenon
    <3> QED  BY <3>1, <3>2, Zenon
  <2> QED  BY <2>2, <2>3, SeqEqual DEF p
<1>0. \A i \in 1..q : b[p + i] = t[i]
  <2> SUFFICES ASSUME NEW i \in 1..q PROVE b[p + i] = t[i]
    OBVIOUS
  <2>1. p + i \in 1 .. p + q /\ ~(p + i <= p) /\ p + i - p = i
    BY <1>1
  <2>2. b[p + i] = t[p + i - p]
    BY <1>1, <1>2, <2>1
  <2> QED  BY <2>1, <2>2
<1>5. w = t
  <2> DEFINE lo == p + 1
             hi == p + q
  <2>1. \A i \in lo .. hi : b[i] \in S
    BY <1>1, <1>3
  <2>0. lo \in Int /\ hi \in Int /\ lo = p + 1 /\ hi = p + q
    BY <1>1
  <2> HIDE DEF lo, hi
  <2>2. /\ w \in Seq(S) /\ Len(w) = IF lo <= hi THEN hi - lo + 1 ELSE 0
        /\ \A i \in 1 .. hi - lo + 1 : w[i] = b[lo + i - 1]
    BY <2>1, <2>0, SubSeqProperties DEF lo, hi
  <2> HIDE DEF w
  <2>3. Len(w) = q
    BY <2>2, <2>0, <1>1
  <2>4. ASSUME NEW i \in 1..q PROVE w[i] = t[i]
    <3>1. hi - lo + 1 = q /\ lo + i - 1 = p + i
      BY <1>1, <2>0
    <3> QED  BY <2>2, <1>0, <3>1
  <2> QED  BY <2>2, <2>3, <2>4, SeqEqual DEF q
<1>6. \A i \in 1..p : b[i] = s[i]
  BY <1>1, <1>2
<1> QED
  BY <1>0, <1>2, <1>4, <1>5, <1>6 DEF b, p, q

\* What DER is made of; a name of its own, as most steps need not know that these
\* are sequences.
OctetStrings == Seq(Nat)

\* Concatenations of octets: lengths, parts and single octets.
LEMMA OctetsAreSplit ==
  ASSUME NEW s \in OctetStrings, NEW t \in OctetStrings
  PROVE  /\ s \o t \in OctetStrings /\ Len(s \o t) = Len(s) + Len(t)
         /\ Len(s) \in Nat /\ Len(t) \in Nat
         /\ SubSeq(s \o t, 1, Len(s)) = s
         /\ SubSeq(s \o t, Len(s) + 1, Len(s) + Len(t)) = t
         /\ \A i \in 1..Len(s) : (s \o t)[i] = s[i]
         /\ \A i \in 1..Len(t) : (s \o t)[Len(s) + i] = t[i]
<1>1. s \in Seq(Nat) /\ t \in Seq(Nat)
  BY Zenon DEF OctetStrings
<1>2. Len(s) \in Nat /\ Len(t) \in Nat
  BY <1>1, LenProperties, Zenon
<1>3. /\ s \o t \in Seq(Nat) /\ Len(s \o t) = Len(s) + Len(t)
      /\ SubSeq(s \o t, 1, Len(s)) = s
      /\ SubSeq(s \o t, Len(s) + 1, Len(s) + Len(t)) = t
      /\ \A i \in 1..Len(s) : (s \o t)[i] = s[i]
      /\ \A i \in 1..Len(t) : (s \o t)[Len(s) + i] = t[i]
  BY <1>1, ConcatIsSplit
<1>4. s \o t \in OctetStrings
  BY <1>3, Zenon DEF OctetStrings
<1> QED
  BY <1>2, <1>3, <1>4, Zenon

\* The octets of a length: one to three.
LEMMA LengthsAreWritten ==
  ASSUME NEW n \in Nat, NEW d, d = DerLength(n)
  PROVE  /\ d \in OctetStrings /\ Len(d) \in 1..3
         /\ n < 128 => Len(d) = 1 /\ d[1] = n
         /\ n >= 128 /\ n < 256 => Len(d) = 2 /\ d[1] = 129 /\ d[2] = n
         /\ n >= 256 => Len(d) = 3 /\ d[1] = 130 /\ d[2] = n \div 256 /\ d[3] = n % 256
<1>1. CASE n < 128
  <2>1. d = <<n>>
    BY <1>1 DEF DerLength
  <2>2. d \in OctetStrings /\ Len(d) = 1 /\ d[1] = n
    BY <2>1 DEF OctetStrings
  <2> QED  BY <1>1, <2>2
<1>2. CASE n >= 128 /\ n < 256
  <2>1. d = <<129, n>>
    BY <1>2 DEF DerLength
  <2>2. d \in OctetStrings /\ Len(d) = 2 /\ d[1] = 129 /\ d[2] = n
    BY <2>1 DEF OctetStrings
  <2> QED  BY <1>2, <2>2
<1>3. CASE n >= 256
  <2> DEFINE x == n \div 256
             y == n % 256
  <2>1. x \in Nat /\ y \in Nat
    OBVIOUS
  <2>2. d = <<130, x, y>>
    BY <1>3 DEF DerLength
  <2> HIDE DEF x, y
  <2>3. d \in OctetStrings /\ Len(d) = 3 /\ d[1] = 130 /\ d[2] = x /\ d[3] = y
    BY <2>1, <2>2 DEF OctetStrings
  <2> QED  BY <1>3, <2>1, <2>3 DEF x, y
<1> QED
  BY <1>1, <1>2, <1>3

\* b begins with a header of k octets for a value of n.
HasHeader(b, k, n) ==
  /\ k = 2 => n < 128 /\ b[2] = n
  /\ k = 3 => b[2] = 129 /\ b[3] = n
  /\ k = 4 => b[2] = 130 /\ b[3] = n \div 256 /\ b[4] = n % 256

\* The reader of a length finds what its writer wrote.
LEMMA LengthIsRead ==
  ASSUME NEW b, NEW n \in Nat, NEW r \in Nat, NEW k \in 2..4, Len(b) = k + n + r,
         HasHeader(b, k, n)
  PROVE  LengthExtra(b) = k - 2 /\ tlv_value_len(b) = n
<1> DEFINE e == LengthExtra(b)
           m == Len(b)
<1>1. CASE k = 2
  <2>1. ~(m < 2) /\ b[2] < 128
    BY <1>1 DEF HasHeader
  <2>2. e = 0
    BY <2>1 DEF LengthExtra
  <2> HIDE DEF e
  <2>3. tlv_value_len(b) = b[2]
    BY <2>2 DEF tlv_value_len, e
  <2> QED  BY <1>1, <2>2, <2>3 DEF e, HasHeader
<1>2. CASE k = 3
  <2>1. ~(m < 2) /\ ~(b[2] < 128) /\ b[2] = 129 /\ m >= 3 /\ m - 3 >= b[3]
    BY <1>2 DEF HasHeader
  <2>2. e = 1
    BY <2>1 DEF LengthExtra
  <2> HIDE DEF e
  <2>3. tlv_value_len(b) = b[3]
    BY <2>2 DEF tlv_value_len, e
  <2> QED  BY <1>2, <2>2, <2>3 DEF e, HasHeader
<1>3. CASE k = 4
  <2>0. 256 * b[3] + b[4] = n
    BY <1>3 DEF HasHeader
  <2>1. /\ ~(m < 2) /\ ~(b[2] < 128) /\ b[2] # 129 /\ b[2] = 130
        /\ m >= 4 /\ m - 4 >= 256 * b[3] + b[4]
    BY <1>3, <2>0 DEF HasHeader
  <2>2. e = 2
    BY <2>1 DEF LengthExtra
  <2> HIDE DEF e
  <2>3. tlv_value_len(b) = 256 * b[3] + b[4]
    BY <2>2 DEF tlv_value_len, e
  <2> QED  BY <1>3, <2>0, <2>2, <2>3 DEF e
<1> QED
  BY <1>1, <1>2, <1>3

\* A header: the tag before the octets of the length.
LEMMA HeaderIsASeq ==
  ASSUME NEW one \in OctetStrings, Len(one) = 1, NEW d \in OctetStrings, Len(d) \in 1..3
  PROVE  /\ one \o d \in OctetStrings /\ Len(one \o d) = 1 + Len(d)
         /\ (one \o d)[1] = one[1]
         /\ (one \o d)[2] = d[1]
         /\ Len(d) >= 2 => (one \o d)[3] = d[2]
         /\ Len(d) >= 3 => (one \o d)[4] = d[3]
<1> DEFINE h == one \o d
<1>1. /\ h \in OctetStrings /\ Len(h) = Len(one) + Len(d)
      /\ \A i \in 1..Len(one) : h[i] = one[i]
      /\ \A i \in 1..Len(d) : h[Len(one) + i] = d[i]
  BY OctetsAreSplit, Zenon
<1> HIDE DEF h
<1>2. 1 \in 1..Len(one) /\ 1 \in 1..Len(d) /\ Len(one) + 1 = 2
  OBVIOUS
<1>3. h[1] = one[1] /\ h[Len(one) + 1] = d[1]
  BY <1>1, <1>2, Zenon
<1>4. ASSUME Len(d) >= 2 PROVE h[3] = d[2]
  <2>1. 2 \in 1..Len(d) /\ Len(one) + 2 = 3
    BY <1>4
  <2>2. h[Len(one) + 2] = d[2]
    BY <1>1, <2>1, Zenon
  <2> QED  BY <2>1, <2>2, Zenon
<1>5. ASSUME Len(d) >= 3 PROVE h[4] = d[3]
  <2>1. 3 \in 1..Len(d) /\ Len(one) + 3 = 4
    BY <1>5
  <2>2. h[Len(one) + 3] = d[3]
    BY <1>1, <2>1, Zenon
  <2> QED  BY <2>1, <2>2, Zenon
<1>6. h[2] = d[1]
  BY <1>2, <1>3, Zenon
<1>7. Len(h) = 1 + Len(d) /\ h \in OctetStrings
  BY <1>1, Zenon
<1> QED
  BY <1>3, <1>4, <1>5, <1>6, <1>7, Zenon DEF h

\* The header of a value of n octets, and how many octets it has.
LEMMA HeaderOfLength ==
  ASSUME NEW tag \in Nat, NEW n \in Nat
  PROVE  LET h == <<tag>> \o DerLength(n)
         IN  /\ h \in OctetStrings /\ Len(h) \in 2..4 /\ h[1] = tag
             /\ n < 128 => Len(h) = 2
             /\ HasHeader(h, Len(h), n)
<1> DEFINE one == <<tag>>
           d == DerLength(n)
           h == one \o d
           x == n \div 256
           y == n % 256
           p == Len(d)
           k == Len(h)
<1>1. one \in OctetStrings /\ Len(one) = 1 /\ one[1] = tag
  BY DEF OctetStrings
<1> HIDE DEF one, d, x, y
<1>2. /\ d \in OctetStrings /\ p \in 1..3
      /\ n < 128 => p = 1 /\ d[1] = n
      /\ n >= 128 /\ n < 256 => p = 2 /\ d[1] = 129 /\ d[2] = n
      /\ n >= 256 => p = 3 /\ d[1] = 130 /\ d[2] = x /\ d[3] = y
  BY LengthsAreWritten, SMT DEF d, x, y
<1>3. /\ h \in OctetStrings /\ k = 1 + p
      /\ h[1] = one[1] /\ h[2] = d[1]
      /\ p >= 2 => h[3] = d[2]
      /\ p >= 3 => h[4] = d[3]
  BY <1>1, <1>2, HeaderIsASeq, SMT
<1>0. h[1] = tag
  BY <1>1, <1>3, Zenon
<1> HIDE DEF h, p, k
<1>4. /\ k \in 2..4
      /\ n < 128 => k = 2
      /\ k = 2 => n < 128 /\ h[2] = n
      /\ k = 3 => h[2] = 129 /\ h[3] = n
      /\ k = 4 => h[2] = 130 /\ h[3] = x /\ h[4] = y
  BY <1>2, <1>3, SMT
<1>5. HasHeader(h, k, n)
  BY <1>4, Zenon DEF HasHeader, x, y
<1> QED
  BY <1>0, <1>3, <1>4, <1>5, Zenon DEF h, one, d, k

\* read_tlv, tlv_value_bytes and skip_tlv undo what Tlv does, for values of each
\* form of the length.
LEMMA TlvIsRead ==
  ASSUME NEW tag \in Nat \ {0}, NEW v \in OctetStrings,
         NEW rest \in OctetStrings
  PROVE  /\ Tlv(tag, v) \in OctetStrings
         /\ Len(Tlv(tag, v)) < Len(v) + 5
         /\ Len(v) < 128 => Len(Tlv(tag, v)) = Len(v) + 2
         /\ read_tlv(Tlv(tag, v) \o rest) = tag
         /\ tlv_value_bytes(Tlv(tag, v) \o rest) = v
         /\ skip_tlv(Tlv(tag, v) \o rest) = rest
<1> DEFINE n == Len(v)
           h == <<tag>> \o DerLength(n)
           t == h \o v
           b == t \o rest
           k == Len(h)
           m == Len(b)
           r == Len(rest)
           l == Len(t)
<1>1. Tlv(tag, v) = t
  BY SMT DEF Tlv
<1>2. n \in Nat  /\ tag \in Nat /\ tag # 0
  BY OctetsAreSplit, SMT
<1>3. /\ h \in OctetStrings /\ k \in 2..4 /\ h[1] = tag
      /\ n < 128 => k = 2
      /\ HasHeader(h, k, n)
  BY <1>2, HeaderOfLength, SMT
<1> HIDE DEF h
<1>5. /\ t \in OctetStrings /\ l = k + n
      /\ r \in Nat /\ m = k + n + r
      /\ SubSeq(b, k + 1, k + n) = v
      /\ SubSeq(b, k + n + 1, m) = rest
      /\ \A i \in 1..k : b[i] = h[i]
  <2>1. /\ t \in OctetStrings /\ l = k + n /\ k \in Nat
        /\ SubSeq(t, k + 1, k + n) = v
        /\ \A i \in 1..k : t[i] = h[i]
    BY <1>3, OctetsAreSplit, Zenon
  <2> HIDE DEF t, k, n
  <2>2. /\ m = l + r /\ r \in Nat
        /\ SubSeq(b, l + 1, l + r) = rest
        /\ \A i \in 1..l : b[i] = t[i]
    BY <2>1, OctetsAreSplit, Zenon
  <2> HIDE DEF b, m, l, r
  <2>3. /\ m = k + n + r
        /\ SubSeq(b, k + n + 1, m) = rest
        /\ \A i \in 1 .. k + n : b[i] = t[i]
    BY <2>1, <2>2, Zenon
  <2>4. \A i \in 1..k : i \in 1 .. k + n
    BY <2>1, <1>2
  <2>5. \A i \in 1..k : b[i] = h[i]
    BY <2>1, <2>3, <2>4, Zenon
  <2>6. SubSeq(b, k + 1, k + n) = SubSeq(t, k + 1, k + n)
    <3>1. CASE n = 0
      <4>1. k + n < k + 1 /\ k + 1 \in Int /\ k + n \in Int
        BY <3>1, <2>1
      <4> QED  BY <4>1, SubSeqEmpty, Zenon
    <3>2. CASE n # 0
      <4>1. k + 1 \in 1..l /\ k + n \in 1..l
        BY <3>2, <2>1, <1>2
      <4>2. t \in Seq(Nat) /\ rest \in Seq(Nat)
        BY <2>1, Zenon DEF OctetStrings
      <4> QED  BY <4>1, <4>2, SubSeqOfConcat1, Zenon DEF b, l
    <3> QED  BY <3>1, <3>2, Zenon
  <2> QED  BY <2>1, <2>2, <2>3, <2>5, <2>6, Zenon
<1> HIDE DEF t, b, k, r, m, l, n
<1>6. b[1] = tag /\ HasHeader(b, k, n)
  <2>1. /\ 1 \in 1..k /\ 2 \in 1..k /\ (k = 3 => 3 \in 1..k)
        /\ (k = 4 => 3 \in 1..k /\ 4 \in 1..k)
    BY <1>3, SMT
  <2>2. /\ b[1] = h[1] /\ b[2] = h[2] /\ (k = 3 => b[3] = h[3])
        /\ (k = 4 => b[3] = h[3] /\ b[4] = h[4])
    BY <2>1, <1>5, Zenon
  <2> QED  BY <2>2, <1>3, ZenonT(60) DEF HasHeader
<1>7. LengthExtra(b) = k - 2 /\ tlv_value_len(b) = n
  <2>1. k \in 2..4 /\ r \in Nat /\ Len(b) = k + n + r
    BY <1>3, <1>5 DEF m
  <2> QED  BY <2>1, <1>2, <1>6, LengthIsRead, Zenon
<1>8. read_tlv(b) = tag /\ TlvLen(b) = k + n
  <2>1. LengthExtra(b) # 9
    BY <1>3, <1>7, SMT
  <2>2. read_tlv(b) = tag
    BY <2>1, <1>6, Zenon DEF read_tlv
  <2> QED  BY <2>2, <1>2, <1>3, <1>7, SMT DEF TlvLen
<1>9. tlv_value_bytes(b) = v
  <2>1. read_tlv(b) # 0
    BY <1>2, <1>8, Zenon
  <2>2. tlv_value_bytes(b) = SubSeq(b, TlvLen(b) - tlv_value_len(b) + 1, TlvLen(b))
    BY <2>1, Zenon DEF tlv_value_bytes
  <2>3. TlvLen(b) - tlv_value_len(b) + 1 = k + 1
    BY <1>2, <1>3, <1>7, <1>8, SMT
  <2> QED  BY <2>2, <2>3, <1>5, <1>8, Zenon
<1>10. skip_tlv(b) = rest
  BY <1>2, <1>5, <1>8, Zenon DEF skip_tlv, m
<1>11. l < n + 5 /\ (n < 128 => l = n + 2)
  BY <1>2, <1>3, <1>5, SMT
<1> QED
  BY <1>1, <1>5, <1>8, <1>9, <1>10, <1>11, Zenon DEF b, n, l

\* The same for a value with nothing behind it.
LEMMA TlvAloneIsRead ==
  ASSUME NEW tag \in Nat \ {0}, NEW v \in OctetStrings
  PROVE  /\ Tlv(tag, v) \in OctetStrings
         /\ read_tlv(Tlv(tag, v)) = tag
         /\ tlv_value_bytes(Tlv(tag, v)) = v
<1>1. <<>> \in OctetStrings
  BY DEF OctetStrings
<1>2. /\ Tlv(tag, v) \in OctetStrings
      /\ read_tlv(Tlv(tag, v) \o <<>>) = tag
      /\ tlv_value_bytes(Tlv(tag, v) \o <<>>) = v
  BY <1>1, TlvIsRead, Zenon
<1>3. Tlv(tag, v) \in Seq(Nat)
  BY <1>2, Zenon DEF OctetStrings
<1>4. Tlv(tag, v) \o <<>> = Tlv(tag, v)
  BY <1>3, ConcatEmptySeq, Zenon
<1> QED
  BY <1>2, <1>4, Zenon

\* A part of some octets up to their end.
LEMMA TailOfOctets ==
  ASSUME NEW o \in OctetStrings, NEW n, n = Len(o), NEW f \in 1..n
  PROVE  LET u == SubSeq(o, f, n)
         IN  /\ u \in OctetStrings /\ Len(u) = n - f + 1
             /\ \A i \in 1 .. n - f + 1 : u[i] = o[f + i - 1]
<1>1. o \in Seq(Nat)
  BY Zenon DEF OctetStrings
<1>2. n \in Nat
  BY <1>1, LenProperties
<1>3. f \in Int /\ n \in Int /\ f <= n
  BY <1>2
<1>4. \A i \in f..n : o[i] \in Nat
  <2>1. \A i \in 1..n : o[i] \in Nat
    BY <1>1, ElementOfSeq
  <2> QED  BY <2>1, <1>2
<1> DEFINE u == SubSeq(o, f, n)
<1>5. /\ u \in Seq(Nat) /\ Len(u) = IF f <= n THEN n - f + 1 ELSE 0
      /\ \A i \in 1 .. n - f + 1 : u[i] = o[f + i - 1]
  BY <1>3, <1>4, SubSeqProperties
<1> QED
  BY <1>3, <1>5 DEF OctetStrings

\* Octets with zeros before them.
Zeros(n) == [i \in 1..n |-> 0]
LEMMA ZerosAreBefore ==
  ASSUME NEW o \in OctetStrings, NEW u \in OctetStrings, NEW f \in Nat,
         NEW n, n = Len(o), f <= n, Len(u) = n - f,
         \A i \in 1..f : o[i] = 0,
         \A i \in 1 .. n - f : u[i] = o[f + i]
  PROVE  Zeros(f) \o u = o
<1> DEFINE z == Zeros(f)
           c == z \o u
<1>1. n \in Nat /\ o \in Seq(Nat)
  BY LenProperties DEF OctetStrings
<1>2. z \in Seq(Nat) /\ Len(z) = f /\ \A i \in 1..f : z[i] = 0
  BY DEF Zeros
<1>3. z \in OctetStrings
  BY <1>2, Zenon DEF OctetStrings
<1> HIDE DEF z
<1>4. /\ c \in OctetStrings /\ Len(c) = Len(z) + Len(u)
      /\ \A i \in 1..Len(z) : c[i] = z[i]
      /\ \A i \in 1..Len(u) : c[Len(z) + i] = u[i]
  BY <1>3, OctetsAreSplit, Zenon
<1> HIDE DEF c
<1>5. c \in Seq(Nat) /\ Len(c) = n
  BY <1>1, <1>2, <1>4 DEF OctetStrings
<1>6. ASSUME NEW i \in 1..n PROVE c[i] = o[i]
  <2>1. CASE i <= f
    <3>1. i \in 1..f
      BY <2>1, <1>1
    <3> QED  BY <3>1, <1>2, <1>4, Zenon
  <2>2. CASE ~(i <= f)
    <3>1. PICK j \in 1 .. n - f : i = f + j
      <4>1. i - f \in 1 .. n - f /\ i = f + (i - f)
        BY <2>2, <1>1
      <4> QED  BY <4>1, Zenon
    <3>2. c[f + j] = u[j] /\ u[j] = o[f + j]
      BY <3>1, <1>2, <1>4, Zenon
    <3> QED  BY <3>1, <3>2, Zenon
  <2> QED  BY <2>1, <2>2, Zenon
<1> QED
  BY <1>1, <1>5, <1>6, SeqEqual, Zenon DEF z, c

\* What DerInteger writes, and that normalize gives it back with its zeros.
IntegerOctets(octets) ==
  LET significant == {i \in 1..Len(octets) : octets[i] # 0} \cup {Len(octets)}
      minimal == SubSeq(octets, Min(significant), Len(octets))
  IN  IF minimal[1] >= 128 THEN <<0>> \o minimal ELSE minimal

LEMMA ScalarIsRead ==
  ASSUME NEW o \in [1..ScalarLen -> 0..255]
  PROVE  /\ IntegerOctets(o) \in OctetStrings
         /\ DerInteger(o) = Tlv(INT_TAG, IntegerOctets(o))
         /\ normalize(IntegerOctets(o)) = o
<1> DEFINE n == ScalarLen
           sig == {i \in 1..Len(o) : o[i] # 0} \cup {Len(o)}
           f == Min(sig)
           u == SubSeq(o, f, Len(o))
           w == IntegerOctets(o)
<1>1. n \in Nat /\ n >= 1
  BY ScalarsAssumption
<1>2. o \in Seq(Nat) /\ Len(o) = n /\ \A i \in 1..n : o[i] \in Nat
  <2>1. o \in [1..n -> Nat]
    <3>1. 0..255 \subseteq Nat
      BY SMT
    <3> QED  BY <3>1, Zenon
  <2>2. o \in Seq(Nat)
    BY <2>1, <1>1, SeqDef
  <2>3. Len(o) \in Nat /\ 1..n = 1..Len(o)
    BY <2>1, <2>2, LenProperties
  <2> HIDE DEF n
  <2>4. Len(o) = n
    BY <2>3, <1>1
  <2> QED  BY <2>1, <2>2, <2>4
<1>3. f \in sig /\ f \in 1..n /\ \A j \in sig : f <= j
  <2>1. sig \in SUBSET Nat /\ sig # {} /\ sig \subseteq 1..n
    BY <1>1, <1>2
  <2> HIDE DEF sig
  <2> QED  BY <2>1, MinIsLeast, Zenon
<1>4. \A i \in 1 .. f - 1 : o[i] = 0
  <2> SUFFICES ASSUME NEW i \in 1 .. f - 1, o[i] # 0 PROVE FALSE
    OBVIOUS
  <2>1. i \in 1..Len(o) /\ i < f /\ i \in Nat /\ f \in Nat
    BY <1>1, <1>2, <1>3
  <2>2. i \in sig
    BY <2>1
  <2> HIDE DEF f, sig
  <2> QED  BY <2>1, <2>2, <1>3
<1>5. f # n => o[f] # 0
  BY <1>2, <1>3
<1>6. w = IF u[1] >= 128 THEN <<0>> \o u ELSE u
  BY DEF IntegerOctets
<1>7. o \in OctetStrings
  BY <1>2, Zenon DEF OctetStrings
<1> HIDE DEF sig, f, n
<1>8. /\ u \in OctetStrings /\ Len(u) = n - f + 1
      /\ \A i \in 1 .. n - f + 1 : u[i] = o[f + i - 1]
  BY <1>2, <1>3, <1>7, TailOfOctets
<1> HIDE DEF u
<1>9. u[1] = o[f] /\ o[f] \in Nat
  <2>1. 1 \in 1 .. n - f + 1 /\ f + 1 - 1 = f
    BY <1>1, <1>3
  <2>2. u[1] = o[f + 1 - 1]
    BY <2>1, <1>8
  <2> QED  BY <2>1, <2>2, <1>2, <1>3
<1>10. \A i \in 1 .. n - (f - 1) : u[i] = o[f - 1 + i]
  <2>1. n - (f - 1) = n - f + 1 /\ \A i \in 1 .. n - f + 1 : f - 1 + i = f + i - 1
    BY <1>1, <1>3
  <2> QED  BY <2>1, <1>8
<1>11. Zeros(f - 1) \o u = o
  <2>1. f - 1 \in Nat /\ f - 1 <= n /\ Len(u) = n - (f - 1)
    BY <1>1, <1>3, <1>8
  <2> DEFINE g == f - 1
  <2>2. /\ g \in Nat /\ g <= n /\ Len(u) = n - g /\ n = Len(o)
        /\ \A i \in 1..g : o[i] = 0
        /\ \A i \in 1 .. n - g : u[i] = o[g + i]
    BY <2>1, <1>2, <1>4, <1>10
  <2> HIDE DEF g
  <2>3. Zeros(g) \o u = o
    BY <2>2, <1>7, <1>8, ZerosAreBefore, Zenon
  <2> QED  BY <2>3 DEF g
<1>12. ASSUME NEW b, (IF Len(b) > 1 /\ b[1] = 0 THEN Tail(b) ELSE b) = u
       PROVE  normalize(b) = o
  <2>1. Len(u) <= n /\ n - Len(u) = f - 1
    BY <1>1, <1>3, <1>8
  <2>2. normalize(b) = Zeros(n - Len(u)) \o u
    BY <2>1, <1>12, Zenon DEF normalize, Zeros, n
  <2> QED  BY <2>1, <2>2, <1>11, Zenon
<1>15. DerInteger(o) = Tlv(INT_TAG, w)
  BY Zenon DEF DerInteger, IntegerOctets
<1> SUFFICES w \in OctetStrings /\ normalize(w) = o
  BY <1>15, Zenon
<1> HIDE DEF w
<1>13. CASE u[1] >= 128
  <2> DEFINE z == <<0>>
             b == z \o u
  <2>1. z \in Seq(Nat) /\ Len(z) = 1 /\ z[1] = 0
    OBVIOUS
  <2> HIDE DEF z
  <2>2. z \in OctetStrings
    BY <2>1, Zenon DEF OctetStrings
  <2>3. /\ b \in OctetStrings /\ Len(b) = Len(z) + Len(u)
        /\ SubSeq(b, Len(z) + 1, Len(z) + Len(u)) = u
        /\ \A i \in 1..Len(z) : b[i] = z[i]
    BY <2>2, <1>8, OctetsAreSplit, Zenon
  <2> HIDE DEF b
  <2>4. b[1] = 0 /\ Len(b) > 1 /\ b # <<>> /\ SubSeq(b, 2, Len(b)) = u
    BY <2>1, <2>3, <1>1, <1>3, <1>8
  <2>5. Tail(b) = u
    <3>1. b \in Seq(Nat)
      BY <2>3, Zenon DEF OctetStrings
    <3> QED  BY <3>1, <2>4, TailIsSubSeq, Zenon
  <2>6. w = b
    BY <1>6, <1>13 DEF b, z
  <2>7. normalize(b) = o
    BY <2>4, <2>5, <1>12, Zenon
  <2> QED  BY <2>3, <2>6, <2>7, Zenon
<1>14. CASE ~(u[1] >= 128)
  <2>1. w = u
    BY <1>6, <1>14
  <2>2. ~(Len(u) > 1 /\ u[1] = 0)
    BY <1>1, <1>3, <1>5, <1>8, <1>9
  <2>3. normalize(u) = o
    BY <2>2, <1>12, Zenon
  <2> QED  BY <2>1, <2>3, <1>8, Zenon
<1> QED
  BY <1>13, <1>14, Zenon

\* der_to_ecdsa_p384_signature gives back the two numbers a service has written,
\* whatever zeros they begin with and whether or not they need a sign octet.
LEMMA SignatureIsRead ==
  ASSUME NEW rs \in Signatures, NEW key, NEW what, NEW alg
  PROVE  der_to_ecdsa_p384_signature(EcSign(key, what, alg, rs).der) = rs
<1> DEFINE w1 == IntegerOctets(rs[1])
           w2 == IntegerOctets(rs[2])
           r == Tlv(INT_TAG, w1)
           s == Tlv(INT_TAG, w2)
           c == r \o s
           d == Tlv(SEQ_TAG, c)
<1>1. /\ rs[1] \in [1..ScalarLen -> 0..255] /\ rs[2] \in [1..ScalarLen -> 0..255]
      /\ rs = <<rs[1], rs[2]>>
  <2> DEFINE S == [1..ScalarLen -> 0..255]
  <2>1. rs \in S \X S
    BY Zenon DEF Signatures
  <2> HIDE DEF S
  <2>2. rs[1] \in S /\ rs[2] \in S /\ rs = <<rs[1], rs[2]>>
    BY <2>1, SMT
  <2> QED  BY <2>2, Zenon DEF S
<1>2. /\ w1 \in OctetStrings /\ DerInteger(rs[1]) = r /\ normalize(w1) = rs[1]
      /\ w2 \in OctetStrings /\ DerInteger(rs[2]) = s /\ normalize(w2) = rs[2]
  BY <1>1, ScalarIsRead, Zenon
<1>3. EcSign(key, what, alg, rs).der = d
  <2> HIDE DEF r, s
  <2> QED  BY <1>2 DEF EcSign
<1>4. INT_TAG \in Nat \ {0} /\ SEQ_TAG \in Nat \ {0}
  BY SMT DEF INT_TAG, SEQ_TAG
<1> HIDE DEF w1, w2
<1>5. s \in OctetStrings /\ read_tlv(s) = INT_TAG /\ tlv_value_bytes(s) = w2
  BY <1>2, <1>4, TlvAloneIsRead, Zenon
<1> HIDE DEF s
<1>6. /\ r \in OctetStrings /\ read_tlv(c) = INT_TAG /\ tlv_value_bytes(c) = w1
      /\ skip_tlv(c) = s
  <2>1. w1 \in OctetStrings
    BY <1>2
  <2>2. INT_TAG \in Nat \ {0}
    BY <1>4
  <2>3. s \in OctetStrings
    BY <1>5
  <2> QED  BY <2>1, <2>2, <2>3, TlvIsRead, Zenon
<1> HIDE DEF r
<1>7. c \in OctetStrings
  BY <1>5, <1>6, OctetsAreSplit, Zenon
<1> HIDE DEF c
<1>8. read_tlv(d) = SEQ_TAG /\ tlv_value_bytes(d) = c
  BY <1>4, <1>7, TlvAloneIsRead, Zenon
<1> HIDE DEF d
<1>9. der_to_ecdsa_p384_signature(d) = <<normalize(w1), normalize(w2)>>
  BY <1>5, <1>6, <1>8, Zenon DEF der_to_ecdsa_p384_signature
<1>10. <<normalize(w1), normalize(w2)>> = rs
  BY <1>1, <1>2, Zenon
<1> QED
  BY <1>3, <1>9, <1>10, Zenon

\* The hash a service writes into a version 1 ESS attribute is the one found there.
LEMMA EssIsRead ==
  ASSUME NEW cert, cert.id \in Nat
  PROVE  /\ EssV1(cert).oid = "signingCertificate"
         /\ extract_ess_cert_hash_v1(EssV1(cert).value) = CertHash("sha1", cert)
         /\ CertHash("sha1", cert) # <<>>
<1> DEFINE h == CertHash("sha1", cert)
           o == Tlv(OCTET_TAG, h)
           c == o \o IssuerSerial
           s == Tlv(SEQ_TAG, c)
           v == Tlv(SEQ_TAG, s)
<1>1. EssV1(cert).oid = "signingCertificate" /\ EssV1(cert).value = v
  BY DEF EssV1
<1>2. /\ OCTET_TAG \in Nat \ {0} /\ SEQ_TAG \in Nat \ {0} /\ OCTET_TAG # SEQ_TAG
  BY SMT DEF OCTET_TAG, SEQ_TAG
<1>3. h \in OctetStrings /\ h # <<>>
  <2>1. h = [i \in 1..20 |-> cert.id]
    BY DEF CertHash, DigestLen
  <2> HIDE DEF h
  <2>2. h \in Seq(Nat) /\ Len(h) = 20
    BY <2>1
  <2>3. h # <<>>
    <3>1. Len(<<>>) = 0
      OBVIOUS
    <3>2. h = <<>> => Len(h) = Len(<<>>)
      BY Zenon
    <3>3. Len(h) # 0
      BY <2>2, SMT
    <3> QED  BY <3>1, <3>2, <3>3, Zenon
  <2> QED  BY <2>2, <2>3, Zenon DEF OctetStrings
<1>4. IssuerSerial \in OctetStrings
  <2> DEFINE z == [i \in 1..130 |-> 0]
  <2>1. z \in OctetStrings
    BY DEF OctetStrings
  <2> HIDE DEF z
  <2>2. Tlv(SEQ_TAG, z) \in OctetStrings
    BY <2>1, <1>2, TlvAloneIsRead, Zenon
  <2>3. IssuerSerial = Tlv(SEQ_TAG, z)
    BY Zenon DEF IssuerSerial, z
  <2> QED  BY <2>2, <2>3, Zenon
<1> HIDE DEF h
<1>5. /\ o \in OctetStrings
      /\ read_tlv(c) = OCTET_TAG /\ tlv_value_bytes(c) = h
  BY <1>2, <1>3, <1>4, TlvIsRead, Zenon
<1> HIDE DEF o
<1>6. c \in OctetStrings
  BY <1>4, <1>5, OctetsAreSplit, Zenon
<1> HIDE DEF c
<1>7. s \in OctetStrings /\ read_tlv(s) = SEQ_TAG /\ tlv_value_bytes(s) = c
  BY <1>2, <1>6, TlvAloneIsRead, Zenon
<1> HIDE DEF s
<1>8. read_tlv(v) = SEQ_TAG /\ tlv_value_bytes(v) = s
  BY <1>2, <1>7, TlvAloneIsRead, Zenon
<1> HIDE DEF v
<1>9. extract_ess_cert_hash_v1(v) = h
  BY <1>2, <1>5, <1>7, <1>8, Zenon DEF extract_ess_cert_hash_v1
<1> QED
  BY <1>1, <1>3, <1>9, Zenon DEF h

-----------------------------------------------------------------------------
(* Timestamping: verdicts on tokens                                        *)

\* What FetchQualified is answered.
Rejection ==
  [form |-> "response", content |-> "none", type |-> "none", imprint |-> "none",
   certs |-> <<>>, fault |-> "rejection", ess |-> 0, signers |-> <<>>]

\* The token is none, a refusal, or what a service has made of a digest, whole or
\* as it came out of the transport.
TokenOf(token, stamped) ==
  \/ token = NoToken \/ token = Rejection
  \/ \E a \in Authorities, d \in Digests :
       /\ <<a.cert.key, d>> \in stamped
       /\ \/ token \in Issued(a, d)
          \/ \E t \in Issued(a, d) : token \in Damaged(t, a, d)

\* A verdict of the full verification is the one on the token still kept.
VerdictOf(verdict, token) ==
  verdict.how = "certs" =>
    /\ token.form # "empty"
    /\ \E d \in Digests, roots \in RootLists,
          trusted \in {<<>>} \cup {<<a.cert>> : a \in Authorities} :
         verdict = [how |-> "certs", digest |-> d, trusted |-> trusted, roots |-> roots,
                    result |-> verify_strict_with_certs(token, d, trusted, roots)]

tsInv == TokenOf(tsToken, tsStamped) /\ VerdictOf(tsVerdict, tsToken)

-----------------------------------------------------------------------------
\* Nothing was stamped and nothing judged at first.
LEMMA StampingStarts == tsInit => tsInv
  BY DEF tsInit, tsInv, TokenOf, VerdictOf, NoToken, NoVerdict

\* A token is kept while it is judged, and what was stamped stays stamped.
LEMMA StampingSteps == tsInv /\ [tsNext]_tsVars => tsInv'
<1> SUFFICES ASSUME tsInv, [tsNext]_tsVars
             PROVE  TokenOf(tsToken', tsStamped') /\ VerdictOf(tsVerdict', tsToken')
  BY DEF tsInv
<1>0. TokenOf(tsToken, tsStamped) /\ VerdictOf(tsVerdict, tsToken)
  BY DEF tsInv
<1>a. NoVerdict.how # "certs"
  BY DEF NoVerdict
<1>b. TokenOf(NoToken, tsStamped) /\ TokenOf(Rejection, tsStamped)
  BY DEF TokenOf
<1>c. \A how, digest, trusted, roots, result :
        Judge(how, digest, trusted, roots, result) =>
          /\ tsToken' = tsToken /\ tsStamped' = tsStamped
          /\ tsVerdict' = [how |-> how, digest |-> digest, trusted |-> trusted,
                           roots |-> roots, result |-> result]
  BY Zenon DEF Judge
<1>d. ASSUME NEW how, NEW digest, NEW trusted, NEW roots, NEW result, how # "certs",
             Judge(how, digest, trusted, roots, result)
      PROVE  TokenOf(tsToken', tsStamped') /\ VerdictOf(tsVerdict', tsToken')
  <2>1. /\ tsToken' = tsToken /\ tsStamped' = tsStamped /\ tsVerdict'.how # "certs"
    BY <1>c, <1>d
  <2> QED  BY <1>0, <2>1 DEF VerdictOf
<1>1. ASSUME NEW p, NEW readable, TsaInit(p, readable)
      PROVE  TokenOf(tsToken', tsStamped') /\ VerdictOf(tsVerdict', tsToken')
  BY <1>0, <1>1, Zenon DEF TsaInit
<1>2. CASE MockStamp
  <2>1. tsToken' = NoToken /\ tsStamped' = tsStamped /\ tsVerdict' = NoVerdict
    BY <1>2 DEF MockStamp
  <2> QED  BY <1>a, <1>b, <2>1 DEF VerdictOf
<1>3. ASSUME NEW a \in Authorities, NEW d \in Digests, Stamp(a, d)
      PROVE  TokenOf(tsToken', tsStamped') /\ VerdictOf(tsVerdict', tsToken')
  <2>1. /\ tsStamped' = tsStamped \cup {<<a.cert.key, d>>} /\ tsVerdict' = NoVerdict
        /\ \/ tsToken' \in Issued(a, d)
           \/ \E t \in Issued(a, d) : tsToken' \in Damaged(t, a, d)
    BY <1>3, Zenon DEF Stamp
  <2>2. <<a.cert.key, d>> \in tsStamped'
    BY <2>1
  <2>3. TokenOf(tsToken', tsStamped')
    BY <2>1, <2>2, Zenon DEF TokenOf
  <2> QED  BY <1>a, <2>1, <2>3 DEF VerdictOf
<1>4. ASSUME NEW d \in Digests, StampFails(d)
      PROVE  TokenOf(tsToken', tsStamped') /\ VerdictOf(tsVerdict', tsToken')
  <2>1. tsToken' = NoToken /\ tsStamped' = tsStamped /\ tsVerdict'.how # "certs"
    BY <1>4 DEF StampFails, NoVerdict
  <2> QED  BY <1>b, <2>1 DEF VerdictOf
<1>5. CASE FetchQualified
  <2>1. tsToken' = Rejection /\ tsStamped' = tsStamped /\ tsVerdict' = NoVerdict
    BY <1>5, Zenon DEF FetchQualified, Rejection
  <2> QED  BY <1>a, <1>b, <2>1 DEF VerdictOf
<1>6. ASSUME NEW d \in Digests, VerifyToken(d)
      PROVE  TokenOf(tsToken', tsStamped') /\ VerdictOf(tsVerdict', tsToken')
  <2>1. PICK result : Judge("token", d, <<>>, <<>>, result)
    BY <1>6, Zenon DEF VerifyToken
  <2> QED  BY <1>d, <2>1
<1>7. ASSUME NEW d \in Digests, VerifyStrict(d)
      PROVE  TokenOf(tsToken', tsStamped') /\ VerdictOf(tsVerdict', tsToken')
  <2>1. Judge("strict", d, <<>>, <<>>, verify_strict(tsToken, d))
    BY <1>7 DEF VerifyStrict
  <2> QED  BY <1>d, <2>1
<1>8. ASSUME NEW d \in Digests, NEW roots \in RootLists,
             NEW trusted \in {<<>>} \cup {<<a.cert>> : a \in Authorities},
             VerifyStrictWithCerts(d, trusted, roots)
      PROVE  TokenOf(tsToken', tsStamped') /\ VerdictOf(tsVerdict', tsToken')
  <2> DEFINE r == verify_strict_with_certs(tsToken, d, trusted, roots)
  <2>1. tsToken.form # "empty" /\ Judge("certs", d, trusted, roots, r)
    BY <1>8, Zenon DEF VerifyStrictWithCerts
  <2>2. /\ tsToken' = tsToken /\ tsStamped' = tsStamped
        /\ tsVerdict' = [how |-> "certs", digest |-> d, trusted |-> trusted, roots |-> roots,
                         result |-> r]
    <3> HIDE DEF r
    <3> QED  BY <1>c, <2>1, Zenon
  <2> QED  BY <1>0, <2>1, <2>2, Zenon DEF VerdictOf
<1>9. ASSUME NEW d \in Digests, NEW chain \in Chains, CmsVerify(d, chain)
      PROVE  TokenOf(tsToken', tsStamped') /\ VerdictOf(tsVerdict', tsToken')
  <2>1. PICK result : Judge("cms", d, <<>>, chain, result)
    BY <1>9, Zenon DEF CmsVerify
  <2> QED  BY <1>d, <2>1
<1>10. ASSUME NEW policy, NEW root, NEW n, NEW lenient, CheckTrustList(policy, root, n, lenient)
       PROVE  TokenOf(tsToken', tsStamped') /\ VerdictOf(tsVerdict', tsToken')
  <2>1. PICK how, result : how # "certs" /\ Judge(how, "none", <<>>, <<>>, result)
    <3>1. PICK result : Judge(IF lenient THEN "lenient" ELSE "trust list", "none", <<>>, <<>>, result)
      BY <1>10, Zenon DEF CheckTrustList
    <3> QED  BY <3>1, Zenon
  <2> QED  BY <1>d, <2>1
<1>11. CASE Answered
  <2>1. tsToken' = tsToken /\ tsStamped' = tsStamped /\ tsVerdict' = NoVerdict
    BY <1>11 DEF Answered
  <2> QED  BY <1>0, <1>a, <2>1 DEF VerdictOf
<1>12. CASE UNCHANGED tsVars
  BY <1>0, <1>12, Zenon DEF tsVars
<1> QED
  BY <1>1, <1>2, <1>3, <1>4, <1>5, <1>6, <1>7, <1>8, <1>9, <1>10, <1>11, <1>12, Zenon DEF tsNext

-----------------------------------------------------------------------------
\* FirstOf with the set of the indices that pass.
FirstAt(s, I) ==
  LET i == IF I # {} THEN Min(I) ELSE 0 IN IF i = 0 THEN <<>> ELSE <<s[i]>>

\* What find gives is an element that passes, and the first if one does.
LEMMA FirstIsFound ==
  ASSUME NEW s, Len(s) \in Nat, NEW I \in SUBSET (1..Len(s))
  PROVE  /\ FirstAt(s, I) # <<>> => \E i \in I : FirstAt(s, I) = <<s[i]>>
         /\ I # {} => FirstAt(s, I) # <<>>
         /\ 1 \in I => FirstAt(s, I) = <<s[1]>>
<1> DEFINE r == FirstAt(s, I)
<1>0. r = LET i == IF I # {} THEN Min(I) ELSE 0 IN IF i = 0 THEN <<>> ELSE <<s[i]>>
  BY Zenon DEF FirstAt
<1> HIDE DEF r
<1>1. CASE I = {}
  <2>1. r = <<>>
    BY <1>0, <1>1
  <2> QED  BY <1>1, <2>1 DEF r
<1>2. CASE I # {}
  <2> DEFINE m == Min(I)
             n == Len(s)
  <2>1. I \in SUBSET Nat
    <3>1. n \in Nat /\ I \subseteq 1..n
      OBVIOUS
    <3> HIDE DEF n
    <3> QED  BY <3>1
  <2>2. m \in I /\ \A j \in I : m <= j
    BY <1>2, <2>1, MinIsLeast, Zenon
  <2>3. m # 0
    <3>1. n \in Nat /\ I \subseteq 1..n
      OBVIOUS
    <3> HIDE DEF n, m
    <3> QED  BY <2>2, <3>1
  <2>4. r = <<s[m]>>
    BY <1>0, <1>2, <2>3, Zenon
  <2>5. 1 \in I => m = 1
    <3> HIDE DEF m
    <3> QED  BY <2>1, <2>2, <2>3
  <2> HIDE DEF m
  <2>6. r # <<>>
    BY <2>4
  <2> QED  BY <2>2, <2>4, <2>5, <2>6, Zenon DEF r
<1> QED
  BY <1>1, <1>2

\* A chain that verifies ends at a root that has the key the certificate was
\* signed with.
LEMMA ChainIsVouchedFor ==
  ASSUME NEW cert, NEW roots, Len(roots) \in Nat, verify_chain(cert, roots)
  PROVE  \E i \in 1..Len(roots) : roots[i].key = cert.by
<1> DEFINE I == {i \in 1..Len(roots) : roots[i].subject = cert.issuer}
           f == FirstOf(roots, LAMBDA r : r.subject = cert.issuer)
<1>1. f = FirstAt(roots, I)
  BY Zenon DEF FirstOf, SelectInSeq, FirstAt
<1>2. /\ f # <<>>
      /\ verify_chain_rsa(f[1], cert) \/ verify_chain_ecdsa_p384(f[1], cert)
  BY Zenon DEF verify_chain
<1> HIDE DEF f
<1>3. PICK i \in I : f[1] = roots[i]
  <2>1. I \in SUBSET (1..Len(roots))
    BY Zenon
  <2> HIDE DEF I
  <2>2. \E i \in I : f = <<roots[i]>>
    BY <1>1, <1>2, <2>1, FirstIsFound, Zenon
  <2>3. PICK i \in I : f = <<roots[i]>>
    BY <2>2, Zenon
  <2>4. f[1] = roots[i]
    BY <2>3
  <2> QED  BY <2>4, Zenon
<1>4. CASE verify_chain_rsa(f[1], cert)
  BY <1>3, <1>4, Zenon DEF verify_chain_rsa
<1>5. CASE verify_chain_ecdsa_p384(f[1], cert)
  <2>1. PICK alg : EcSign(cert.by, cert.id, alg, cert.rs).by = f[1].key
    BY <1>5, Zenon DEF verify_chain_ecdsa_p384, VerifyPrehash
  <2>2. EcSign(cert.by, cert.id, alg, cert.rs).by = cert.by
    BY DEF EcSign
  <2> QED  BY <1>3, <2>1, <2>2, Zenon
<1> QED
  BY <1>2, <1>4, <1>5

\* A certificate its own root has signed verifies where that root is the first of
\* its name, whatever octets the signature's numbers are.
LEMMA HonestChainVerifies ==
  ASSUME NEW a \in Authorities, NEW roots, a.root.kind = "p384",
         FirstOf(roots, LAMBDA r : r.subject = a.cert.issuer) # <<>>,
         FirstOf(roots, LAMBDA r : r.subject = a.cert.issuer)[1] = a.root
  PROVE  verify_chain(a.cert, roots)
<1> DEFINE alg == ECDSA_ALGS[a.cert.sigAlg]
           sig == EcSign(a.cert.by, a.cert.id, alg, a.cert.rs)
<1>1. /\ a.cert.by = a.root.key /\ a.cert.rs \in Signatures
      /\ a.cert.sigAlg \in DOMAIN ECDSA_ALGS
  <2>1. /\ a.cert.by = a.root.key /\ a.cert.rs \in Signatures
        /\ a.cert.sigAlg \in {"ecdsaSha256", "ecdsaSha384", "ecdsaSha512"}
    BY AuthoritiesAssumption, Zenon
  <2> QED  BY <2>1 DEF ECDSA_ALGS
<1>2. der_to_ecdsa_p384_signature(sig.der) = a.cert.rs
  BY <1>1, SignatureIsRead, Zenon
<1>3. sig.rs = a.cert.rs /\ sig.by = a.cert.by /\ sig.over = HashAs(alg, a.cert.id)
  <2> HIDE DEF alg
  <2> QED  BY Zenon DEF EcSign
<1>4. verify_chain_ecdsa_p384(a.root, a.cert)
  BY <1>1, <1>2, <1>3, Zenon DEF verify_chain_ecdsa_p384, VerifyPrehash
<1> QED
  BY <1>4, Zenon DEF verify_chain

-----------------------------------------------------------------------------
\* The fields of a token and of its signer.
TokenFields == {"form", "content", "type", "imprint", "certs", "fault", "ess", "by", "signers"}
SignerFields == {"sid", "issuer", "serial", "ski", "attrs", "alg", "sig"}

\* The parts of a token as a service made it.
LEMMA IssuedIsMade ==
  ASSUME NEW a, NEW d, NEW t \in Issued(a, d)
  PROVE  /\ DOMAIN t = TokenFields
         /\ t.form = "response" /\ t.content = "signedData" /\ t.imprint = d
         /\ t.fault = "none" /\ t.certs \in {<<>>, <<a.cert>>} /\ t.ess \in {1, 2, 3}
         /\ t.by = a.cert
         /\ \E alg \in {"sha256", "sha512"}, sid \in {"issuerAndSerial", "keyIdentifier"},
               rs \in Scalars :
              t.signers = <<SignerInfo(a, Attrs(d, alg, EssAttrs(t.ess, a.cert)), sid, rs)>>
<1>1. PICK certs \in {<<>>, <<a.cert>>}, v \in {1, 2, 3}, alg \in {"sha256", "sha512"},
           sid \in {"issuerAndSerial", "keyIdentifier"}, rs \in Scalars :
        t = [form |-> "response", content |-> "signedData", type |-> "tstInfo", imprint |-> d,
             certs |-> certs, fault |-> "none", ess |-> v, by |-> a.cert,
             signers |-> <<SignerInfo(a, Attrs(d, alg, EssAttrs(v, a.cert)), sid, rs)>>]
  BY SMT DEF Issued
<1> DEFINE q == <<SignerInfo(a, Attrs(d, alg, EssAttrs(v, a.cert)), sid, rs)>>
<1> HIDE DEF q
<1>2. /\ DOMAIN t = TokenFields
      /\ t.form = "response" /\ t.content = "signedData" /\ t.imprint = d
      /\ t.fault = "none" /\ t.certs = certs /\ t.ess = v /\ t.by = a.cert
  BY <1>1 DEF TokenFields
<1>3. t.signers = <<SignerInfo(a, Attrs(d, alg, EssAttrs(v, a.cert)), sid, rs)>>
  BY <1>1, Zenon
<1> QED
  BY <1>2, <1>3, Zenon

\* The parts of what it says of its signer.
LEMMA SignerIsMade ==
  ASSUME NEW a, NEW attrs, NEW sid, NEW rs, NEW s, s = SignerInfo(a, attrs, sid, rs)
  PROVE  /\ DOMAIN s = SignerFields
         /\ s.sid = sid /\ s.issuer = a.cert.issuer /\ s.serial = a.cert.serial
         /\ s.ski = a.cert.ski /\ s.attrs = attrs /\ s.alg = "ecdsaSha512"
         /\ s.sig = EcSign(a.cert.key, attrs, "sha512", rs)
<1> DEFINE g == EcSign(a.cert.key, attrs, "sha512", rs)
<1>1. s = [sid |-> sid, issuer |-> a.cert.issuer, serial |-> a.cert.serial, ski |-> a.cert.ski,
           attrs |-> attrs, alg |-> "ecdsaSha512", sig |-> g]
  BY Zenon DEF SignerInfo
<1> HIDE DEF g
<1>2. /\ DOMAIN s = SignerFields
      /\ s.sid = sid /\ s.issuer = a.cert.issuer /\ s.serial = a.cert.serial
      /\ s.ski = a.cert.ski /\ s.attrs = attrs /\ s.alg = "ecdsaSha512" /\ s.sig = g
  BY <1>1 DEF SignerFields
<1> QED
  BY <1>2, Zenon DEF g

\* What a token out of the transport can still be: what a parser refuses, without
\* a signer or what it signed, signed by somebody unknown, the service's word on
\* the digest it was given, or that word under another imprint.
Tells(token, a, d) ==
  /\ token.certs \in {<<>>, <<a.cert>>, <<Forged(a.cert)>>}
  /\ \/ ParseError(token) # "none"
     \/ token.signers = <<>>
     \/ token.signers[1].attrs = <<>>
     \/ token.signers[1].sig.by = "unknown"
     \/ token.signers[1].sig.by = a.cert.key /\ token.imprint = d
     \/ /\ token.imprint # d
        /\ \E alg, v : token.signers[1].attrs = Attrs(d, alg, EssAttrs(v, a.cert))

\* A token as it was made is the service's word.
LEMMA IssuedTells ==
  ASSUME NEW a, NEW d, NEW t \in Issued(a, d)
  PROVE  Tells(t, a, d)
<1>1. PICK alg, sid, rs :
        t.signers = <<SignerInfo(a, Attrs(d, alg, EssAttrs(t.ess, a.cert)), sid, rs)>>
  BY IssuedIsMade, SMT
<1>2. t.certs \in {<<>>, <<a.cert>>} /\ t.imprint = d
  BY IssuedIsMade, SMT
<1> DEFINE s == SignerInfo(a, Attrs(d, alg, EssAttrs(t.ess, a.cert)), sid, rs)
<1>3. s.sig = EcSign(a.cert.key, Attrs(d, alg, EssAttrs(t.ess, a.cert)), "sha512", rs)
  BY SignerIsMade, SMT
<1>4. s.sig.by = a.cert.key
  <2> HIDE DEF s
  <2> QED  BY <1>3, SMT DEF EcSign
<1> HIDE DEF s
<1>5. t.signers[1] = s
  BY <1>1, SMT DEF s
<1> QED
  BY <1>2, <1>4, <1>5, Zenon DEF Tells

\* Whatever befell a token, it is one of these, and marked as damaged.
LEMMA DamagedTells ==
  ASSUME NEW a, NEW d, NEW t \in Issued(a, d), NEW token \in Damaged(t, a, d)
  PROVE  Tells(token, a, d) /\ token.fault # "none"
<1> DEFINE s == t.signers[1]
           resign(attrs) ==
             [s EXCEPT !.attrs = attrs, !.sig = EcSign("unknown", attrs, "sha512", s.sig.rs)]
<1>1. PICK alg, sid, rs :
        t.signers = <<SignerInfo(a, Attrs(d, alg, EssAttrs(t.ess, a.cert)), sid, rs)>>
  BY IssuedIsMade, SMT
<1>2. /\ DOMAIN t = TokenFields /\ t.certs \in {<<>>, <<a.cert>>} /\ t.imprint = d
      /\ t.form = "response" /\ t.content = "signedData"
  BY IssuedIsMade, SMT
<1> DEFINE b == Attrs(d, alg, EssAttrs(t.ess, a.cert))
           g == EcSign(a.cert.key, b, "sha512", rs)
<1>3. t.signers = <<s>> /\ s = SignerInfo(a, b, sid, rs)
  <2> DEFINE q == SignerInfo(a, b, sid, rs)
  <2>1. t.signers = <<q>>
    BY <1>1, Zenon
  <2> HIDE DEF q
  <2>2. t.signers = <<t.signers[1]>> /\ t.signers[1] = q
    BY <2>1, SMT
  <2> QED  BY <2>2, Zenon DEF q
<1>4. DOMAIN s = SignerFields /\ s.attrs = b /\ s.sig = g
  <2> HIDE DEF s, b
  <2> QED  BY <1>3, SignerIsMade, SMT
<1>5. g.by = a.cert.key
  <2> HIDE DEF b
  <2> QED  BY SMT DEF EcSign
<1> DEFINE u(attrs) == EcSign("unknown", attrs, "sha512", s.sig.rs)
<1>6. \A attrs : u(attrs).by = "unknown"
  <2> HIDE DEF s
  <2> QED  BY SMT DEF EcSign
<1> HIDE DEF s, b, g
<1>7. ASSUME NEW attrs PROVE resign(attrs).sig.by = "unknown"
  <2> DEFINE x == u(attrs)
  <2>1. resign(attrs) = [s EXCEPT !.attrs = attrs, !.sig = x]
    BY Zenon
  <2>2. x.by = "unknown"
    BY <1>6, Zenon
  <2> HIDE DEF x, resign
  <2>3. resign(attrs).sig = x
    BY <1>4, <2>1, SMT DEF SignerFields
  <2> QED  BY <2>2, <2>3, Zenon
<1> DEFINE D1 == { [t EXCEPT !.fault = "imprint", !.imprint = e] : e \in Digests \ {d} }
           D2 == { [t EXCEPT !.fault = "forged", !.certs = <<Forged(a.cert)>>, !.imprint = e,
                             !.signers = <<resign(Attrs(e, "sha512", <<EssV1(Forged(a.cert))>>))>>] :
                   e \in Digests }
           old == [t EXCEPT !.fault = "old digest",
                            !.signers = <<resign(Attrs(d, "sha1", <<EssV1(a.cert)>>))>>]
           anew == [t EXCEPT !.fault = "re-signed", !.signers = <<resign(s.attrs)>>]
<1>8. \/ token \in D1
      \/ token \in D2
      \/ token = [t EXCEPT !.fault = "no token", !.content = "none"]
      \/ token = [t EXCEPT !.fault = "bare", !.form = "contentInfo"]
      \/ token = [t EXCEPT !.fault = "no content", !.imprint = "none"]
      \/ token = [t EXCEPT !.fault = "no signer", !.signers = <<>>]
      \/ token = [t EXCEPT !.fault = "no attributes", !.signers[1].attrs = <<>>]
      \/ token = [t EXCEPT !.fault = "algorithm", !.signers[1].alg = "rsaSha256"]
      \/ token = old
      \/ token = [t EXCEPT !.fault = "forged certificate", !.certs = <<Forged(a.cert)>>]
      \/ token = anew
  BY Zenon DEF Damaged, s
<1> HIDE DEF resign, u
<1>9. ASSUME NEW e \in Digests \ {d}, token = [t EXCEPT !.fault = "imprint", !.imprint = e]
      PROVE  Tells(token, a, d) /\ token.fault # "none"
  <2>1. token.certs = t.certs /\ token.imprint # d /\ token.signers = t.signers
        /\ token.fault = "imprint"
    BY <1>2, <1>9, SMT DEF TokenFields
  <2>2. token.signers[1].attrs = Attrs(d, alg, EssAttrs(t.ess, a.cert))
    BY <1>4, <2>1, Zenon DEF s, b
  <2> QED  BY <1>2, <2>1, <2>2, Zenon DEF Tells
<1>10. CASE token = [t EXCEPT !.fault = "no token", !.content = "none"]
  <2>1. token.certs = t.certs /\ token.content = "none" /\ token.fault = "no token"
    BY <1>2, <1>10, SMT DEF TokenFields
  <2> QED  BY <1>2, <2>1, Zenon DEF Tells, ParseError
<1>11. CASE token = [t EXCEPT !.fault = "bare", !.form = "contentInfo"]
  <2>1. token.certs = t.certs /\ token.form = "contentInfo" /\ token.fault = "bare"
    BY <1>2, <1>11, SMT DEF TokenFields
  <2> QED  BY <1>2, <2>1, Zenon DEF Tells, ParseError
<1>12. CASE token = [t EXCEPT !.fault = "no content", !.imprint = "none"]
  <2>1. token.certs = t.certs /\ token.imprint = "none" /\ token.fault = "no content"
    BY <1>2, <1>12, SMT DEF TokenFields
  <2> QED  BY <1>2, <2>1, Zenon DEF Tells, ParseError
<1>13. CASE token = [t EXCEPT !.fault = "no signer", !.signers = <<>>]
  <2>1. token.certs = t.certs /\ token.signers = <<>> /\ token.fault = "no signer"
    BY <1>2, <1>13, SMT DEF TokenFields
  <2> QED  BY <1>2, <2>1, Zenon DEF Tells
<1>14. CASE token = [t EXCEPT !.fault = "no attributes", !.signers[1].attrs = <<>>]
  <2>1. token.certs = t.certs /\ token.fault = "no attributes"
        /\ token.signers = [t.signers EXCEPT ![1].attrs = <<>>]
    BY <1>2, <1>14, SMT DEF TokenFields
  <2>2. token.signers = [t.signers EXCEPT ![1].attrs = <<>>]
    BY <2>1, Zenon
  <2>3. token.signers[1].attrs = <<>>
    BY <1>3, <1>4, <2>2, SMT DEF SignerFields
  <2> QED  BY <1>2, <2>1, <2>3, Zenon DEF Tells
<1>15. CASE token = [t EXCEPT !.fault = "algorithm", !.signers[1].alg = "rsaSha256"]
  <2>1. token.certs = t.certs /\ token.imprint = d /\ token.fault = "algorithm"
        /\ token.signers = [t.signers EXCEPT ![1].alg = "rsaSha256"]
    BY <1>2, <1>15, SMT DEF TokenFields
  <2>2. token.signers[1].sig = g
    BY <1>3, <1>4, <2>1, SMT DEF SignerFields
  <2> QED  BY <1>2, <1>5, <2>1, <2>2, Zenon DEF Tells
<1>16. ASSUME NEW fault, fault # "none", NEW attrs,
              token = [t EXCEPT !.fault = fault, !.signers = <<resign(attrs)>>]
       PROVE  Tells(token, a, d) /\ token.fault # "none"
  <2>1. token.certs = t.certs /\ token.fault = fault /\ token.signers[1] = resign(attrs)
    BY <1>2, <1>16, SMT DEF TokenFields
  <2> QED  BY <1>2, <1>7, <1>16, <2>1, Zenon DEF Tells
<1>17. CASE token = [t EXCEPT !.fault = "forged certificate", !.certs = <<Forged(a.cert)>>]
  <2>1. token.certs = <<Forged(a.cert)>> /\ token.imprint = d /\ token.signers = t.signers
        /\ token.fault = "forged certificate"
    BY <1>2, <1>17, SMT DEF TokenFields
  <2>2. token.signers[1].sig = g
    BY <1>4, <2>1, Zenon DEF s
  <2> QED  BY <1>2, <1>5, <2>1, <2>2, Zenon DEF Tells
<1>18. ASSUME NEW e \in Digests, NEW attrs,
              token = [t EXCEPT !.fault = "forged", !.certs = <<Forged(a.cert)>>, !.imprint = e,
                                !.signers = <<resign(attrs)>>]
       PROVE  Tells(token, a, d) /\ token.fault # "none"
  <2>1. /\ token.certs = <<Forged(a.cert)>> /\ token.fault = "forged"
        /\ token.signers[1] = resign(attrs)
    BY <1>2, <1>18, SMT DEF TokenFields
  <2> QED  BY <1>7, <2>1, Zenon DEF Tells
<1>19. CASE token \in D1
  BY <1>9, <1>19, Zenon
<1>20. CASE token \in D2
  BY <1>18, <1>20, Zenon
<1>21. CASE token = old \/ token = anew
  <2>1. "old digest" # "none" /\ "re-signed" # "none"
    BY Zenon
  <2> QED  BY <1>16, <1>21, <2>1, Zenon
<1> QED
  BY <1>8, <1>10, <1>11, <1>12, <1>13, <1>14, <1>15, <1>17, <1>19, <1>20, <1>21, Zenon

-----------------------------------------------------------------------------
\* The digest the signer's attributes hold is the one the token was made for.
LEMMA DigestIsFirst ==
  ASSUME NEW d, NEW alg, NEW v, NEW cert
  PROVE  /\ Attrs(d, alg, EssAttrs(v, cert)) # <<>>
         /\ extract_message_digest(Attrs(d, alg, EssAttrs(v, cert))) # <<>>
         /\ extract_message_digest(Attrs(d, alg, EssAttrs(v, cert)))[1].value = HashAs(alg, d)
<1> DEFINE e == EssAttrs(v, cert)
           m == [oid |-> "messageDigest", value |-> HashAs(alg, d)]
           q == <<m>> \o e
           I == {i \in 1..Len(q) : q[i].oid = "messageDigest"}
           f == extract_message_digest(Attrs(d, alg, e))
<1>1. f = FirstAt(q, I)
  <2> HIDE DEF e
  <2> QED  BY Zenon DEF extract_message_digest, Attrs, FirstOf, SelectInSeq, FirstAt
<1>2. Len(e) \in Nat
  <2>1. \/ e = <<EssV1(cert)>> \/ e = <<EssV2(cert)>> \/ e = <<EssV2(cert), EssV1(cert)>>
    BY SMT DEF EssAttrs
  <2> HIDE DEF e
  <2> QED  BY <2>1, SMT
<1> HIDE DEF e
<1>3. m.oid = "messageDigest" /\ m.value = HashAs(alg, d)
  BY Zenon
<1> HIDE DEF m
<1>4. Len(q) \in Nat /\ 1 \in 1..Len(q) /\ q[1] = m
  BY <1>2, SMT
<1>9. Attrs(d, alg, e) = q
  BY Zenon DEF Attrs, m
<1> HIDE DEF q
<1>10. q # <<>>
  BY <1>4, SMT
<1>5. I \in SUBSET (1..Len(q)) /\ 1 \in I
  BY <1>3, <1>4, Zenon
<1> HIDE DEF I, f
<1>6. f = <<q[1]>>
  BY <1>1, <1>4, <1>5, FirstIsFound, Zenon
<1>7. f = <<m>>
  BY <1>4, <1>6, Zenon
<1>8. f # <<>> /\ f[1] = m
  BY <1>7, SMT
<1> QED
  BY <1>3, <1>8, <1>9, <1>10, Zenon DEF f, e

\* What it takes to be accepted.
LEMMA AcceptedPasses ==
  ASSUME NEW token, NEW d, NEW trusted, NEW roots,
         verify_strict_with_certs(token, d, trusted, roots) = "ok"
  PROVE  LET signer == token.signers[1]
             digest == extract_message_digest(signer.attrs)
             cert   == locate_signer_cert(token.certs, signer, trusted)
         IN  /\ ParseError(token) = "none" /\ token.imprint = d /\ token.signers # <<>>
             /\ signer.attrs # <<>> /\ digest # <<>>
             /\ digest[1].value = HashAs(digest[1].value.alg, token.imprint)
             /\ cert # <<>> /\ verify_cms_signature_p384_sha512(signer, cert[1])
             /\ verify_chain(cert[1], roots)
<1>1. verify_strict(token, d) = "ok" /\ verify_signed_data(token, trusted, roots) = "ok"
  BY Zenon DEF verify_strict_with_certs
<1>2. ParseError(token) = "none" /\ token.imprint = d
  BY <1>1, Zenon DEF verify_strict, ParseError
<1> DEFINE signer == token.signers[1]
           digest == extract_message_digest(signer.attrs)
           cert == locate_signer_cert(token.certs, signer, trusted)
<1>3. /\ token.signers # <<>> /\ signer.attrs # <<>> /\ digest # <<>>
      /\ digest[1].value = HashAs(digest[1].value.alg, token.imprint)
      /\ cert # <<>> /\ verify_cms_signature_p384_sha512(signer, cert[1])
      /\ verify_chain(cert[1], roots)
  BY <1>1, Zenon DEF verify_signed_data
<1> QED
  BY <1>2, <1>3, Zenon

\* s holds nothing but c.
AtMost(s, c) == s \in {<<>>, <<c>>}

\* The certificate found is one of those at hand.
LEMMA CertificateIsAtHand ==
  ASSUME NEW c, NEW c2, NEW certs, NEW trusted, AtMost(certs, c), AtMost(trusted, c2),
         NEW signer, locate_signer_cert(certs, signer, trusted) # <<>>
  PROVE  \/ locate_signer_cert(certs, signer, trusted)[1] = c
         \/ locate_signer_cert(certs, signer, trusted)[1] = c2
<1> DEFINE q == certs \o trusted
           I == {i \in 1..Len(q) : cert_matches_signer(q[i], signer)}
           f == locate_signer_cert(certs, signer, trusted)
<1>1. f = FirstAt(q, I)
  BY Zenon DEF locate_signer_cert, FirstOf, SelectInSeq, FirstAt
<1>2. /\ Len(q) \in Nat
      /\ \A i \in 1..Len(q) : (certs = <<c>> /\ q[i] = c) \/ (trusted = <<c2>> /\ q[i] = c2)
  <2>1. CASE certs = <<c>> /\ trusted = <<c2>>
    <3>1. Len(q) = 2 /\ q[1] = c /\ q[2] = c2
      BY <2>1, SMT
    <3> DEFINE n == Len(q)
    <3>2. n = 2
      BY <3>1, Zenon
    <3> HIDE DEF q, n
    <3>3. n \in Nat /\ \A i \in 1..n : i = 1 \/ i = 2
      BY <3>2, SMT
    <3>4. \A i : i = 1 => q[i] = c
      BY <3>1, Zenon
    <3>5. \A i : i = 2 => q[i] = c2
      BY <3>1, Zenon
    <3>6. Len(q) \in Nat /\ \A i \in 1..Len(q) : i = 1 \/ i = 2
      BY <3>3, Zenon DEF n
    <3>7. ASSUME NEW i \in 1..Len(q) PROVE q[i] = c \/ q[i] = c2
      <4>1. i = 1 \/ i = 2
        BY <3>6, Zenon
      <4> QED  BY <3>4, <3>5, <4>1, Zenon
    <3> QED  BY <2>1, <3>6, <3>7, Zenon
  <2>2. CASE certs = <<c>> /\ trusted = <<>>
    <3>1. Len(q) = 1 /\ q[1] = c
      BY <2>2, SMT
    <3> DEFINE n == Len(q)
    <3>2. n = 1
      BY <3>1, Zenon
    <3> HIDE DEF q, n
    <3>3. n \in Nat /\ \A i \in 1..n : i = 1
      BY <3>2, SMT
    <3>4. \A i : i = 1 => q[i] = c
      BY <3>1, Zenon
    <3>5. Len(q) \in Nat /\ \A i \in 1..Len(q) : i = 1
      BY <3>3, Zenon DEF n
    <3>6. ASSUME NEW i \in 1..Len(q) PROVE q[i] = c
      <4>1. i = 1
        BY <3>5, Zenon
      <4> QED  BY <3>4, <4>1, Zenon
    <3> QED  BY <2>2, <3>5, <3>6, Zenon
  <2>3. CASE certs = <<>> /\ trusted = <<c2>>
    <3>1. q = <<c2>>
      BY <2>3
    <3> HIDE DEF q
    <3> QED  BY <2>3, <3>1
  <2>4. CASE certs = <<>> /\ trusted = <<>>
    <3>1. q = <<>>
      BY <2>4
    <3> HIDE DEF q
    <3> QED  BY <3>1
  <2> QED  BY <2>1, <2>2, <2>3, <2>4, Zenon DEF AtMost
<1> HIDE DEF q
<1>3. I \in SUBSET (1..Len(q))
  BY Zenon
<1>4. \A i \in I : i \in 1..Len(q)
  BY Zenon
<1>5. f # <<>>
  BY Zenon
<1> HIDE DEF I, f
<1>6. PICK i \in I : f = <<q[i]>>
  BY <1>1, <1>2, <1>3, <1>5, FirstIsFound, Zenon
<1>7. f[1] = q[i]
  BY <1>6, SMT
<1> QED
  BY <1>2, <1>4, <1>6, <1>7, Zenon DEF f

\* A forged certificate is signed by nobody a verifier knows.
LEMMA ForgedIsUnknown ==
  ASSUME NEW a \in Authorities
  PROVE  Forged(a.cert).by = "unknown"
<1> DEFINE c == a.cert
<1>1. {"key", "by", "id"} \subseteq DOMAIN c
  BY AuthoritiesAssumption, Zenon
<1> HIDE DEF c
<1>2. Forged(c).by = "unknown"
  BY <1>1, SMT DEF Forged
<1> QED
  BY <1>2, Zenon DEF c

\* What is accepted tells that a service of one of the roots has signed the digest.
LEMMA AcceptedIsStamped ==
  ASSUME NEW token, NEW a \in Authorities, NEW d, Tells(token, a, d),
         NEW e, NEW roots \in RootLists,
         NEW trusted \in {<<>>} \cup {<<b.cert>> : b \in Authorities},
         verify_strict_with_certs(token, e, trusted, roots) = "ok"
  PROVE  /\ e = d
         /\ \E b \in Authorities : /\ \E i \in 1..Len(roots) : roots[i].key = b.root.key
                                   /\ b.cert.key = a.cert.key
<1> DEFINE signer == token.signers[1]
           digest == extract_message_digest(signer.attrs)
           found == locate_signer_cert(token.certs, signer, trusted)
<1>1. /\ ParseError(token) = "none" /\ token.imprint = e /\ token.signers # <<>>
      /\ signer.attrs # <<>> /\ digest # <<>>
      /\ digest[1].value = HashAs(digest[1].value.alg, token.imprint)
      /\ found # <<>> /\ verify_cms_signature_p384_sha512(signer, found[1])
      /\ verify_chain(found[1], roots)
  BY AcceptedPasses, Zenon
<1>2. token.certs \in {<<>>, <<a.cert>>, <<Forged(a.cert)>>}
  BY Zenon DEF Tells
<1>3. \/ found[1] = Forged(a.cert)
      \/ \E b \in Authorities : found[1] = b.cert
  <2>1. PICK c \in {a.cert, Forged(a.cert)} : token.certs \in {<<>>, <<c>>}
    BY <1>2, Zenon
  <2>2. PICK b \in Authorities : trusted \in {<<>>, <<b.cert>>}
    BY Zenon
  <2> HIDE DEF signer
  <2>3. found[1] = c \/ found[1] = b.cert
    <3>1. found # <<>>
      BY <1>1, Zenon
    <3>2. AtMost(token.certs, c) /\ AtMost(trusted, b.cert)
      BY <2>1, <2>2, Zenon DEF AtMost
    <3>3. \A x, y, z, k : AtMost(k, x) /\ AtMost(z, y) /\ locate_signer_cert(k, signer, z) # <<>>
                     => \/ locate_signer_cert(k, signer, z)[1] = x
                        \/ locate_signer_cert(k, signer, z)[1] = y
      BY CertificateIsAtHand, SMT
    <3> QED  BY <3>1, <3>2, <3>3, Zenon
  <2> QED  BY <2>1, <2>3, Zenon
<1>4. PICK i \in 1..Len(roots) : roots[i].key = found[1].by
  <2>1. Len(roots) \in Nat
    <3>1. roots \in Seq(Range(roots))
      BY RootsAssumption, Zenon
    <3> QED  BY <3>1
  <2>2. verify_chain(found[1], roots)
    BY <1>1, Zenon
  <2> HIDE DEF found
  <2> QED  BY <2>1, <2>2, ChainIsVouchedFor, Zenon
<1>5. roots[i].key # "unknown"
  BY RootsAssumption, Zenon
<1>6. found[1] # Forged(a.cert)
  BY <1>4, <1>5, ForgedIsUnknown, Zenon
<1>7. PICK b \in Authorities : found[1] = b.cert
  BY <1>3, <1>6, Zenon
<1>8. b.cert.by = b.root.key /\ b.cert.key # "unknown"
  BY AuthoritiesAssumption, Zenon
<1>9. signer.sig.by = b.cert.key
  BY <1>1, <1>7, Zenon DEF verify_cms_signature_p384_sha512, VerifyPrehash
<1>10. ~(/\ token.imprint # d
         /\ \E alg, v : signer.attrs = Attrs(d, alg, EssAttrs(v, a.cert)))
  <2> SUFFICES ASSUME NEW alg, NEW v, token.imprint # d,
                      signer.attrs = Attrs(d, alg, EssAttrs(v, a.cert))
               PROVE  FALSE
    BY Zenon
  <2>1. digest[1].value = HashAs(alg, d)
    <3>1. extract_message_digest(Attrs(d, alg, EssAttrs(v, a.cert)))[1].value = HashAs(alg, d)
      BY DigestIsFirst, Zenon
    <3> QED  BY <3>1, Zenon
  <2> HIDE DEF digest
  <2>2. HashAs(alg, d) = HashAs(digest[1].value.alg, token.imprint)
    BY <1>1, <2>1, Zenon
  <2>3. HashAs(alg, d).of = d /\ HashAs(digest[1].value.alg, token.imprint).of = token.imprint
    BY Zenon DEF HashAs
  <2> QED  BY <2>2, <2>3, Zenon
<1>11. signer.sig.by = a.cert.key /\ token.imprint = d
  BY <1>1, <1>8, <1>9, <1>10, Zenon DEF Tells
<1> QED
  BY <1>1, <1>4, <1>7, <1>8, <1>9, <1>11, Zenon

-----------------------------------------------------------------------------
\* The binding of a version 1 attribute is found behind the digest, and behind one
\* of version 2, and fits the certificate it was made for.
LEMMA EssBinds ==
  ASSUME NEW d, NEW alg, NEW v \in {1, 3}, NEW cert, cert.id \in Nat
  PROVE  verify_ess_signing_certificate(Attrs(d, alg, EssAttrs(v, cert)), cert)
<1> DEFINE m == [oid |-> "messageDigest", value |-> HashAs(alg, d)]
           e1 == EssV1(cert)
           e2 == EssV2(cert)
           q == Attrs(d, alg, EssAttrs(v, cert))
           I == {i \in 1..Len(q) : /\ q[i].oid = "signingCertificate"
                                   /\ extract_ess_cert_hash_v1(q[i].value) # <<>>}
           f == FirstOf(q, LAMBDA x : /\ x.oid = "signingCertificate"
                                      /\ extract_ess_cert_hash_v1(x.value) # <<>>)
<1>1. f = FirstAt(q, I)
  BY Zenon DEF FirstOf, SelectInSeq, FirstAt
<1>2. /\ e1.oid = "signingCertificate"
      /\ extract_ess_cert_hash_v1(e1.value) = CertHash("sha1", cert)
      /\ extract_ess_cert_hash_v1(e1.value) # <<>>
  BY EssIsRead, Zenon
<1>3. m.oid # "signingCertificate" /\ e2.oid # "signingCertificate"
  BY Zenon DEF EssV2
<1> HIDE DEF m, e1, e2
<1>4. /\ Len(q) \in Nat
      /\ \A i \in 1..Len(q) : q[i] \in {m, e1, e2}
      /\ \E i \in 1..Len(q) : q[i] = e1
  <2>1. CASE v = 1
    <3>1. q = <<m>> \o <<e1>>
      BY <2>1 DEF Attrs, EssAttrs, m, e1
    <3> HIDE DEF q
    <3>2. Len(q) = 2 /\ q[1] = m /\ q[2] = e1
      BY <3>1, SMT
    <3> DEFINE n == Len(q)
    <3> HIDE DEF n
    <3>3. n = 2
      BY <3>2, Zenon DEF n
    <3>4. n \in Nat /\ 2 \in 1..n /\ \A i \in 1..n : i = 1 \/ i = 2
      BY <3>3, SMT
    <3>5. ASSUME NEW i \in 1..Len(q) PROVE q[i] \in {m, e1, e2}
      <4>1. i = 1 \/ i = 2
        BY <3>4, Zenon DEF n
      <4> QED  BY <3>2, <4>1, Zenon
    <3> QED  BY <3>2, <3>4, <3>5, Zenon DEF n
  <2>2. CASE v = 3
    <3>1. q = <<m>> \o <<e2, e1>>
      BY <2>2 DEF Attrs, EssAttrs, m, e1, e2
    <3> HIDE DEF q
    <3>2. Len(q) = 3 /\ q[1] = m /\ q[2] = e2 /\ q[3] = e1
      BY <3>1, SMT
    <3> DEFINE n == Len(q)
    <3> HIDE DEF n
    <3>3. n = 3
      BY <3>2, Zenon DEF n
    <3>4. n \in Nat /\ 3 \in 1..n /\ \A i \in 1..n : i = 1 \/ i = 2 \/ i = 3
      BY <3>3, SMT
    <3>5. ASSUME NEW i \in 1..Len(q) PROVE q[i] \in {m, e1, e2}
      <4>1. i = 1 \/ i = 2 \/ i = 3
        BY <3>4, Zenon DEF n
      <4> QED  BY <3>2, <4>1, Zenon
    <3> QED  BY <3>2, <3>4, <3>5, Zenon DEF n
  <2> QED  BY <2>1, <2>2, Zenon
<1> HIDE DEF q
<1>5. /\ I \in SUBSET (1..Len(q)) /\ I # {} /\ \A i \in I : q[i] = e1
  BY <1>2, <1>3, <1>4, Zenon
<1> HIDE DEF I, f
<1>6. f # <<>>
  BY <1>1, <1>4, <1>5, FirstIsFound, Zenon
<1>7. PICK i \in I : f = <<q[i]>>
  BY <1>1, <1>4, <1>5, <1>6, FirstIsFound, Zenon
<1>8. f[1] = q[i]
  BY <1>7, SMT
<1>9. extract_ess_cert_hash_v1(f[1].value) = CertHash("sha1", cert)
  BY <1>2, <1>5, <1>8, Zenon
<1> QED
  BY <1>6, <1>9, Zenon DEF f, q, verify_ess_signing_certificate

\* A token as its service made it is accepted where its chain verifies.
LEMMA HonestIsAccepted ==
  ASSUME NEW a \in Authorities, NEW d \in Digests, NEW t \in Issued(a, d),
         t.ess \in {1, 3},
         NEW trusted \in {<<>>} \cup {<<b.cert>> : b \in Authorities},
         t.certs # <<>> \/ trusted = <<a.cert>>, NEW roots, verify_chain(a.cert, roots)
  PROVE  verify_strict_with_certs(t, d, trusted, roots) = "ok"
<1>1. PICK alg \in {"sha256", "sha512"}, sid \in {"issuerAndSerial", "keyIdentifier"},
           rs \in Scalars :
        t.signers = <<SignerInfo(a, Attrs(d, alg, EssAttrs(t.ess, a.cert)), sid, rs)>>
  BY IssuedIsMade, SMT
<1>2. /\ t.certs \in {<<>>, <<a.cert>>} /\ t.imprint = d /\ t.form = "response"
      /\ t.content = "signedData"
  BY IssuedIsMade, SMT
<1> DEFINE b == Attrs(d, alg, EssAttrs(t.ess, a.cert))
           g == EcSign(a.cert.key, b, "sha512", rs)
           s == t.signers[1]
           digest == extract_message_digest(s.attrs)
           found == locate_signer_cert(t.certs, s, trusted)
<1>3. t.signers # <<>> /\ s = SignerInfo(a, b, sid, rs)
  <2> DEFINE q == SignerInfo(a, b, sid, rs)
  <2>1. t.signers = <<q>>
    BY <1>1, Zenon
  <2> HIDE DEF q
  <2>2. t.signers # <<>> /\ t.signers[1] = q
    BY <2>1, SMT
  <2> QED  BY <2>2, Zenon DEF q
<1>4. /\ s.sid = sid /\ s.issuer = a.cert.issuer /\ s.serial = a.cert.serial
      /\ s.ski = a.cert.ski /\ s.attrs = b /\ s.alg = "ecdsaSha512" /\ s.sig = g
  <2> HIDE DEF s, b
  <2> QED  BY <1>3, SignerIsMade, SMT
<1>5. b # <<>> /\ digest # <<>> /\ digest[1].value = HashAs(alg, d)
  <2>1. /\ b # <<>> /\ extract_message_digest(b) # <<>>
        /\ extract_message_digest(b)[1].value = HashAs(alg, d)
    BY DigestIsFirst, SMT
  <2> HIDE DEF b, s
  <2> QED  BY <1>4, <2>1, Zenon
<1>6. /\ a.cert.kind = "p384" /\ a.cert.id \in Nat
  BY AuthoritiesAssumption, Zenon
<1>7. verify_ess_signing_certificate(b, a.cert)
  BY <1>6, EssBinds, Zenon
<1>8. der_to_ecdsa_p384_signature(g.der) = rs
  <2>1. rs \in Signatures
    BY ScalarsAssumption, Zenon
  <2> QED  BY <2>1, SignatureIsRead, Zenon
<1>9. g.by = a.cert.key /\ g.rs = rs /\ g.over = HashAs("sha512", b)
  <2> HIDE DEF b
  <2> QED  BY SMT DEF EcSign
<1> HIDE DEF b, g
<1>10. verify_cms_signature_p384_sha512(s, a.cert)
  <2> HIDE DEF s
  <2> QED  BY <1>4, <1>6, <1>8, <1>9, Zenon DEF verify_cms_signature_p384_sha512, VerifyPrehash
<1>11. found = <<a.cert>>
  <2> DEFINE q == t.certs \o trusted
             I == {i \in 1..Len(q) : cert_matches_signer(q[i], s)}
  <2>1. found = FirstAt(q, I)
    <3> HIDE DEF s
    <3> QED  BY Zenon DEF locate_signer_cert, FirstOf, SelectInSeq, FirstAt
  <2> HIDE DEF s, found
  <2>2. cert_matches_signer(a.cert, s)
    BY <1>4, Zenon DEF cert_matches_signer
  <2>3. Len(trusted) \in Nat
    <3>1. trusted = <<>> \/ \E x : trusted = <<x>>
      BY Zenon
    <3> QED  BY <3>1, SMT
  <2>4. Len(q) \in Nat /\ 1 \in 1..Len(q) /\ q[1] = a.cert
    <3>1. CASE t.certs = <<a.cert>>
      BY <2>3, <3>1, SMT
    <3>2. CASE t.certs = <<>>
      <4>1. trusted = <<a.cert>>
        BY <3>2
      <4>2. q = <<>> \o <<a.cert>>
        BY <3>2, <4>1
      <4> HIDE DEF q
      <4> QED  BY ONLY <4>2, SMT
    <3> QED  BY <1>2, <3>1, <3>2
  <2> HIDE DEF q
  <2>5. I \in SUBSET (1..Len(q)) /\ 1 \in I
    BY <2>2, <2>4, Zenon
  <2> HIDE DEF I
  <2> QED  BY <2>1, <2>4, <2>5, FirstIsFound, Zenon
<1>12. found # <<>> /\ found[1] = a.cert
  <2> HIDE DEF found
  <2> QED  BY <1>11, SMT
<1> HIDE DEF s, found, digest
<1>13. digest[1].value.alg = alg
  <2>1. HashAs(alg, d).alg = alg
    BY Zenon DEF HashAs
  <2> QED  BY <1>5, <2>1, Zenon
<1>14. verify_signed_data(t, trusted, roots) = "ok"
  BY <1>2, <1>3, <1>4, <1>5, <1>7, <1>10, <1>12, <1>13, Zenon
  DEF verify_signed_data, s, digest, found
<1>15. verify_strict(t, d) = "ok"
  <2>1. d # "none"
    BY DigestsAssumption, Zenon
  <2>2. ParseError(t) = "none"
    BY <1>2, <2>1, Zenon DEF ParseError
  <2> QED  BY <1>2, <2>2, Zenon DEF verify_strict
<1> QED
  BY <1>14, <1>15, Zenon DEF verify_strict_with_certs

-----------------------------------------------------------------------------
\* The two sides of VerificationIsRight follow from what the token is and from the
\* verdict being on that token.
LEMMA VerdictIsRight == tsInv => VerificationIsRight
<1> SUFFICES ASSUME tsInv, tsVerdict.how = "certs" PROVE VerificationIsRight
  BY Zenon DEF VerificationIsRight, VerifiedWasStamped, HonestEcV1TokenIsVerified, AcceptedWhenHonest
<1>1. PICK d \in Digests, roots \in RootLists,
           trusted \in {<<>>} \cup {<<b.cert>> : b \in Authorities} :
        tsVerdict = [how |-> "certs", digest |-> d, trusted |-> trusted, roots |-> roots,
                     result |-> verify_strict_with_certs(tsToken, d, trusted, roots)]
  BY Zenon DEF tsInv, VerdictOf
<1> DEFINE r == verify_strict_with_certs(tsToken, d, trusted, roots)
<1>2. /\ tsVerdict.digest = d /\ tsVerdict.trusted = trusted /\ tsVerdict.roots = roots
      /\ tsVerdict.result = r
  <2> HIDE DEF r
  <2> QED  BY <1>1, Zenon DEF r
<1>3. tsToken.form # "empty" /\ TokenOf(tsToken, tsStamped)
  BY Zenon DEF tsInv, VerdictOf
<1>4. tsToken # NoToken
  <2>1. NoToken.form = "empty"
    BY Zenon DEF NoToken
  <2> QED  BY <1>3, <2>1, Zenon
<1>5. ASSUME tsVerdict.result = "ok"
      PROVE  \E a \in Authorities :
               /\ \E i \in 1..Len(tsVerdict.roots) : tsVerdict.roots[i].key = a.root.key
               /\ <<a.cert.key, tsVerdict.digest>> \in tsStamped
  <2>1. r = "ok"
    BY <1>2, <1>5, Zenon
  <2>2. ParseError(tsToken) = "none"
    BY <2>1, AcceptedPasses, Zenon
  <2>3. tsToken # Rejection
    <3>1. Rejection.form = "response" /\ Rejection.content = "none"
      BY Zenon DEF Rejection
    <3>2. ParseError(Rejection) # "none"
      BY <3>1, Zenon DEF ParseError
    <3> QED  BY <2>2, <3>2, Zenon
  <2>4. PICK a \in Authorities, e \in Digests :
          /\ <<a.cert.key, e>> \in tsStamped
          /\ \/ tsToken \in Issued(a, e)
             \/ \E t \in Issued(a, e) : tsToken \in Damaged(t, a, e)
    BY <1>3, <1>4, <2>3, Zenon DEF TokenOf
  <2>5. Tells(tsToken, a, e)
    BY <2>4, IssuedTells, DamagedTells, Zenon
  <2>6. /\ d = e
        /\ \E b \in Authorities : /\ \E i \in 1..Len(roots) : roots[i].key = b.root.key
                                  /\ b.cert.key = a.cert.key
    BY <2>1, <2>5, AcceptedIsStamped, SMT
  <2> QED  BY <1>2, <2>4, <2>6, Zenon
<1>6. ASSUME tsToken.fault = "none", tsToken.ess \in {1, 3},
             tsToken.certs # <<>> \/ tsVerdict.trusted = <<tsToken.by>>,
             tsVerdict.digest = tsToken.imprint, NEW a \in Authorities, tsToken.by = a.cert,
             FirstOf(tsVerdict.roots, LAMBDA x : x.subject = a.cert.issuer) # <<>>,
             FirstOf(tsVerdict.roots, LAMBDA x : x.subject = a.cert.issuer)[1] = a.root,
             a.root.kind = "p384"
      PROVE  tsVerdict.result = "ok"
  <2>1. tsToken # Rejection
    <3>1. Rejection.fault = "rejection"
      BY Zenon DEF Rejection
    <3> QED  BY <1>6, <3>1, Zenon
  <2>2. PICK b \in Authorities, e \in Digests : tsToken \in Issued(b, e)
    BY <1>3, <1>4, <1>6, <2>1, DamagedTells, Zenon DEF TokenOf
  <2>3. tsToken.imprint = e /\ tsToken.by = b.cert
    BY <2>2, IssuedIsMade, SMT
  <2>4. b.cert = a.cert
    BY <1>6, <2>3, Zenon
  <2>5. verify_chain(b.cert, roots)
    BY <1>2, <1>6, <2>4, HonestChainVerifies, Zenon
  <2>6. verify_strict_with_certs(tsToken, e, trusted, roots) = "ok"
    <3>1. tsToken.certs # <<>> \/ trusted = <<b.cert>>
      BY <1>2, <1>6, <2>4, Zenon
    <3> QED  BY <1>6, <2>2, <2>5, <3>1, HonestIsAccepted, Zenon
  <2> QED  BY <1>2, <1>6, <2>3, <2>6, Zenon
<1>7. VerifiedWasStamped
  BY <1>5, Zenon DEF VerifiedWasStamped
<1>8. HonestEcV1TokenIsVerified
  BY <1>6, Zenon DEF HonestEcV1TokenIsVerified, AcceptedWhenHonest
<1> QED
  BY <1>7, <1>8 DEF VerificationIsRight

-----------------------------------------------------------------------------
(* The services together                                                   *)

\* A behaviour of MCServices exercises one part: every step of it is a step of
\* each part, or leaves that part where it is.
LEMMA ServicesRunAlone ==
  [Next]_vars => /\ [krNext]_krVars /\ [tkNext]_tkVars /\ [raNext]_raVars
                 /\ [brNext]_brVars /\ [bsNext]_bsVars /\ [tsNext]_tsVars
<1> SUFFICES ASSUME [Next]_vars
             PROVE  /\ [krNext]_krVars /\ [tkNext]_tkVars /\ [raNext]_raVars
                    /\ [brNext]_brVars /\ [bsNext]_bsVars /\ [tsNext]_tsVars
  OBVIOUS
<1>1. CASE Next
  BY <1>1 DEF Next
<1>2. CASE UNCHANGED vars
  BY <1>2 DEF vars
<1>3. QED
  BY <1>1, <1>2

\* What was signed can be checked for a grace period, across any number of
\* rotations and evictions; and however processes race for the key file of a
\* tenant, none serves on a torn key and no tenant is given another's room.
THEOREM KeysStaySound == Spec => []KeysAreSound
<1>1. Init => krInv /\ tkInv
  BY RotationStarts, TenantsStart DEF Init
<1>2. (krInv /\ tkInv) /\ [Next]_vars => (krInv /\ tkInv)'
  BY ServicesRunAlone, RotationSteps, TenantsStep
<1>3. krInv /\ tkInv => KeysAreSound
  BY HeldCanBeChecked, TenantsStayApart DEF KeysAreSound
<1>4. QED
  BY <1>1, <1>2, <1>3, PTL DEF Spec

\* What a packet says of its Rekor entry is so, whatever client the process
\* was started with, however the log and the time-out race, and across
\* restarts: a packet with an entry of a real log is in that log, at the place
\* the entry names unless cosign's answer was bare and names none, and the mock
\* never gives two packets of one process the same place.
THEOREM EntriesStayHonest == Spec => []EntriesAreHonest
<1>1. Init => raInv
  BY AnchoringStarts DEF Init
<1>2. raInv /\ [Next]_vars => raInv'
  BY ServicesRunAlone, AnchoringSteps
<1>3. raInv => EntriesAreHonest
  BY AnchoredAreHonest
<1>4. QED
  BY <1>1, <1>2, <1>3, PTL DEF Spec

\* Band's answers reach those who asked, for any number of calls, rooms and
\* handles and however late an answer is: a request that timed out takes the
\* bridge's stdout with it, so its answer is never read by the next request;
\* and every line a shim prints is a reply told to the request of its ref or
\* an event that reaches the owner once and in order.
THEOREM BandAnswersStayTheirOwn == Spec => []BandAnswersAreTheirOwn
<1>1. Init => brInv /\ bsInv
  BY RoomsStart, SocketsStart DEF Init
<1>2. (brInv /\ bsInv) /\ [Next]_vars => (brInv /\ bsInv)'
  BY ServicesRunAlone, RoomsStep, SocketsStep
<1>3. brInv /\ bsInv => BandAnswersAreTheirOwn
  BY RoomsAreSound, SocketsAreSound DEF BandAnswersAreTheirOwn
<1>4. QED
  BY <1>1, <1>2, <1>3, PTL DEF Spec

\* A verdict of the full verification is right both ways, for any services, roots
\* and digests and for numbers of any octets in the signatures.  What is accepted
\* was stamped by a service one of the verifier's roots vouches for, whatever
\* befell the token on its way.  And a token as its service made it, with an ESS
\* attribute of version 1, is accepted where the signer's certificate is in the
\* token or in the verifier's list and the first root of the issuer's name is the
\* service's, elliptic-curve one.
THEOREM VerificationStaysRight == Spec => []VerificationIsRight
<1>1. Init => tsInv
  BY StampingStarts DEF Init
<1>2. tsInv /\ [Next]_vars => tsInv'
  BY ServicesRunAlone, StampingSteps
<1>3. tsInv => VerificationIsRight
  BY VerdictIsRight
<1>4. QED
  BY <1>1, <1>2, <1>3, PTL DEF Spec

===============================================================================
