---------------------------- MODULE NotaryProofs ----------------------------
(***************************************************************************)
(* Proofs about the notary of the control plane, for any number of         *)
(* overlapping calls, any contents and submitters, any limit of the list   *)
(* and any number of crashes; and about the receipts, its second half, for *)
(* any keys and payloads.                                                  *)
(***************************************************************************)
EXTENDS Notary, SequenceTheorems, FiniteSetTheorems, WellFoundedInduction, NaturalsInduction, TLAPS

\* q is a sequence, of whatever elements: the rows of the table hold contents
\* and submitters, of which nothing is known.
IsTable(q) == Len(q) \in Nat /\ q = [i \in 1..Len(q) |-> q[i]]

\* What a call that listed the first n rows of the table and found no
\* certificate of its content knows: each that there was is older than the
\* Limit newest of its submitter.
NoneListed(table, content, org, n) ==
  \A i \in 1..n :
    table[i].content = content /\ table[i].org = org
    => Limit <= Cardinality({k \in 1..n :
         table[k].org = org /\ table[k].notarized_at > table[i].notarized_at})

\* A certificate, saved or about to be: it is dated by its id, its envelope is
\* of its own content and submitter, and the log entry it names is its own.
Sound(rec, table, lg, now) ==
  /\ rec.cert_id \in Nat /\ rec.cert_id < now
  /\ rec.notarized_at = rec.cert_id
  /\ rec.cose.content = rec.content /\ rec.cose.org = rec.org
  /\ rec.entry # None => rec.entry \in 1..Len(lg) /\ lg[rec.entry] = rec.cert_id
  /\ rec.seen \in 0..Len(table)
  /\ NoneListed(table, rec.content, rec.org, rec.seen)

\* The row is the certificate id, for the content and the submitter of args.
RowOf(newrow, id, args) ==
  newrow.cert_id = id /\ newrow.content = args.content /\ newrow.org = args.org

\* What a call knows at each of its awaits.
Knows(call, table, lg, now) ==
  /\ call.pc = "replay" => \E i \in 1..Len(table) : RowOf(table[i], call.found, call.args)
  /\ call.pc = "issue" => /\ call.seen \in 0..Len(table)
                          /\ NoneListed(table, call.args.content, call.args.org, call.seen)
  /\ call.pc = "save" => /\ Sound(call.rec, table, lg, now)
                         /\ call.rec.content = call.args.content
                         /\ call.rec.org = call.args.org
  /\ call.pc = "replied" => \E i \in 1..Len(table) :
       RowOf(table[i], call.cert_id, call.args) /\ table[i].cose = call.cose

TableOK ==
  /\ IsTable(certs) /\ ledger \in Seq(Nat) /\ clock \in Nat \ {0}
  /\ \A i \in 1..Len(certs) : Sound(certs[i], certs, ledger, clock) /\ certs[i].seen < i

\* An id is drawn once: no two rows have it, no two calls are about to save
\* it, and no call is about to save one that a row has.
IdsAreDrawnOnce ==
  /\ \A i, j \in 1..Len(certs) : certs[i].cert_id = certs[j].cert_id => i = j
  /\ \A c \in Requests : noCalls[c].pc = "save" =>
       \A i \in 1..Len(certs) : certs[i].cert_id # noCalls[c].rec.cert_id
  /\ \A c, d \in Requests :
       c # d /\ noCalls[c].pc = "save" /\ noCalls[d].pc = "save"
       => noCalls[c].rec.cert_id # noCalls[d].rec.cert_id

\* The inductive invariant.
noInv ==
  /\ TableOK
  /\ noCalls = [c \in Requests |-> noCalls[c]]
  /\ \A c \in Requests : Knows(noCalls[c], certs, ledger, clock)
  /\ IdsAreDrawnOnce

-----------------------------------------------------------------------------
(* Facts about tables.                                                     *)

\* What committing a row does to the table.
LEMMA CommitRow ==
  ASSUME NEW q, NEW e, IsTable(q)
  PROVE  /\ IsTable(Append(q, e))
         /\ Len(Append(q, e)) = Len(q) + 1
         /\ \A i \in 1..Len(q) : Append(q, e)[i] = q[i]
         /\ Append(q, e)[Len(q) + 1] = e
<1> DEFINE S == {q[i] : i \in 1..Len(q)} \cup {e}
<1>1. q \in Seq(S) /\ e \in S
  <2>1. q \in [1..Len(q) -> S] /\ Len(q) \in Nat
    BY DEF IsTable
  <2> QED
    BY <2>1, IsASeq
<1> HIDE DEF S
<1>2. /\ Append(q, e) \in Seq(S)
      /\ Len(Append(q, e)) = Len(q) + 1
      /\ \A i \in 1..Len(q) : Append(q, e)[i] = q[i]
      /\ Append(q, e)[Len(q) + 1] = e
  BY <1>1, AppendProperties
<1>3. Len(Append(q, e)) \in Nat /\ Append(q, e) \in [1..Len(Append(q, e)) -> S]
  BY <1>2, LenProperties
<1>4. Append(q, e) = [i \in 1..Len(Append(q, e)) |-> Append(q, e)[i]]
  BY <1>3
<1> QED
  BY <1>2, <1>3, <1>4 DEF IsTable

\* What was not listed depends on the rows there were, not on later ones.
LEMMA LaterRowsDoNotCount ==
  ASSUME NEW q, NEW p, NEW x, NEW o, NEW n \in Nat,
         \A i \in 1..n : p[i] = q[i], NoneListed(q, x, o, n)
  PROVE  NoneListed(p, x, o, n)
<1> SUFFICES ASSUME NEW i \in 1..n, p[i].content = x, p[i].org = o
             PROVE  Limit <= Cardinality({k \in 1..n :
                       p[k].org = o /\ p[k].notarized_at > p[i].notarized_at})
  BY DEF NoneListed
<1>1. {k \in 1..n : p[k].org = o /\ p[k].notarized_at > p[i].notarized_at}
        = {k \in 1..n : q[k].org = o /\ q[k].notarized_at > q[i].notarized_at}
  OBVIOUS
<1>2. Limit <= Cardinality({k \in 1..n :
                 q[k].org = o /\ q[k].notarized_at > q[i].notarized_at})
  BY DEF NoneListed
<1> QED
  BY <1>1, <1>2

\* A set of natural numbers that is not empty has a least element.
LEMMA LeastNumber ==
  ASSUME NEW S \in SUBSET Nat, S # {}
  PROVE  \E m \in S : \A k \in S : m <= k
<1>1. PICK m \in S : \A k \in S : ~(<<k, m>> \in OpToRel(<, Nat))
  BY WFMin, NatLessThanWellFounded
<1>2. ASSUME NEW k \in S PROVE m <= k
  <2>1. ~(k < m)
    BY <1>1 DEF OpToRel
  <2> QED
    BY <2>1
<1> QED
  BY <1>2

\* Rows that are dated before the present have a newest among them.
LEMMA NewestRow ==
  ASSUME NEW q, NEW S, S # {}, NEW now \in Nat,
         \A i \in S : q[i].notarized_at \in Nat /\ q[i].notarized_at < now
  PROVE  \E i \in S : \A j \in S : q[j].notarized_at <= q[i].notarized_at
<1> DEFINE age(i) == now - q[i].notarized_at
<1>1. {age(i) : i \in S} \in SUBSET Nat
  OBVIOUS
<1>2. {age(i) : i \in S} # {}
  OBVIOUS
<1>3. PICK m \in {age(i) : i \in S} : \A k \in {age(i) : i \in S} : m <= k
  BY <1>1, <1>2, LeastNumber
<1>4. PICK i \in S : m = age(i)
  BY <1>3
<1>5. ASSUME NEW j \in S PROVE q[j].notarized_at <= q[i].notarized_at
  <2>1. age(i) <= age(j)
    BY <1>3, <1>4
  <2> QED
    BY <2>1
<1> QED
  BY <1>5

\* The table and the log have grown, and what they held they hold.
Grown(table, lg, now, table2, lg2, now2) ==
  /\ Len(table) \in Nat /\ Len(table2) \in Nat /\ Len(table) <= Len(table2)
  /\ \A i \in 1..Len(table) : table2[i] = table[i]
  /\ Len(lg) \in Nat /\ Len(lg2) \in Nat /\ Len(lg) <= Len(lg2)
  /\ \A i \in 1..Len(lg) : lg2[i] = lg[i]
  /\ now \in Nat /\ now2 \in Nat /\ now <= now2

\* A certificate stays sound while rows, entries and ids are added.
LEMMA SoundStays ==
  ASSUME NEW rec, NEW table, NEW lg, NEW now, NEW table2, NEW lg2, NEW now2,
         Grown(table, lg, now, table2, lg2, now2), Sound(rec, table, lg, now)
  PROVE  Sound(rec, table2, lg2, now2)
<1>1. rec.seen \in Nat /\ \A i \in 1..rec.seen : table2[i] = table[i]
  BY SMTT(60) DEF Grown, Sound
<1>2. NoneListed(table, rec.content, rec.org, rec.seen)
  BY DEF Sound
<1>3. NoneListed(table2, rec.content, rec.org, rec.seen)
  BY <1>1, <1>2, LaterRowsDoNotCount
<1>4. rec.entry # None => rec.entry \in 1..Len(lg2) /\ lg2[rec.entry] = rec.cert_id
  BY DEF Grown, Sound
<1> QED
  BY <1>3, <1>4, SMTT(60) DEF Grown, Sound

\* What a call knows stays so while others go on.
LEMMA KnowledgeStays ==
  ASSUME NEW call, NEW table, NEW lg, NEW now, NEW table2, NEW lg2, NEW now2,
         Grown(table, lg, now, table2, lg2, now2), Knows(call, table, lg, now)
  PROVE  Knows(call, table2, lg2, now2)
<1>1. CASE call.pc = "replay"
  BY <1>1 DEF Knows, Grown
<1>2. CASE call.pc = "issue"
  <2>1. /\ call.seen \in 0..Len(table)
        /\ NoneListed(table, call.args.content, call.args.org, call.seen)
    BY <1>2 DEF Knows
  <2>2. call.seen \in Nat /\ \A i \in 1..call.seen : table2[i] = table[i]
    BY <2>1 DEF Grown
  <2>3. NoneListed(table2, call.args.content, call.args.org, call.seen)
    BY <2>1, <2>2, LaterRowsDoNotCount
  <2> QED
    BY <1>2, <2>1, <2>3 DEF Knows, Grown
<1>3. CASE call.pc = "save"
  <2>1. Sound(call.rec, table2, lg2, now2)
    BY <1>3, SoundStays DEF Knows
  <2> QED
    BY <1>3, <2>1 DEF Knows
<1>4. CASE call.pc = "replied"
  BY <1>4 DEF Knows, Grown
<1> QED
  BY <1>1, <1>2, <1>3, <1>4 DEF Knows

-----------------------------------------------------------------------------
(* The steps of a call.                                                    *)

\* A step that leaves the table alone, and may extend the log and draw an id,
\* leaves the table sound.
LEMMA TableStays ==
  ASSUME noInv, certs' = certs, clock' \in Nat, clock <= clock',
         ledger' = ledger \/ \E n \in Nat : ledger' = Append(ledger, n)
  PROVE  TableOK' /\ Grown(certs, ledger, clock, certs', ledger', clock')
<1>1. IsTable(certs) /\ ledger \in Seq(Nat) /\ clock \in Nat \ {0}
  BY DEF noInv, TableOK
<1>2. /\ ledger' \in Seq(Nat) /\ Len(ledger) <= Len(ledger')
      /\ \A i \in 1..Len(ledger) : ledger'[i] = ledger[i]
  <2>1. CASE ledger' = ledger
    BY <1>1, <2>1, LenProperties
  <2>2. CASE \E n \in Nat : ledger' = Append(ledger, n)
    BY <1>1, <2>2, AppendProperties, LenProperties
  <2> QED
    BY <2>1, <2>2
<1>3. Len(ledger) \in Nat /\ Len(ledger') \in Nat /\ Len(certs) \in Nat
  BY <1>1, <1>2, LenProperties DEF IsTable
<1>4. Grown(certs, ledger, clock, certs', ledger', clock')
  BY <1>1, <1>2, <1>3 DEF Grown
<1>5. ASSUME NEW i \in 1..Len(certs)
      PROVE  Sound(certs[i], certs, ledger', clock') /\ certs[i].seen < i
  <2>1. Sound(certs[i], certs, ledger, clock) /\ certs[i].seen < i
    BY DEF noInv, TableOK
  <2>2. Sound(certs[i], certs', ledger', clock')
    BY <1>4, <2>1, SoundStays
  <2> QED
    BY <2>1, <2>2
<1>6. clock' \in Nat \ {0}
  BY <1>1
<1> QED
  BY <1>1, <1>2, <1>4, <1>5, <1>6 DEF TableOK

\* The calls other than the one that moves know what they knew.
LEMMA OneCallMoves ==
  ASSUME noInv, NEW c \in Requests, NEW new, noCalls' = [noCalls EXCEPT ![c] = new],
         Grown(certs, ledger, clock, certs', ledger', clock'),
         Knows(new, certs', ledger', clock')
  PROVE  /\ noCalls' = [d \in Requests |-> noCalls'[d]]
         /\ \A d \in Requests : Knows(noCalls'[d], certs', ledger', clock')
         /\ noCalls'[c] = new /\ \A d \in Requests \ {c} : noCalls'[d] = noCalls[d]
<1>1. noCalls = [d \in Requests |-> noCalls[d]]
  BY DEF noInv
<1>2. noCalls'[c] = new /\ \A d \in Requests \ {c} : noCalls'[d] = noCalls[d]
  BY <1>1
<1>3. noCalls' = [d \in Requests |-> noCalls'[d]]
  BY <1>1
<1>4. ASSUME NEW d \in Requests \ {c} PROVE Knows(noCalls'[d], certs', ledger', clock')
  <2>1. Knows(noCalls[d], certs, ledger, clock)
    BY DEF noInv
  <2>2. Knows(noCalls[d], certs', ledger', clock')
    BY <2>1, KnowledgeStays
  <2> QED
    BY <1>2, <2>2
<1> QED
  BY <1>2, <1>3, <1>4

\* A step of one call that saves nothing and has nothing to save afterwards.
LEMMA PlainStep ==
  ASSUME noInv, NEW c \in Requests, NEW new, noCalls' = [noCalls EXCEPT ![c] = new],
         certs' = certs, clock' \in Nat, clock <= clock',
         ledger' = ledger \/ \E n \in Nat : ledger' = Append(ledger, n),
         new.pc # "save", Knows(new, certs', ledger', clock')
  PROVE  noInv'
<1>1. TableOK' /\ Grown(certs, ledger, clock, certs', ledger', clock')
  BY TableStays
<1>2. /\ noCalls' = [d \in Requests |-> noCalls'[d]]
      /\ \A d \in Requests : Knows(noCalls'[d], certs', ledger', clock')
      /\ noCalls'[c] = new /\ \A d \in Requests \ {c} : noCalls'[d] = noCalls[d]
  BY <1>1, OneCallMoves
<1>3. \A d \in Requests : noCalls'[d].pc = "save" => d # c /\ noCalls'[d] = noCalls[d]
  BY <1>2
<1>4. IdsAreDrawnOnce'
  BY <1>3 DEF noInv, IdsAreDrawnOnce
<1> QED
  BY <1>1, <1>2, <1>4 DEF noInv

\* A call that knows nothing yet, or no longer.
LEMMA KnowsNothing ==
  ASSUME NEW call, call.pc \in {"idle", "list", "failed"},
         NEW table, NEW lg, NEW now
  PROVE  Knows(call, table, lg, now)
BY DEF Knows

\* A request arrives.
LEMMA PostKeeps ==
  ASSUME noInv, NEW c \in Requests, NEW args, post_notarize(c, args)
  PROVE  noInv'
<1> DEFINE new == [pc |-> "list", args |-> args]
<1>1. Knows(new, certs', ledger', clock')
  BY KnowsNothing
<1>2. clock \in Nat /\ clock <= clock
  BY DEF noInv, TableOK
<1> QED
  BY <1>1, <1>2, PlainStep DEF post_notarize

\* The idempotency check finds a row of the call's own content and submitter,
\* or has seen that each such row is older than the list goes back.
LEMMA CheckKeeps ==
  ASSUME noInv, NEW c \in Requests, CheckExisting(c)
  PROVE  noInv'
<1> DEFINE args == noCalls[c].args
           mine == {i \in DOMAIN certs : certs[i].org = args.org}
           Newer(i) == {j \in mine : certs[j].notarized_at > certs[i].notarized_at}
           listed == {i \in mine : Cardinality(Newer(i)) < Limit}
           same == {i \in listed : certs[i].content = args.content}
           newest == CHOOSE i \in same : \A j \in same :
                       certs[j].notarized_at <= certs[i].notarized_at
           new == [pc |-> IF same = {} THEN "issue" ELSE "replay", args |-> args,
                   found |-> IF same = {} THEN None ELSE certs[newest].cert_id,
                   seen |-> Len(certs)]
<1>1. /\ noCalls' = [noCalls EXCEPT ![c] = new]
      /\ certs' = certs /\ ledger' = ledger /\ clock' = clock
  BY DEF CheckExisting, list_certificates
<1>2. Len(certs) \in Nat /\ DOMAIN certs = 1..Len(certs) /\ clock \in Nat
  <2>1. certs = [i \in 1..Len(certs) |-> certs[i]]
    BY DEF noInv, TableOK, IsTable
  <2> QED
    BY <2>1 DEF noInv, TableOK, IsTable
<1>3. CASE same = {}
  <2>1. NoneListed(certs, args.content, args.org, Len(certs))
    <3> SUFFICES ASSUME NEW i \in 1..Len(certs),
                        certs[i].content = args.content, certs[i].org = args.org
                 PROVE  Limit <= Cardinality({k \in 1..Len(certs) :
                           certs[k].org = args.org
                           /\ certs[k].notarized_at > certs[i].notarized_at})
      BY DEF NoneListed
    <3>1. i \in mine /\ i \notin listed
      BY <1>2, <1>3
    <3>2. ~(Cardinality(Newer(i)) < Limit)
      BY <3>1, Zenon
    <3>3. Newer(i) = {k \in 1..Len(certs) :
                        certs[k].org = args.org
                        /\ certs[k].notarized_at > certs[i].notarized_at}
      BY <1>2
    <3>4. Newer(i) \subseteq 1..Len(certs)
      BY <1>2
    <3>5. IsFiniteSet(1..Len(certs))
      BY <1>2, FS_Interval
    <3>6. Cardinality(Newer(i)) \in Nat
      BY ONLY <3>4, <3>5, FS_Subset, FS_CardinalityType, Zenon
    <3> HIDE DEF Newer
    <3>7. Limit <= Cardinality(Newer(i))
      BY <3>2, <3>6, LimitAssumption
    <3> QED
      BY ONLY <3>3, <3>7
  <2>2. new.pc = "issue" /\ new.seen = Len(certs) /\ new.args = args
    BY <1>3
  <2> HIDE DEF new, same, args
  <2>3. Knows(new, certs, ledger, clock)
    BY <1>2, <2>1, <2>2 DEF Knows
  <2>4. new.pc # "save" /\ Knows(new, certs', ledger', clock')
    BY <1>1, <2>2, <2>3
  <2>5. clock' \in Nat /\ clock <= clock'
    BY <1>1, <1>2
  <2> QED
    BY ONLY noInv, c \in Requests, <1>1, <2>4, <2>5, PlainStep, Zenon
<1>4. CASE same # {}
  <2>1. \A i \in same : /\ i \in 1..Len(certs)
                        /\ certs[i].content = args.content /\ certs[i].org = args.org
    BY <1>2
  <2>2. \A i \in same : certs[i].notarized_at \in Nat /\ certs[i].notarized_at < clock
    BY <2>1 DEF noInv, TableOK, Sound
  <2> HIDE DEF same
  <2>3. \E i \in same : \A j \in same : certs[j].notarized_at <= certs[i].notarized_at
    BY <1>2, <1>4, <2>2, NewestRow
  <2>4. newest \in same
    BY <2>3
  <2>5. new.pc = "replay" /\ new.found = certs[newest].cert_id /\ new.args = args
    BY <1>4
  <2> HIDE DEF new, newest, args
  <2>6. newest \in 1..Len(certs) /\ RowOf(certs[newest], new.found, new.args)
    BY <2>1, <2>4, <2>5 DEF RowOf
  <2>7. Knows(new, certs, ledger, clock)
    BY <2>5, <2>6 DEF Knows
  <2>8. new.pc # "save" /\ Knows(new, certs', ledger', clock')
    BY <1>1, <2>5, <2>7
  <2>9. clock' \in Nat /\ clock <= clock'
    BY <1>1, <1>2
  <2> QED
    BY ONLY noInv, c \in Requests, <1>1, <2>8, <2>9, PlainStep, Zenon
<1> QED
  BY <1>3, <1>4

\* A call that fails.
LEMMA FailKeeps ==
  ASSUME noInv, NEW c \in Requests, NEW id, Fail(c, id), certs' = certs,
         clock' \in Nat, clock <= clock',
         ledger' = ledger \/ \E n \in Nat : ledger' = Append(ledger, n)
  PROVE  noInv'
<1> DEFINE new == [pc |-> "failed", args |-> noCalls[c].args, lost |-> id]
<1>1. noCalls' = [noCalls EXCEPT ![c] = new]
  BY DEF Fail
<1>2. Knows(new, certs', ledger', clock') /\ new.pc # "save"
  BY KnowsNothing
<1> HIDE DEF new
<1> QED
  BY <1>1, <1>2, PlainStep

\* Signing, timestamping, anchoring and rendering: the certificate that the
\* call is about to save has an id of its own and names its own log entry.
LEMMA IssueKeeps ==
  ASSUME noInv, NEW c \in Requests, Issue(c)
  PROVE  noInv'
<1> DEFINE args == noCalls[c].args
<1>1. PICK sig \in SignOutcomes(signer, clock), anchor \in submit, down \in Outages :
        /\ ledger' = IF sig.ok /\ Accepted(anchor) THEN Append(ledger, clock) ELSE ledger
        /\ IF ~sig.ok \/ anchor = "undecodable"
           THEN Fail(c, clock)
           ELSE noCalls' = [noCalls EXCEPT ![c] =
                  [pc |-> "save", args |-> args,
                   rec |-> [cert_id |-> clock, content |-> args.content,
                            org |-> args.org, notarized_at |-> clock,
                            cose |-> CoseSign1(args, clock, sig.key),
                            tsa |-> timestamp(down),
                            entry |-> IF anchor = "entry"
                                      THEN Len(ledger) + 1 ELSE None,
                            wm |-> WatermarkResult(args, down),
                            pdf |-> generate(down), seen |-> noCalls[c].seen]]]
  BY DEF Issue
<1>2. /\ noCalls[c].pc = "issue" /\ certs' = certs
      /\ clock \in Nat \ {0} /\ clock' = clock + 1 /\ ledger \in Seq(Nat)
  BY DEF Issue, noInv, TableOK
<1>3. clock' \in Nat /\ clock <= clock'
  BY <1>2
<1>4. ledger' = ledger \/ \E n \in Nat : ledger' = Append(ledger, n)
  BY <1>1, <1>2
<1>5. TableOK' /\ Grown(certs, ledger, clock, certs', ledger', clock')
  BY <1>2, <1>3, <1>4, TableStays
<1>6. CASE ~sig.ok \/ anchor = "undecodable"
  BY <1>1, <1>2, <1>3, <1>4, <1>6, FailKeeps
<1>7. CASE ~(~sig.ok \/ anchor = "undecodable")
  <2> DEFINE rec == [cert_id |-> clock, content |-> args.content,
                     org |-> args.org, notarized_at |-> clock,
                     cose |-> CoseSign1(args, clock, sig.key),
                     tsa |-> timestamp(down),
                     entry |-> IF anchor = "entry" THEN Len(ledger) + 1 ELSE None,
                     wm |-> WatermarkResult(args, down),
                     pdf |-> generate(down), seen |-> noCalls[c].seen]
             new == [pc |-> "save", args |-> args, rec |-> rec]
  <2>1. noCalls' = [noCalls EXCEPT ![c] = new]
    BY <1>1, <1>7
  <2>2. /\ rec.cert_id = clock /\ rec.notarized_at = clock
        /\ rec.content = args.content /\ rec.org = args.org
        /\ rec.cose.content = args.content /\ rec.cose.org = args.org
        /\ rec.seen = noCalls[c].seen
    BY DEF CoseSign1
  <2>3. rec.entry # None =>
          rec.entry \in 1..Len(ledger') /\ ledger'[rec.entry] = rec.cert_id
    <3>1. CASE anchor = "entry"
      <4>1. ledger' = Append(ledger, clock)
        BY <1>1, <1>7, <3>1 DEF Accepted
      <4>2. /\ Len(ledger) \in Nat /\ Len(ledger') = Len(ledger) + 1
            /\ ledger'[Len(ledger) + 1] = clock
        BY <1>2, <4>1, AppendProperties, LenProperties
      <4>3. rec.entry = Len(ledger) + 1
        BY <3>1
      <4> QED
        BY <4>2, <4>3
    <3>2. CASE anchor # "entry"
      BY <3>2
    <3> QED
      BY <3>1, <3>2
  <2>4. new.pc = "save" /\ new.rec = rec /\ new.args = args
    OBVIOUS
  <2>5. /\ noCalls[c].seen \in 0..Len(certs)
        /\ NoneListed(certs, args.content, args.org, noCalls[c].seen)
    BY <1>2 DEF noInv, Knows
  <2> HIDE DEF rec, new
  <2>6. Sound(rec, certs', ledger', clock')
    BY <1>2, <2>2, <2>3, <2>5 DEF Sound
  <2>7. Knows(new, certs', ledger', clock')
    BY <2>2, <2>4, <2>6 DEF Knows
  <2>8. /\ noCalls' = [d \in Requests |-> noCalls'[d]]
        /\ \A d \in Requests : Knows(noCalls'[d], certs', ledger', clock')
        /\ noCalls'[c] = new /\ \A d \in Requests \ {c} : noCalls'[d] = noCalls[d]
    BY ONLY noInv, c \in Requests, <1>5, <2>1, <2>7, OneCallMoves, Zenon
  <2>9. IdsAreDrawnOnce'
    <3>1. \A i \in 1..Len(certs) : certs[i].cert_id < clock /\ certs[i].cert_id \in Nat
      BY DEF noInv, TableOK, Sound
    <3>2. \A d \in Requests : noCalls[d].pc = "save" =>
            noCalls[d].rec.cert_id < clock /\ noCalls[d].rec.cert_id \in Nat
      BY DEF noInv, Knows, Sound
    <3>3. noCalls'[c].rec.cert_id = clock
      BY <2>2, <2>4, <2>8
    <3>4. ASSUME NEW d \in Requests, noCalls'[d].pc = "save", NEW i \in 1..Len(certs)
          PROVE  certs[i].cert_id # noCalls'[d].rec.cert_id
      <4>1. CASE d = c
        BY <1>2, <3>1, <3>3, <4>1
      <4>2. CASE d # c
        BY <2>8, <3>4, <4>2 DEF noInv, IdsAreDrawnOnce
      <4> QED
        BY <4>1, <4>2
    <3>5. ASSUME NEW d1 \in Requests, NEW d2 \in Requests, d1 # d2,
                 noCalls'[d1].pc = "save", noCalls'[d2].pc = "save"
          PROVE  noCalls'[d1].rec.cert_id # noCalls'[d2].rec.cert_id
      <4>1. CASE d1 = c
        BY <1>2, <2>8, <3>2, <3>3, <3>5, <4>1
      <4>2. CASE d2 = c
        BY <1>2, <2>8, <3>2, <3>3, <3>5, <4>2
      <4>3. CASE d1 # c /\ d2 # c
        BY <2>8, <3>5, <4>3 DEF noInv, IdsAreDrawnOnce
      <4> QED
        BY <4>1, <4>2, <4>3
    <3>6. \A i, j \in 1..Len(certs) : certs[i].cert_id = certs[j].cert_id => i = j
      BY DEF noInv, IdsAreDrawnOnce
    <3> QED
      BY <1>2, <3>4, <3>5, <3>6 DEF IdsAreDrawnOnce
  <2> QED
    BY <1>5, <2>8, <2>9 DEF noInv
<1> QED
  BY <1>6, <1>7

\* The commit of a row, or its failure.
LEMMA SaveKeeps ==
  ASSUME noInv, NEW c \in Requests, SaveCertificate(c)
  PROVE  noInv'
<1> DEFINE rec == noCalls[c].rec
<1>1. noCalls[c].pc = "save" /\ ledger' = ledger /\ clock' = clock
  BY DEF SaveCertificate
<1>2. /\ Sound(rec, certs, ledger, clock)
      /\ rec.content = noCalls[c].args.content /\ rec.org = noCalls[c].args.org
      /\ \A i \in 1..Len(certs) : certs[i].cert_id # rec.cert_id
  BY <1>1 DEF noInv, Knows, IdsAreDrawnOnce
<1>3. /\ IsTable(certs) /\ Len(certs) \in Nat /\ clock \in Nat \ {0}
      /\ ledger \in Seq(Nat) /\ Len(ledger) \in Nat
  BY LenProperties DEF noInv, TableOK, IsTable
<1>4. CASE Fail(c, rec.cert_id) /\ UNCHANGED certs
  <2>1. clock' \in Nat /\ clock <= clock'
    BY <1>1, <1>3
  <2> QED
    BY <1>1, <1>4, <2>1, FailKeeps
<1>5. CASE certs' = Append(certs, Row(rec)) /\ Reply(c, rec, rec.wm)
  <2> DEFINE newrow == Row(rec)
             new == [pc |-> "replied", args |-> noCalls[c].args, cert_id |-> rec.cert_id,
                     cose |-> rec.cose, entry |-> rec.entry, wm |-> rec.wm]
  <2>1. noCalls' = [noCalls EXCEPT ![c] = new]
    BY <1>5 DEF Reply
  <2>2. /\ newrow.cert_id = rec.cert_id /\ newrow.content = rec.content /\ newrow.org = rec.org
        /\ newrow.notarized_at = rec.notarized_at /\ newrow.cose = rec.cose
        /\ newrow.entry = rec.entry /\ newrow.seen = rec.seen
    BY DEF Row
  <2>3. /\ new.pc = "replied" /\ new.args = noCalls[c].args
        /\ new.cert_id = rec.cert_id /\ new.cose = rec.cose
    OBVIOUS
  <2> HIDE DEF newrow, new, rec
  <2>4. /\ IsTable(certs') /\ Len(certs') = Len(certs) + 1
        /\ \A i \in 1..Len(certs) : certs'[i] = certs[i]
        /\ certs'[Len(certs) + 1] = newrow
    BY <1>3, <1>5, CommitRow DEF newrow
  <2>5. Grown(certs, ledger, clock, certs', ledger', clock')
    BY <1>1, <1>3, <2>4 DEF Grown
  <2>6. Sound(newrow, certs', ledger', clock') /\ newrow.seen < Len(certs) + 1
    <3>1. Sound(newrow, certs, ledger, clock)
      BY <1>2, <2>2 DEF Sound
    <3>2. Sound(newrow, certs', ledger', clock')
      BY <2>5, <3>1, SoundStays
    <3> QED
      BY <1>3, <3>1, <3>2 DEF Sound
  <2>7. TableOK'
    <3>1. ASSUME NEW i \in 1..Len(certs')
          PROVE  Sound(certs'[i], certs', ledger', clock') /\ certs'[i].seen < i
      <4>1. CASE i = Len(certs) + 1
        BY <2>4, <2>6, <4>1
      <4>2. CASE i # Len(certs) + 1
        <5>1. i \in 1..Len(certs)
          BY <1>3, <2>4, <4>2
        <5>2. Sound(certs[i], certs, ledger, clock) /\ certs[i].seen < i
          BY <5>1 DEF noInv, TableOK
        <5>3. Sound(certs[i], certs', ledger', clock')
          BY <2>5, <5>2, SoundStays
        <5> QED
          BY <2>4, <5>1, <5>2, <5>3
      <4> QED
        BY <4>1, <4>2
    <3> QED
      BY <1>1, <1>3, <2>4, <3>1 DEF TableOK
  <2>8. Knows(new, certs', ledger', clock')
    <3>1. /\ RowOf(certs'[Len(certs) + 1], new.cert_id, new.args)
          /\ certs'[Len(certs) + 1].cose = new.cose
      BY <1>2, <2>2, <2>3, <2>4 DEF RowOf, rec
    <3>2. Len(certs) + 1 \in 1..Len(certs')
      BY <1>3, <2>4
    <3> QED
      BY <2>3, <3>1, <3>2 DEF Knows
  <2>9. /\ noCalls' = [d \in Requests |-> noCalls'[d]]
        /\ \A d \in Requests : Knows(noCalls'[d], certs', ledger', clock')
        /\ noCalls'[c] = new /\ \A d \in Requests \ {c} : noCalls'[d] = noCalls[d]
    BY ONLY noInv, c \in Requests, <2>5, <2>1, <2>8, OneCallMoves, Zenon
  <2>10. IdsAreDrawnOnce'
    <3>1. ASSUME NEW i \in 1..Len(certs')
          PROVE  \/ i \in 1..Len(certs) /\ certs'[i] = certs[i]
                 \/ i = Len(certs) + 1 /\ certs'[i].cert_id = rec.cert_id
      BY <1>3, <2>2, <2>4
    <3>2. ASSUME NEW i \in 1..Len(certs'), NEW j \in 1..Len(certs'),
                 certs'[i].cert_id = certs'[j].cert_id
          PROVE  i = j
      BY <1>2, <3>1, <3>2 DEF noInv, IdsAreDrawnOnce
    <3>3. ASSUME NEW d \in Requests, noCalls'[d].pc = "save"
          PROVE  d # c /\ noCalls'[d] = noCalls[d]
      BY <2>3, <2>9, <3>3
    <3>4. ASSUME NEW d \in Requests, noCalls'[d].pc = "save", NEW i \in 1..Len(certs')
          PROVE  certs'[i].cert_id # noCalls'[d].rec.cert_id
      <4>1. d # c /\ noCalls'[d] = noCalls[d] /\ noCalls[d].pc = "save"
        BY <3>3, <3>4
      <4>2. rec.cert_id # noCalls[d].rec.cert_id
        BY <1>1, <4>1 DEF noInv, IdsAreDrawnOnce, rec
      <4>3. \A k \in 1..Len(certs) : certs[k].cert_id # noCalls[d].rec.cert_id
        BY <4>1 DEF noInv, IdsAreDrawnOnce
      <4> QED
        BY <3>1, <4>1, <4>2, <4>3
    <3>5. \A d1, d2 \in Requests :
            d1 # d2 /\ noCalls'[d1].pc = "save" /\ noCalls'[d2].pc = "save"
            => noCalls'[d1].rec.cert_id # noCalls'[d2].rec.cert_id
      BY <3>3 DEF noInv, IdsAreDrawnOnce
    <3> QED
      BY <3>2, <3>4, <3>5 DEF IdsAreDrawnOnce
  <2> QED
    BY <2>7, <2>9, <2>10 DEF noInv
<1> QED
  BY <1>4, <1>5 DEF SaveCertificate

\* The answer of the idempotent path is built from the one row with the id.
LEMMA ReplayKeeps ==
  ASSUME noInv, NEW c \in Requests, Replay(c)
  PROVE  noInv'
<1> DEFINE found == noCalls[c].found
           k == get_certificate(found)
           new == [pc |-> "replied", args |-> noCalls[c].args, cert_id |-> certs[k].cert_id,
                   cose |-> certs[k].cose, entry |-> certs[k].entry, wm |-> "none"]
<1>1. /\ noCalls[c].pc = "replay" /\ noCalls' = [noCalls EXCEPT ![c] = new]
      /\ certs' = certs /\ ledger' = ledger /\ clock' = clock
  BY DEF Replay, Reply
<1>2. PICK i \in 1..Len(certs) : RowOf(certs[i], found, noCalls[c].args)
  BY <1>1 DEF noInv, Knows
<1>3. DOMAIN certs = 1..Len(certs) /\ clock \in Nat
  <2>1. certs = [j \in 1..Len(certs) |-> certs[j]] /\ Len(certs) \in Nat
    BY DEF noInv, TableOK, IsTable
  <2> QED
    BY <2>1 DEF noInv, TableOK
<1>4. k \in 1..Len(certs) /\ certs[k].cert_id = found
  BY <1>2, <1>3 DEF get_certificate, RowOf
<1>5. k = i
  BY <1>2, <1>4 DEF noInv, IdsAreDrawnOnce, RowOf
<1>6. /\ new.pc = "replied" /\ new.args = noCalls[c].args
      /\ new.cert_id = certs[k].cert_id /\ new.cose = certs[k].cose
  OBVIOUS
<1> HIDE DEF new, k
<1>7. Knows(new, certs', ledger', clock')
  BY <1>1, <1>2, <1>4, <1>5, <1>6 DEF Knows, RowOf
<1>8. clock' \in Nat /\ clock <= clock' /\ new.pc # "save"
  BY <1>1, <1>3, <1>6
<1> QED
  BY ONLY noInv, c \in Requests, <1>1, <1>7, <1>8, PlainStep, Zenon

\* A crash fails the calls in flight and loses no row, entry or answer.
LEMMA CrashKeeps ==
  ASSUME noInv, Crash
  PROVE  noInv'
<1>1. /\ certs' = certs /\ ledger' = ledger /\ clock' = clock /\ clock \in Nat
      /\ noCalls' = [c \in Requests |->
           IF noCalls[c].pc \in {"list", "issue", "replay", "save"}
           THEN [pc |-> "failed", args |-> noCalls[c].args,
                 lost |-> IF noCalls[c].pc = "save" THEN noCalls[c].rec.cert_id ELSE None]
           ELSE noCalls[c]]
  BY DEF Crash, noInv, TableOK
<1>2. TableOK'
  BY <1>1, TableStays
<1>3. ASSUME NEW c \in Requests
      PROVE  noCalls'[c].pc # "save" /\ Knows(noCalls'[c], certs', ledger', clock')
  <2>1. CASE noCalls[c].pc \in {"list", "issue", "replay", "save"}
    <3>1. noCalls'[c].pc = "failed"
      BY <1>1, <2>1
    <3> QED
      BY <3>1, KnowsNothing
  <2>2. CASE noCalls[c].pc \notin {"list", "issue", "replay", "save"}
    <3>1. noCalls'[c] = noCalls[c] /\ noCalls[c].pc # "save"
      BY <1>1, <2>2
    <3> QED
      BY <1>1, <3>1 DEF noInv
  <2> QED
    BY <2>1, <2>2
<1>4. noCalls' = [c \in Requests |-> noCalls'[c]]
  BY <1>1
<1>5. IdsAreDrawnOnce'
  BY <1>1, <1>3 DEF noInv, IdsAreDrawnOnce
<1> QED
  BY <1>2, <1>3, <1>4, <1>5 DEF noInv

-----------------------------------------------------------------------------
(* The log.                                                                *)

\* The log holds ids that were drawn.
Accounted == {id \in Nat : IsAccountedFor(id)}

LedgerInv == LedgerIsExplained /\ \A n \in DOMAIN ledger : ledger[n] < clock

\* What accounts for an id goes on doing so: a row stays, a call that was about
\* to save saves or fails, a failed one stays failed.
LEMMA AccountsStay ==
  ASSUME noInv, [noNext]_noVars, NEW id, IsAccountedFor(id)
  PROVE  IsAccountedFor(id)'
<1>0. /\ DOMAIN certs = 1..Len(certs) /\ IsTable(certs)
      /\ noCalls = [c \in Requests |-> noCalls[c]]
  <2>1. IsTable(certs)
    BY DEF noInv, TableOK
  <2>2. certs = [i \in 1..Len(certs) |-> certs[i]]
    BY <2>1 DEF IsTable
  <2> QED
    BY <2>1, <2>2 DEF noInv
<1>1. ASSUME NEW c \in Requests, NEW x, noCalls[c].pc # "save", noCalls[c].pc # "failed",
             noCalls' = [noCalls EXCEPT ![c] = x], certs' = certs
      PROVE  IsAccountedFor(id)'
  <2>1. \A d \in Requests : d # c => noCalls'[d] = noCalls[d]
    BY <1>0, <1>1
  <2> QED
    BY <1>1, <2>1 DEF IsAccountedFor
<1>2. ASSUME NEW c \in Requests, SaveCertificate(c) PROVE IsAccountedFor(id)'
  <2>1. \A d \in Requests : d # c => noCalls'[d] = noCalls[d]
    BY <1>0, <1>2 DEF SaveCertificate, Reply, Fail
  <2>2. noCalls[c].pc = "save"
    BY <1>2 DEF SaveCertificate
  <2>3. CASE certs' = Append(certs, Row(noCalls[c].rec))
    <3>1. /\ IsTable(certs') /\ Len(certs') = Len(certs) + 1
          /\ \A i \in 1..Len(certs) : certs'[i] = certs[i]
          /\ certs'[Len(certs) + 1] = Row(noCalls[c].rec)
      BY <1>0, <2>3, CommitRow
    <3>2. DOMAIN certs' = 1..Len(certs') /\ Len(certs) \in Nat
      <4>1. certs' = [i \in 1..Len(certs') |-> certs'[i]]
        BY <3>1 DEF IsTable
      <4> QED
        BY <1>0, <4>1 DEF IsTable
    <3>3. /\ \A i \in DOMAIN certs : i \in DOMAIN certs' /\ certs'[i] = certs[i]
          /\ Len(certs) + 1 \in DOMAIN certs'
      BY <1>0, <3>1, <3>2
    <3>4. certs'[Len(certs) + 1].cert_id = noCalls[c].rec.cert_id
      BY <3>1 DEF Row
    <3> QED
      BY <2>1, <2>2, <3>3, <3>4 DEF IsAccountedFor
  <2>4. CASE Fail(c, noCalls[c].rec.cert_id) /\ certs' = certs
    <3>1. noCalls'[c].pc = "failed" /\ noCalls'[c].lost = noCalls[c].rec.cert_id
      BY <1>0, <2>4 DEF Fail
    <3> QED
      BY <2>1, <2>2, <2>4, <3>1 DEF IsAccountedFor
  <2> QED
    BY <1>2, <2>3, <2>4 DEF SaveCertificate
<1>3. CASE Crash
  <2>1. certs' = certs
    BY <1>3 DEF Crash
  <2>2. ASSUME NEW c \in Requests, noCalls[c].pc = "save"
        PROVE  noCalls'[c].pc = "failed" /\ noCalls'[c].lost = noCalls[c].rec.cert_id
    BY <1>3, <2>2 DEF Crash
  <2>3. ASSUME NEW c \in Requests, noCalls[c].pc = "failed" PROVE noCalls'[c] = noCalls[c]
    BY <1>3, <2>3 DEF Crash
  <2> QED
    BY <2>1, <2>2, <2>3 DEF IsAccountedFor
<1>4. CASE UNCHANGED noVars
  BY <1>4 DEF noVars, IsAccountedFor
<1>5. ASSUME NEW c \in Requests, NEW args, post_notarize(c, args) PROVE IsAccountedFor(id)'
  <2>1. /\ noCalls[c].pc = "idle" /\ certs' = certs
        /\ \E x : noCalls' = [noCalls EXCEPT ![c] = x]
    BY <1>5 DEF post_notarize
  <2> QED
    BY <1>1, <2>1
<1>6. ASSUME NEW c \in Requests, CheckExisting(c) PROVE IsAccountedFor(id)'
  <2>1. /\ noCalls[c].pc = "list" /\ certs' = certs
        /\ \E x : noCalls' = [noCalls EXCEPT ![c] = x]
    BY <1>6 DEF CheckExisting
  <2> QED
    BY <1>1, <2>1
<1>7. ASSUME NEW c \in Requests, Issue(c) PROVE IsAccountedFor(id)'
  <2>1. /\ noCalls[c].pc = "issue" /\ certs' = certs
        /\ \E x : noCalls' = [noCalls EXCEPT ![c] = x]
    BY <1>7 DEF Issue, Fail
  <2> QED
    BY <1>1, <2>1
<1>8. ASSUME NEW c \in Requests, Replay(c) PROVE IsAccountedFor(id)'
  <2>1. /\ noCalls[c].pc = "replay" /\ certs' = certs
        /\ \E x : noCalls' = [noCalls EXCEPT ![c] = x]
    BY <1>8 DEF Replay, Reply
  <2> QED
    BY <1>1, <2>1
<1> QED
  BY <1>2, <1>3, <1>4, <1>5, <1>6, <1>7, <1>8 DEF noNext

\* An anchoring adds the id that its call has drawn, which no entry has yet.
LEMMA LedgerSteps == noInv /\ LedgerInv /\ [noNext]_noVars => LedgerInv'
<1> SUFFICES ASSUME noInv, LedgerInv, [noNext]_noVars PROVE LedgerInv'
  OBVIOUS
<1>0. ledger \in Seq(Nat) /\ clock \in Nat /\ noCalls = [c \in Requests |-> noCalls[c]]
  BY DEF noInv, TableOK
<1>a. Accounted \subseteq Accounted'
  <2> SUFFICES ASSUME NEW id \in Nat, IsAccountedFor(id) PROVE IsAccountedFor(id)'
    BY DEF Accounted
  <2> QED
    BY AccountsStay
<1>b. \A n \in DOMAIN ledger : ledger[n] \in Nat /\ ledger[n] \in Accounted
  BY <1>0 DEF LedgerInv, LedgerIsExplained, Accounted
<1>c. ASSUME \A n \in DOMAIN ledger' : ledger'[n] \in Accounted' /\ ledger'[n] < clock',
             \A m, n \in DOMAIN ledger' : ledger'[m] = ledger'[n] => m = n
      PROVE  LedgerInv'
  BY <1>c DEF LedgerInv, LedgerIsExplained, Accounted
<1>1. CASE ledger' = ledger /\ clock' \in Nat /\ clock <= clock'
  <2>1. \A n \in DOMAIN ledger : ledger[n] \in Nat /\ ledger[n] < clock
    BY <1>0 DEF LedgerInv
  <2>2. \A n \in DOMAIN ledger' : ledger'[n] < clock'
    BY <1>0, <1>1, <2>1
  <2>3. \A n \in DOMAIN ledger' : ledger'[n] \in Accounted'
    BY <1>1, <1>a, <1>b
  <2>4. \A m, n \in DOMAIN ledger' : ledger'[m] = ledger'[n] => m = n
    BY <1>1 DEF LedgerInv, LedgerIsExplained
  <2> QED
    BY <1>c, <2>2, <2>3, <2>4
<1>2. ASSUME NEW c \in Requests, Issue(c), ledger' = Append(ledger, clock)
      PROVE  LedgerInv'
  <2>1. /\ Len(ledger) \in Nat /\ DOMAIN ledger = 1..Len(ledger)
        /\ DOMAIN ledger' = 1..(Len(ledger) + 1)
        /\ \A n \in 1..Len(ledger) : ledger'[n] = ledger[n]
        /\ ledger'[Len(ledger) + 1] = clock
    BY <1>0, <1>2, AppendProperties, LenProperties
  <2>2. clock' = clock + 1
    BY <1>2 DEF Issue
  <2>3. \A n \in 1..Len(ledger) : ledger[n] \in Nat /\ ledger[n] < clock
    BY <1>0, <2>1 DEF LedgerInv
  <2>4. \A n \in DOMAIN ledger' : ledger'[n] < clock'
    BY <1>0, <2>1, <2>2, <2>3
  <2>5. \A m, n \in DOMAIN ledger' : ledger'[m] = ledger'[n] => m = n
    <3>1. \A m, n \in 1..Len(ledger) : ledger[m] = ledger[n] => m = n
      BY <2>1 DEF LedgerInv, LedgerIsExplained
    <3> QED
      BY <1>0, <2>1, <2>3, <3>1
  <2>6. ASSUME NEW id \in Nat, id = clock PROVE id \in Accounted'
    <3>1. \/ noCalls'[c].pc = "failed" /\ noCalls'[c].lost = id
          \/ noCalls'[c].pc = "save" /\ noCalls'[c].rec.cert_id = id
      BY <1>0, <1>2, <2>6 DEF Issue, Fail
    <3> QED
      BY <3>1 DEF IsAccountedFor, Accounted
  <2>7. \A n \in DOMAIN ledger' : ledger'[n] \in Accounted'
    BY <1>0, <1>a, <1>b, <2>1, <2>6
  <2> QED
    BY <1>c, <2>4, <2>5, <2>7
<1>3. ASSUME NEW c \in Requests, Issue(c) PROVE LedgerInv'
  <2>1. clock' = clock + 1 /\ (ledger' = ledger \/ ledger' = Append(ledger, clock))
    BY <1>3 DEF Issue
  <2> QED
    BY <1>0, <1>1, <1>2, <1>3, <2>1
<1>4. ASSUME NEW c \in Requests,
             CheckExisting(c) \/ SaveCertificate(c) \/ Replay(c) \/ \E args : post_notarize(c, args)
      PROVE  LedgerInv'
  BY <1>0, <1>1, <1>4 DEF CheckExisting, SaveCertificate, Replay, post_notarize
<1>5. CASE Crash \/ UNCHANGED noVars
  BY <1>0, <1>1, <1>5 DEF Crash, noVars
<1> QED
  BY <1>3, <1>4, <1>5 DEF noNext

-----------------------------------------------------------------------------
(* The theorem.                                                            *)

\* The notary starts in its invariant: no row, no entry, every call idle.
LEMMA NotaryStarts == noInit => noInv
<1> SUFFICES ASSUME noInit PROVE noInv
  OBVIOUS
<1>1. TableOK
  BY DEF noInit, TableOK, IsTable
<1>2. ASSUME NEW c \in Requests
      PROVE  noCalls[c].pc = "idle" /\ Knows(noCalls[c], certs, ledger, clock)
  <2>1. noCalls[c].pc = "idle"
    BY DEF noInit, NoCall
  <2> QED
    BY <2>1, KnowsNothing
<1>3. noCalls = [c \in Requests |-> noCalls[c]]
  BY DEF noInit
<1>4. IdsAreDrawnOnce
  BY <1>2 DEF noInit, IdsAreDrawnOnce
<1> QED
  BY <1>1, <1>2, <1>3, <1>4 DEF noInv

\* Every step of a call, and a crash, keeps the invariant.
LEMMA NotarySteps == noInv /\ [noNext]_noVars => noInv'
<1> SUFFICES ASSUME noInv, [noNext]_noVars PROVE noInv'
  OBVIOUS
<1>1. CASE UNCHANGED noVars
  BY <1>1 DEF noVars, noInv, TableOK, IdsAreDrawnOnce
<1>2. ASSUME NEW c \in Requests, NEW args \in NotarizeArgs, post_notarize(c, args)
      PROVE  noInv'
  BY <1>2, PostKeeps
<1>3. ASSUME NEW c \in Requests,
             CheckExisting(c) \/ Issue(c) \/ SaveCertificate(c) \/ Replay(c)
      PROVE  noInv'
  BY <1>3, CheckKeeps, IssueKeeps, SaveKeeps, ReplayKeeps
<1>4. CASE Crash
  BY <1>4, CrashKeeps
<1> QED
  BY <1>1, <1>2, <1>3, <1>4 DEF noNext

\* Whoever else is notarizing and whichever services fail, an answer of POST
\* /v1/notarize is the envelope of a stored certificate for the content and
\* the submitter it asked for, the log has no certificate twice and none that
\* the table lacks and no failed call accounts for, and a second certificate for
\* a content is issued only to a call that overlapped the first or could no
\* longer see it in its list.
THEOREM CertificatesStayBacked == noSpec => []CertificatesAreBacked
<1>1. noInv /\ LedgerInv => CertificatesAreBacked
  <2> SUFFICES ASSUME noInv, LedgerInv PROVE CertificatesAreBacked
    OBVIOUS
  <2>1. DOMAIN certs = 1..Len(certs) /\ Len(certs) \in Nat
    <3>1. certs = [j \in 1..Len(certs) |-> certs[j]] /\ Len(certs) \in Nat
      BY DEF noInv, TableOK, IsTable
    <3> QED
      BY <3>1
  <2>2. AnsweredIsStored
    <3> SUFFICES ASSUME NEW c \in Requests, noCalls[c].pc = "replied"
                 PROVE  \E i \in DOMAIN certs :
                          /\ certs[i].cert_id = noCalls[c].cert_id
                          /\ certs[i].cose = noCalls[c].cose
                          /\ certs[i].cose.content = noCalls[c].args.content
                          /\ certs[i].cose.org = noCalls[c].args.org
      BY DEF AnsweredIsStored
    <3>1. PICK i \in 1..Len(certs) : /\ RowOf(certs[i], noCalls[c].cert_id, noCalls[c].args)
                                     /\ certs[i].cose = noCalls[c].cose
      BY DEF noInv, Knows
    <3>2. certs[i].cose.content = certs[i].content /\ certs[i].cose.org = certs[i].org
      BY DEF noInv, TableOK, Sound
    <3> QED
      BY <2>1, <3>1, <3>2 DEF RowOf
  <2>3. LedgerIsExplained
    BY DEF LedgerInv
  <2>4. SecondIsOverlappedOrOld
    <3> SUFFICES ASSUME NEW i \in DOMAIN certs, NEW j \in DOMAIN certs,
                        i < j, i <= certs[j].seen,
                        certs[i].content = certs[j].content, certs[i].org = certs[j].org
                 PROVE  Limit <= Cardinality({k \in 1..certs[j].seen :
                          certs[k].org = certs[i].org
                          /\ certs[k].notarized_at > certs[i].notarized_at})
      BY DEF SecondIsOverlappedOrOld
    <3>1. /\ certs[j].seen \in Nat
          /\ NoneListed(certs, certs[j].content, certs[j].org, certs[j].seen)
      BY <2>1 DEF noInv, TableOK, Sound
    <3>2. i \in 1..certs[j].seen
      BY <2>1, <3>1
    <3> QED
      BY <3>1, <3>2 DEF NoneListed
  <2> QED
    BY <2>2, <2>3, <2>4 DEF CertificatesAreBacked
<1>2. noInit => LedgerInv
  <2> SUFFICES ASSUME noInit PROVE LedgerInv
    OBVIOUS
  <2>1. DOMAIN ledger = {}
    BY DEF noInit
  <2> QED
    BY <2>1 DEF LedgerInv, LedgerIsExplained
<1> QED
  BY <1>1, <1>2, NotaryStarts, NotarySteps, LedgerSteps, PTL DEF noSpec
----------------------------------------------------------------------------
(* Receipts: acceptance, for any keys and payloads.  Whoever puts one  *)
(* together has only the parts that were made, and none is ever unmade.    *)

\* The countersigned receipt is put together from parts that exist.
ReceiptIsOfParts ==
  receipt # <<>> =>
    receipt.receipt.envelope \in envelopes /\ receipt.cosig \in cosigs

\* Acceptance by counter_verify_offline implies each of its checks.
LEMMA AcceptanceChecks ==
  ASSUME NEW c, NEW issuer, NEW cosc,
         counter_verify_offline(c, issuer, cosc) = "ok"
  PROVE  /\ c.receipt.envelope.payload = c.receipt.payload
         /\ c.receipt.envelope.sig = Sign(issuer, c.receipt.envelope.payload)
         /\ c.cosig = [key |-> cosc, envelope |-> c.receipt.envelope]
<1>1. /\ verify_offline(c.receipt, issuer) = "ok"
      /\ c.cosig = [key |-> cosc, envelope |-> c.receipt.envelope]
  BY DEF counter_verify_offline
<1>2. c.receipt.fingerprint = Fingerprint(issuer) /\ c.receipt.envelope # NoEnvelope
  BY <1>1 DEF verify_offline
<1> QED
  BY <1>1, <1>2 DEF verify_offline

\* Whatever receipts are put together from the envelopes and
\* countersignatures ever made, one that counter_verify_offline accepts for an
\* issuer and a witness carries a payload that the issuer signed, in the
\* envelope that the witness countersigned.
THEOREM AcceptedReceiptsWereSigned == scSpec => []AcceptedWasSigned
<1>1. scInit => ReceiptIsOfParts
  BY DEF scInit, ReceiptIsOfParts
<1>2. ReceiptIsOfParts /\ [scNext]_scVars => ReceiptIsOfParts'
  <2> SUFFICES ASSUME ReceiptIsOfParts, [scNext]_scVars
               PROVE  ReceiptIsOfParts'
    OBVIOUS
  <2>1. CASE IssueReceipt
    BY <2>1 DEF IssueReceipt, ReceiptIsOfParts
  <2>2. CASE CounterSign
    BY <2>2 DEF CounterSign, ReceiptIsOfParts
  <2>3. CASE ReceiveReceipt
    <3> PICK e \in envelopes, c \in cosigs, p \in Payloads, k1 \in Keys, k2 \in Keys :
          receipt' = [receipt |-> [payload |-> p, envelope |-> e,
                                   fingerprint |-> Fingerprint(k1)],
                      cosig |-> c, coscFingerprint |-> Fingerprint(k2)]
      BY <2>3 DEF ReceiveReceipt
    <3> QED
      BY <2>3 DEF ReceiveReceipt, ReceiptIsOfParts
  <2>4. CASE UNCHANGED scVars
    BY <2>4 DEF scVars, ReceiptIsOfParts
  <2> QED
    BY <2>1, <2>2, <2>3, <2>4 DEF scNext
<1>3. ReceiptIsOfParts => AcceptedWasSigned
  <2> SUFFICES ASSUME ReceiptIsOfParts, receipt # <<>>,
                      NEW issuer \in Keys, NEW cosc \in Keys,
                      counter_verify_offline(receipt, issuer, cosc) = "ok"
               PROVE  \E e \in envelopes :
                        /\ e.payload = receipt.receipt.payload
                        /\ e.sig = Sign(issuer, e.payload)
                        /\ [key |-> cosc, envelope |-> e] \in cosigs
    BY DEF AcceptedWasSigned
  <2> receipt.receipt.envelope \in envelopes
    BY DEF ReceiptIsOfParts
  <2> WITNESS receipt.receipt.envelope \in envelopes
  <2> QED
    BY AcceptanceChecks DEF ReceiptIsOfParts
<1> QED
  BY <1>1, <1>2, <1>3, PTL DEF scSpec
=============================================================================
