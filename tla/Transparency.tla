----------------------------- MODULE Transparency -----------------------------
(***************************************************************************)
(* Transparency evidence and its offline checks: the RFC 9162 proof checks *)
(* behind the public verification page and the federated receipt, and the  *)
(* look-up of a time-stamping certificate in the EU trust list.  The two   *)
(* parts share no state.  Hashing is a free constructor: a leaf hash is    *)
(* <<x>>, an interior hash the pair of its children.                       *)
(***************************************************************************)
EXTENDS Naturals, SequencesExt, FiniteSets

CONSTANTS
  Entries,    \* statements registered in the log
  MaxLog      \* bound on the length of the log

VARIABLES
  log,        \* the external log: its leaves in order
  separated,  \* whether its interior hashes carry the 0x01 prefix of the RFC
  row,        \* rekor_entry_json of a certificate
  honest      \* the row is what the log answered

trVars == <<log, separated, row, honest>>

----------------------------------------------------------------------------
(* The log, an RFC 9162 tree.                                              *)

Leaf(x) == <<x>>
Node(l, r) == <<l, r>>
LogNode(l, r) == IF separated THEN <<l, r, <<"0x01">>>> ELSE Node(l, r)

\* The largest power of two below n.
Split(n) == CHOOSE k \in {1, 2, 4, 8} : k < n /\ n <= 2 * k

RECURSIVE TreeHash(_)
TreeHash(s) ==
  IF Len(s) = 1 THEN Leaf(s[1])
  ELSE LET k == Split(Len(s))
       IN LogNode(TreeHash(SubSeq(s, 1, k)), TreeHash(SubSeq(s, k + 1, Len(s))))

RECURSIVE AuditPath(_, _)
AuditPath(m, s) ==
  IF Len(s) = 1 THEN <<>>
  ELSE LET k == Split(Len(s))
           left == SubSeq(s, 1, k)
           right == SubSeq(s, k + 1, Len(s))
       IN IF m < k THEN Append(AuditPath(m, left), TreeHash(right))
                   ELSE Append(AuditPath(m - k, right), TreeHash(left))

----------------------------------------------------------------------------
(* The proof checks.                                                       *)

Raised == <<>>                      \* ValueError
NoRow == [kind |-> "null"]
Unparsable == [kind |-> "broken"]   \* a column that json.loads refuses

\* Mutant of Climb: the index of the leaf is used on every level.
ClimbWithoutHalving(at, sibling) ==
  [h   |-> IF at.idx % 2 = 0 THEN Node(at.h, sibling) ELSE Node(sibling, at.h),
   idx |-> at.idx]

\* One level up: the parity of the index says on which side the sibling is.
Climb(at, sibling) ==
  [h   |-> IF at.idx % 2 = 0 THEN Node(at.h, sibling) ELSE Node(sibling, at.h),
   idx |-> at.idx \div 2]

\* Neither the length of the path nor the shape of the tree is looked at.
reconstruct_root_rfc9162(leaf, index, size, path) ==
  IF size <= 0 \/ index >= size THEN Raised
  ELSE IF path = <<>> /\ size > 1 THEN leaf
  ELSE FoldLeft(Climb, [h |-> leaf, idx |-> index], path).h

verify_inclusion_proof(leaf, index, size, path, root) ==
  LET h == reconstruct_root_rfc9162(leaf, index, size, path)
  IN h # Raised /\ h = root

\* A signed tree head, or any 32 bytes or more taken as the bare root.
extract_sth_root(sth) ==
  CASE sth.kind = "statement" -> sth.root
    [] sth.kind = "bytes"     -> sth.root
    [] OTHER                  -> Raised

\* Log A's receipt, then its root again from the path of log B, then the
\* head of log B, which has to be that same root.
verify_federated_receipt(receiptA, leaf, path, size, index, sth) ==
  IF ~receiptA.ok \/ receiptA.root = Raised THEN "Log A receipt invalid"
  ELSE LET a == reconstruct_root_rfc9162(leaf, index, size, path)
       IN CASE a = Raised -> "verifier error"
            [] a # Raised /\ a # receiptA.root -> "Log A root mismatch"
            [] OTHER ->
                 IF extract_sth_root(sth) = Raised THEN "Log B STH format invalid"
                 ELSE IF extract_sth_root(sth) # a THEN "Cross-log anchor mismatch"
                 ELSE "federated receipt verified"

----------------------------------------------------------------------------
(* The verification page: one line per artefact of the certificate.        *)

step_content_hash(cert) == IF cert.hash = "well-formed" THEN "STRUCTURE_OK" ELSE "ABSENT"
\* The stored envelope is three base64 strings joined by dots, which is not
\* base64 itself.
step_cose_sign1(cert) ==
  IF cert.cose \in {"none", "dotted", "short"} THEN "ABSENT" ELSE "STRUCTURE_OK"
step_tsa_token(cert) == IF cert.tsa = "sequence" THEN "STRUCTURE_OK" ELSE "ABSENT"
step_issuer_fingerprint(cert) == IF cert.issuer THEN "STRUCTURE_OK" ELSE "ABSENT"

\* Without the id of an entry there is nothing to say, without its proof nothing
\* to check; index 0 counts as a missing field.
step_scitt_rekor(cert, r) ==
  CASE ~cert.entry -> "ABSENT"
    [] cert.entry /\ r = NoRow -> "PRESENT"
    [] cert.entry /\ r = Unparsable -> "FAILED"
    [] OTHER -> IF r.index = 0 \/ r.size = 0 THEN "PRESENT"
                ELSE IF verify_inclusion_proof(r.leaf, r.index, r.size, r.path, r.root)
                     THEN "VERIFIED" ELSE "FAILED"

compute_verification_steps(cert, r) ==
  <<"VERIFIED", step_content_hash(cert), step_cose_sign1(cert),
    step_tsa_token(cert), step_scitt_rekor(cert, r), step_issuer_fingerprint(cert),
    "DEFERRED">>

----------------------------------------------------------------------------

trInit ==
  /\ log = <<>> /\ separated \in BOOLEAN
  /\ row = NoRow /\ honest = FALSE

Register ==
  /\ Len(log) < MaxLog
  /\ \E e \in Entries : log' = Append(log, e)
  /\ UNCHANGED <<separated, row, honest>>

\* The notary stores what the log answers for an entry at its present size.
StoreProof ==
  /\ \E i \in 0..(Len(log) - 1) :
       row' = [kind |-> "proof", leaf |-> Leaf(log[i + 1]), index |-> i, size |-> Len(log),
               root |-> TreeHash(log), path |-> AuditPath(i, log)]
  /\ honest' = TRUE
  /\ UNCHANGED <<log, separated>>

\* The row comes to be about another statement, at another place, or broken.
AlterRow ==
  /\ row.kind = "proof"
  /\ \/ row' = Unparsable
     \/ \E e \in Entries : Leaf(e) # row.leaf /\ row' = [row EXCEPT !.leaf = Leaf(e)]
     \/ \E i \in 0..MaxLog : i # row.index /\ row' = [row EXCEPT !.index = i]
  /\ honest' = FALSE
  /\ UNCHANGED <<log, separated>>

trNext ==
  Register \/ StoreProof \/ AlterRow

trSpec == trInit /\ [][trNext]_trVars

----------------------------------------------------------------------------

RECURSIVE Occurs(_, _)
Occurs(leaf, tree) ==
  \/ leaf = tree
  \/ Len(tree) > 1 /\ \E i \in 1..Len(tree) : Occurs(leaf, tree[i])

\* Whether the leaf m of a tree of n leaves is a right child, from the leaf up.
RECURSIVE IsRight(_, _)
IsRight(m, n) ==
  IF n = 1 THEN <<>>
  ELSE IF m < Split(n) THEN Append(IsRight(m, Split(n)), FALSE)
       ELSE Append(IsRight(m - Split(n), n - Split(n)), TRUE)

\* The bits of m tell the same, as in every full tree.
IsRightByIndex(m, n) ==
  \A i \in DOMAIN IsRight(m, n) : IsRight(m, n)[i] <=> (m \div 2^(i - 1)) % 2 = 1

PageCerts ==
  [entry : BOOLEAN, hash : {"well-formed", "none"}, cose : {"dotted"}, tsa : {"sequence"},
   issuer : {TRUE}]

HasProof == row.kind = "proof"

\* Only a statement the root commits to is reported as verified, whatever
\* the row says about its place, and a federated receipt is only verified
\* when the head of the other log commits to it as well.
VerifiedIsInTree ==
  HasProof =>
    /\ \A cert \in PageCerts :
         compute_verification_steps(cert, row)[5] = "VERIFIED" => Occurs(row.leaf, row.root)
    /\ verify_federated_receipt([ok |-> TRUE, root |-> row.root], row.leaf, row.path,
                                row.size, row.index,
                                [kind |-> "statement", root |-> TreeHash(log)])
         = "federated receipt verified" => Occurs(row.leaf, TreeHash(log))

\* Which proofs the log gave are verified, exactly: those of a leaf whose place in
\* the tree can be read off its index, if the log hashes as the check does.
HonestVerdictIsKnown ==
  HasProof /\ honest =>
    (verify_inclusion_proof(row.leaf, row.index, row.size, row.path, row.root)
       <=> row.size = 1 \/ (~separated /\ IsRightByIndex(row.index, row.size)))

\* The verifier's answer can be relied on: VERIFIED only for what is in the tree,
\* and the log's own proofs refused only for the two reasons that are known.
LogProofsAreTrusted == VerifiedIsInTree /\ HonestVerdictIsKnown

----------------------------------------------------------------------------
(***************************************************************************)
(* The EU trust list (qes_adapter.py).  A certificate is looked for among  *)
(* the authorities the list names, by pyhanko, which fetches and validates *)
(* the list and the national ones, or by a fallback that reads a document  *)
(* without its signature.  The list changes while the walk is under way.   *)
(***************************************************************************)

CONSTANTS
  TsaCerts,     \* certificates of time-stamping services: records [id, qc]
  StaticCerts,  \* those with a fingerprint in EU_TRUST_LIST_FINGERPRINTS
  MaxLists      \* versions of the list published

ASSUME StaticCertsAssumption == StaticCerts \subseteq TsaCerts

VARIABLES
  euList,       \* what the list names now
  euLists,      \* versions published so far
  euWalk,       \* a walk
  euQes         \* the last answer of validate_qtsp_certificate

euVars == <<euList, euLists, euWalk, euQes>>

NoTsaCert == [id |-> "none", qc |-> "none"]     \* bytes that are no certificate

\* The answer of validate_qtsp_certificate.  The bytes it looks for in the
\* qcStatements are not the encoding of the statement's identifier ("esi4"), so
\* only an extension in which they happen to stand ("scanned") has it; the root
\* of the chain is not looked up.
NoQes == [cert |-> NoTsaCert, qualified |-> FALSE, statement |-> FALSE, rootListed |-> FALSE,
          issues |-> 0]

validate_qtsp_certificate(cert) ==
  LET statement  == cert.qc = "scanned"
      rootListed == FALSE
  IN [cert |-> cert, qualified |-> statement /\ rootListed, statement |-> statement,
      rootListed |-> rootListed, issues |-> IF statement THEN 0 ELSE 1]

\* TrustListChainResult: root is the certificate the answer names as the root.
NoWalk == [pc |-> "idle", cert |-> NoTsaCert, given |-> "none", xml |-> "none", libs |-> {},
           seen |-> {}, verified |-> FALSE, root |-> NoTsaCert, tlv6 |-> TRUE, error |-> "none"]

Refuse(w, error) == [w EXCEPT !.pc = "done", !.error = error, !.tlv6 = error # "fetch"]
Verify(w) == [w EXCEPT !.pc = "done", !.verified = TRUE, !.root = w.cert]

euInit ==
  /\ euList \in SUBSET TsaCerts /\ euLists = 1
  /\ euWalk = NoWalk /\ euQes = NoQes

\* The commission publishes the list anew.
EuPublish ==
  /\ euLists < MaxLists
  /\ euList' \in SUBSET TsaCerts \ {euList}
  /\ euLists' = euLists + 1
  /\ euWalk' = [euWalk EXCEPT !.seen = @ \cup euList']
  /\ UNCHANGED euQes

QtspValidate ==
  /\ \E cert \in TsaCerts \cup {NoTsaCert} : euQes' = validate_qtsp_certificate(cert)
  /\ UNCHANGED <<euList, euLists, euWalk>>

\* walk_eu_trust_list_chain: a caller may bring the list, signed or not; what can
\* be imported decides the way.
WalkStart ==
  /\ euWalk.pc = "idle"
  /\ \E cert \in TsaCerts \cup {NoTsaCert}, given \in {"none", "official", "unsigned", "broken"},
        libs \in {{"pyhanko", "lxml"}, {"lxml"}, {}} :
       LET w == [NoWalk EXCEPT !.cert = cert, !.given = given, !.xml = given, !.libs = libs,
                               !.seen = euList]
       IN euWalk' = IF "pyhanko" \notin libs THEN [w EXCEPT !.pc = "fallback"]
                    ELSE IF cert = NoTsaCert THEN Refuse(w, "parse")
                    ELSE [w EXCEPT !.pc = IF given = "none" THEN "fetch" ELSE "bootstrap"]
  /\ UNCHANGED <<euList, euLists, euQes>>

Walking(pc, next) == euWalk.pc = pc /\ euWalk' \in next /\ UNCHANGED <<euList, euLists, euQes>>

\* The list is fetched; any exception leads to the fallback.
WalkFetch == Walking("fetch", {[euWalk EXCEPT !.pc = "bootstrap", !.xml = "official"],
                               [euWalk EXCEPT !.pc = "fallback"]})

\* fetch_lotl and bootstrap_lotl_signers, from the network although the caller
\* brought a list.
WalkBootstrap == Walking("bootstrap", {[euWalk EXCEPT !.pc = "registry"], Refuse(euWalk, "fetch")})

\* lotl_to_registry validates the document and reads those of the national lists
\* it can; the certificate is looked for among their authorities.
WalkRegistry ==
  Walking("registry",
    {[euWalk EXCEPT !.pc = "fallback"]}
    \cup {IF euWalk.cert \in registry THEN Verify(euWalk) ELSE Refuse(euWalk, "unlisted") :
            registry \in IF euWalk.xml = "official" THEN SUBSET euList ELSE {}})

\* The certificates a document names; an unsigned one may name any.
NamedIn(xml) == CASE xml = "official" -> euList [] xml = "unsigned" -> TsaCerts [] OTHER -> {}

\* Mutant of LoadedAnchors: the text of the elements is decoded.
LoadedAnchorsDecoded(xml) == NamedIn(xml)

\* What the fallback makes of the certificates in a document: it loads their
\* base64 text as DER, which fails for each, and passes over them.
LoadedAnchors(xml) == {}

\* _walk_eu_trust_list_chain_crypto: the caller's document, or one it fetches.
WalkFallback ==
  Walking("fallback",
    LET w       == [euWalk EXCEPT !.xml = IF euWalk.given = "none" THEN "official" ELSE euWalk.given]
        anchors == (IF "lxml" \in w.libs THEN LoadedAnchors(w.xml) ELSE {}) \cup StaticCerts
    IN IF w.cert = NoTsaCert THEN {Refuse(w, "parse")}
       ELSE (IF w.given = "none" THEN {Refuse(w, "fetch")} ELSE {})
            \cup {CASE w.xml = "broken" /\ "lxml" \in w.libs -> Refuse(w, "raised")
                    [] w.cert \in anchors -> Verify(w)
                    [] OTHER -> [Refuse(w, "incomplete") EXCEPT !.root = w.cert]})

\* The caller takes the answer and may ask again.
WalkTaken ==
  /\ euWalk.pc = "done"
  /\ euWalk' = NoWalk
  /\ UNCHANGED <<euList, euLists, euQes>>

euNext == \/ EuPublish \/ QtspValidate \/ WalkStart \/ WalkFetch \/ WalkBootstrap \/ WalkRegistry
          \/ WalkFallback \/ WalkTaken

euSpec == euInit /\ [][euNext]_euVars

\* A certificate is reported as verified only if the official list has named it
\* since the walk began or it is one of the three that are built in: neither a
\* document of unknown origin, nor a fetch that fails half-way, nor a list that
\* changes under the walk adds to them (walk_eu_trust_list_chain_pyhanko and its
\* fallback).  A certificate is qualified only with the statement and a listed root.
TrustedIsListed ==
  /\ euWalk.pc = "done" /\ euWalk.verified =>
       euWalk.cert \in euWalk.seen \cup StaticCerts /\ euWalk.root = euWalk.cert /\ euWalk.tlv6
  /\ euQes.qualified => euQes.statement /\ euQes.rootListed
=============================================================================
