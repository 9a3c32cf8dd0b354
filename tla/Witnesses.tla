------------------------------ MODULE Witnesses -------------------------------
(***************************************************************************)
(* What outsiders testify of a packet: the transparency log Rekor, and the *)
(* RFC 3161 time-stamping services.  The two halves share no state.        *)
(***************************************************************************)
EXTENDS Integers, Sequences, SequencesExt, FiniteSets

(***************************************************************************)
(* Signed packets and their anchoring in Rekor, for several runs at once   *)
(* over the client the process was started with.  Anchoring is best        *)
(* effort: a packet keeps going without an entry when the log cannot be    *)
(* reached, answers too late, or the cosign binary fails.                  *)
(***************************************************************************)

CONSTANTS
  Runs,         \* pipeline runs, each with a packet; its hash is the run
  MaxRestarts   \* bound on restarts of the process

NoEntry == <<>>
Blank == "blank"    \* the empty string

VARIABLES
  mode,         \* THEMIS_REKOR_MODE and THEMIS_REKOR_ENDPOINT
  cosign,       \* how the cosign binary behaves: see CosignBehaviours
  log_index,    \* the counter of the mock client
  log,          \* the external log: its entries in order
  packet,       \* each run's SignedPacket, <<>> before it is wrapped
  life,         \* which start of the process this is
  pc            \* where each run is

raVars == <<mode, cosign, log_index, log, packet, life, pc>>

CosignBehaviours == {"missing", "spawn fails", "exits 1", "not JSON", "bare", "entry"}
Modes == {"none", "unset", "mock", "v2", "v2 bad endpoint", "cosign", "typo"}

\* with_endpoint fails on a URI that does not parse; the channel is lazy.
build_v2_client(m) == IF m = "v2 bad endpoint" THEN "mock" ELSE "v2"
build_rekor_client(m) ==
  CASE m \in {"unset", "mock", "typo"} -> "mock"
    [] m \in {"v2", "v2 bad endpoint"} -> build_v2_client(m)
    [] m = "cosign" -> "cosign"
client == IF mode = "none" THEN "none" ELSE build_rekor_client(mode)

\* EvidencePacket::new and SignedPacket::wrap; the hash is recomputed from
\* the packet each time it is wrapped.
wrap(run) == [hash |-> run, rekor |-> NoEntry]
wrap_with_rekor(p, entry) == [p EXCEPT !.rekor = entry]

RekorEntry(source, uuid, index, body) ==
  [source |-> source, life |-> life, uuid |-> uuid, index |-> index, body |-> body]

----------------------------------------------------------------------------

Wrap(r) ==
  /\ pc[r] = "start"
  /\ packet' = [packet EXCEPT ![r] = wrap(r)]
  /\ pc' = [pc EXCEPT ![r] = IF client = "none" THEN "done" ELSE "anchor"]
  /\ UNCHANGED <<mode, cosign, log_index, log, life>>

Finish(r, entry) ==
  /\ packet' = [packet EXCEPT ![r] = IF entry = NoEntry THEN @ ELSE wrap_with_rekor(@, entry)]
  /\ pc' = [pc EXCEPT ![r] = "done"]

\* Mutant of mock_anchor: the counter is read, but not moved on.
mock_anchor_stuck(r) ==
  /\ pc[r] = "anchor" /\ client = "mock"
  /\ Finish(r, RekorEntry("mock", packet[r].hash, log_index, packet[r].hash))
  /\ UNCHANGED <<mode, cosign, log_index, log, life>>

\* fetch_add; the body is the hash itself.
mock_anchor(r) ==
  /\ pc[r] = "anchor" /\ client = "mock"
  /\ log_index' = log_index + 1
  /\ Finish(r, RekorEntry("mock", packet[r].hash, log_index, packet[r].hash))
  /\ UNCHANGED <<mode, cosign, log, life>>

\* `cosign version`: without the binary there is no entry.  Neither command
\* of cosign has a time-out, so this step and the next need not come.
cosign_version(r) ==
  /\ pc[r] = "anchor" /\ client = "cosign"
  /\ IF cosign = "missing" THEN Finish(r, NoEntry)
     ELSE pc' = [pc EXCEPT ![r] = "create"] /\ UNCHANGED packet
  /\ UNCHANGED <<mode, cosign, log_index, log, life>>

\* `cosign rekor create` ends.  Fields missing from its JSON get defaults: no
\* uuid, index 0, no body.
cosign_create(r) ==
  /\ pc[r] = "create"
  /\ \/ cosign \in {"spawn fails", "exits 1", "not JSON"} /\ Finish(r, NoEntry)
     \/ \E i \in DOMAIN log :
          /\ log[i] = packet[r].hash
          /\ \/ cosign = "entry"
                /\ Finish(r, RekorEntry("cosign", packet[r].hash, i - 1, "canonical"))
             \/ cosign = "bare" /\ Finish(r, RekorEntry("cosign", Blank, 0, Blank))
  /\ UNCHANGED <<mode, cosign, log_index, log, life>>

\* The v2 request is signed with the tenant's key and sent.
v2_send(r) ==
  /\ pc[r] = "anchor" /\ client = "v2"
  /\ pc' = [pc EXCEPT ![r] = "sent"]
  /\ UNCHANGED <<mode, cosign, log_index, log, packet, life>>

\* The log takes what cosign or a request brings it, or refuses it, or never
\* sees it.
LogTakes(r) ==
  /\ \/ pc[r] \in {"sent", "gave up"}
     \/ pc[r] = "create" /\ cosign # "spawn fails"
  /\ ~\E i \in DOMAIN log : log[i] = packet[r].hash
  /\ log' = Append(log, packet[r].hash)
  /\ UNCHANGED <<mode, cosign, log_index, packet, life, pc>>

\* The body of the answer is the log's canonical entry or the digest sent.
v2_answer(r) ==
  /\ pc[r] = "sent"
  /\ \E i \in DOMAIN log, body \in {"canonical", packet[r].hash} :
       /\ log[i] = packet[r].hash
       /\ Finish(r, RekorEntry("v2", packet[r].hash, i - 1, body))
  /\ UNCHANGED <<mode, cosign, log_index, log, life>>

\* Mutant of v2_fail: no time-out, only an answer of the log ends the wait.
v2_fail_answered(r) ==
  /\ pc[r] = "sent"
  /\ \E i \in DOMAIN log : log[i] = packet[r].hash
  /\ pc' = [pc EXCEPT ![r] = "gave up"]
  /\ UNCHANGED <<mode, cosign, log_index, log, packet, life>>

\* An error status, or ANCHOR_TIMEOUT.
v2_fail(r) ==
  /\ pc[r] = "sent"
  /\ pc' = [pc EXCEPT ![r] = "gave up"]
  /\ UNCHANGED <<mode, cosign, log_index, log, packet, life>>

v2_unanchored(r) ==
  /\ pc[r] = "gave up"
  /\ Finish(r, NoEntry)
  /\ UNCHANGED <<mode, cosign, log_index, log, life>>

\* verify by the client of the present process.
verify(entry, hash) ==
  IF client = "cosign" THEN hash # Blank ELSE entry.body = hash

\* A new process, possibly in another mode; runs in flight are lost, the
\* packets that were answered are kept by whoever has them.
Restart ==
  /\ life < MaxRestarts
  /\ life' = life + 1
  /\ mode' \in Modes /\ log_index' = 0
  /\ pc' = [r \in Runs |-> IF pc[r] \in {"start", "done"} THEN pc[r] ELSE "lost"]
  /\ UNCHANGED <<cosign, log, packet>>

raInit ==
  /\ mode \in Modes /\ cosign \in CosignBehaviours
  /\ log_index = 0 /\ log = <<>> /\ life = 0
  /\ packet = [r \in Runs |-> <<>>] /\ pc = [r \in Runs |-> "start"]

raNext ==
  \/ \E r \in Runs : Wrap(r) \/ mock_anchor(r) \/ cosign_version(r) \/ cosign_create(r)
                     \/ v2_send(r) \/ LogTakes(r) \/ v2_answer(r) \/ v2_fail(r) \/ v2_unanchored(r)
  \/ Restart

raSpec == raInit /\ [][raNext]_raVars

\* A run that has started goes on; ANCHOR_TIMEOUT ends the wait for the log,
\* which itself owes nothing.  Nothing bounds the wait for cosign.
raFairness ==
  \A r \in Runs : WF_raVars(mock_anchor(r) \/ v2_send(r) \/ v2_fail(r) \/ v2_unanchored(r))

----------------------------------------------------------------------------

Anchored == {r \in Runs : packet[r] # <<>> /\ packet[r].rekor # NoEntry}

\* A packet says it is anchored in a real log only if the log has it, and the
\* place its entry names, when it names one, is where the log has it.  A bare
\* answer of cosign names none: no uuid, and an index that says nothing.
PlacesAreTheLogs ==
  \A r \in Anchored :
    LET e == packet[r].rekor
    IN  e.source # "mock" =>
          /\ \E i \in DOMAIN log : log[i] = packet[r].hash
          /\ e.uuid # Blank => /\ e.uuid = packet[r].hash
                               /\ e.index + 1 \in DOMAIN log
                               /\ log[e.index + 1] = packet[r].hash

\* The mock gives the packets of one process different places, and each of
\* its entries verifies against its own packet and no other.
MockEntriesAreTold ==
  \A r, s \in Anchored :
    packet[r].rekor.source = "mock" /\ packet[s].rekor.source = "mock" =>
      /\ r # s /\ packet[r].rekor.life = packet[s].rekor.life
           => packet[r].rekor.index # packet[s].rekor.index
      /\ client = "mock" => (verify(packet[r].rekor, packet[s].hash) <=> r = s)

\* What a packet says of its entry is so, a bare answer of cosign excepted
\* (rekor.rs:229-240): that one only says that the log has the packet.
EntriesAreHonest == PlacesAreTheLogs /\ MockEntriesAreTold

\* A log that does not answer holds no run of the mock or the v2 client up for
\* longer than the timeout.
NoRunWaitsForTheLog ==
  \A r \in Runs :
    pc[r] \in {"anchor", "sent", "gave up"} /\ client # "cosign" ~> pc[r] \in {"done", "lost"}

-----------------------------------------------------------------------------
(***************************************************************************)
(* RFC 3161 time stamps: the clients (mock, FreeTSA, qualified) that fetch *)
(* a token for a digest, the optimistic check the server uses, and the two *)
(* strict ones, of themis-evidence (imprint, message digest, ESS binding,  *)
(* signature, chain) and of tl-evidence (CMS and a structural chain).      *)
(*                                                                         *)
(* DER that the code reads byte by byte (ESS attributes, ECDSA signatures, *)
(* PKCS#1 keys) is a sequence of octets here; what a library decodes for   *)
(* it (TimeStampResp, certificates) is a record.  A signature is a record  *)
(* [by, over, der]: nobody makes one without the key.                      *)
(***************************************************************************)

CONSTANTS
  Digests,      \* the hashes packets have
  Authorities,  \* what the time-stamping services sign with: [cert, root]
  Scalars,      \* the <<r, s>> of signatures, ScalarLen octets each
  MaxStamped,   \* bound: how many digests the services sign
  ScalarLen,    \* 48 for P-384
  RootLists,    \* the lists of trusted roots verifiers are given
  Chains        \* the PEM chains cms_verify is given, as lists of certificates

VARIABLES
  tsClient,     \* the TsaClient init built: [tier, url, chain], or an error
  tsStamped,    \* ghost: the <<key, digest>> the services have signed
  tsToken,      \* the bytes the last fetch brought
  tsVerdict     \* the last verification: how, of what, with which signers and roots

tsVars == <<tsClient, tsStamped, tsToken, tsVerdict>>

\* The numbers of a signature, in as many octets as the curve's order has.
Signatures == [1..ScalarLen -> 0..255] \X [1..ScalarLen -> 0..255]

ASSUME DigestsAssumption == "none" \notin Digests
ASSUME ScalarsAssumption == ScalarLen \in 1..48 /\ Scalars \subseteq Signatures

\* What the service FreeTSA is: it signs with a P-384 key of its own, for which
\* its root has made out a certificate; "unknown" is the key of anybody else.
ASSUME AuthoritiesAssumption ==
  \A a \in Authorities :
    /\ {"key", "by", "id"} \subseteq DOMAIN a.cert
    /\ a.cert.kind = "p384" /\ a.cert.key # "unknown" /\ a.cert.id \in Nat
    /\ a.cert.by = a.root.key /\ a.cert.rs \in Signatures
    /\ a.root.kind = "p384" => a.cert.sigAlg \in {"ecdsaSha256", "ecdsaSha384", "ecdsaSha512"}

\* No verifier trusts a root with an unknown key.
ASSUME RootsAssumption ==
  \A roots \in RootLists :
    roots \in Seq(Range(roots)) /\ \A i \in 1..Len(roots) : roots[i].key # "unknown"

NoVerdict == [how |-> "none", digest |-> "none", trusted |-> <<>>, roots |-> <<>>, result |-> "none"]
NoToken == [form |-> "empty", fault |-> "none"]

\* What find and an early return from a loop give: the first element that passes,
\* or nothing.
FirstOf(s, Test(_)) ==
  LET i == SelectInSeq(s, Test) IN IF i = 0 THEN <<>> ELSE <<s[i]>>

----------------------------------------------------------------------------
(* DER.  Tlv writes what a service writes; the rest is how it is read.     *)

SEQ_TAG == 48
INT_TAG == 2
OCTET_TAG == 4
OID_TAG == 6

DerLength(n) == IF n < 128 THEN <<n>>
                ELSE IF n < 256 THEN <<129, n>> ELSE <<130, n \div 256, n % 256>>
Tlv(tag, value) == <<tag>> \o DerLength(Len(value)) \o value

\* How many octets the length of the element at the head of b takes beyond its
\* first, or 9 where read_tlv gives up (truncated, or longer than 65535).
LengthExtra(b) ==
  IF Len(b) < 2 THEN 9
  ELSE IF b[2] < 128 THEN 0
  ELSE IF b[2] = 129 /\ Len(b) >= 3 /\ Len(b) - 3 >= b[3] THEN 1
  ELSE IF b[2] = 130 /\ Len(b) >= 4 /\ Len(b) - 4 >= 256 * b[3] + b[4] THEN 2
  ELSE 9

tlv_value_len(b) ==
  CASE LengthExtra(b) = 0 -> b[2]
    [] LengthExtra(b) = 1 -> b[3]
    [] LengthExtra(b) = 2 -> 256 * b[3] + b[4]
    [] OTHER -> 0

\* read_tlv's tag, 0 for None.
read_tlv(b) == IF LengthExtra(b) = 9 THEN 0 ELSE b[1]
TlvLen(b) == 2 + LengthExtra(b) + tlv_value_len(b)
skip_tlv(b) == IF read_tlv(b) = 0 THEN <<>> ELSE SubSeq(b, TlvLen(b) + 1, Len(b))
tlv_value_bytes(b) == IF read_tlv(b) = 0 THEN <<>>
                      ELSE SubSeq(b, TlvLen(b) - tlv_value_len(b) + 1, TlvLen(b))

\* read_der_length: the length and how many octets it took, <<>> for Err.
read_der_length(b) ==
  IF b = <<>> THEN <<>>
  ELSE IF b[1] < 128 THEN <<b[1], 1>>
  ELSE LET n == b[1] - 128
       IN  IF n = 0 \/ n > 8 \/ Len(b) < 1 + n THEN <<>>
           ELSE << FoldLeft(LAMBDA len, octet : 256 * len + octet, 0, SubSeq(b, 2, 1 + n)),
                   1 + n >>

----------------------------------------------------------------------------
(* Digests and signatures.                                                 *)

DigestLen == [sha1 |-> 20, sha256 |-> 32, sha384 |-> 48, sha512 |-> 64]
HashAs(alg, what) == [alg |-> alg, of |-> what]
\* The octets of a certificate's digest: `id` stands for its whole encoding.
CertHash(alg, cert) == [i \in 1..DigestLen[alg] |-> cert.id]

\* A DER INTEGER: no leading zero octets, but one before a set high bit.
DerInteger(octets) ==
  LET significant == {i \in 1..Len(octets) : octets[i] # 0} \cup {Len(octets)}
      minimal == SubSeq(octets, Min(significant), Len(octets))
  IN  Tlv(INT_TAG, IF minimal[1] >= 128 THEN <<0>> \o minimal ELSE minimal)

EcSign(key, what, alg, rs) ==
  [by |-> key, over |-> HashAs(alg, what), rs |-> rs,
   der |-> Tlv(SEQ_TAG, DerInteger(rs[1]) \o DerInteger(rs[2]))]

normalize(b) ==
  LET body == IF Len(b) > 1 /\ b[1] = 0 THEN Tail(b) ELSE b
  IN  IF Len(body) <= ScalarLen
      THEN [i \in 1..(ScalarLen - Len(body)) |-> 0] \o body
      ELSE SubSeq(body, Len(body) - ScalarLen + 1, Len(body))

\* der_to_ecdsa_p384_signature: <<r, s>>, <<>> for an error.
der_to_ecdsa_p384_signature(der) ==
  LET r == tlv_value_bytes(der)
      s == skip_tlv(r)
  IN  IF read_tlv(der) = SEQ_TAG /\ read_tlv(r) = INT_TAG /\ read_tlv(s) = INT_TAG
      THEN <<normalize(tlv_value_bytes(r)), normalize(tlv_value_bytes(s))>>
      ELSE <<>>

\* verify_prehash of the p384 crate: `sig` was made with `key` over this hash.
VerifyPrehash(key, sig, rs, hash) == rs = sig.rs /\ sig.by = key /\ sig.over = hash

----------------------------------------------------------------------------
(* The ESS attributes.  An attribute is [oid, value]; the octets of an ESS *)
(* value are those inside the outer SEQUENCE, which Any::value leaves off. *)

\* What a service writes: SigningCertificate and SigningCertificateV2, with the
\* issuer and serial number the RFC makes optional (long enough for 0x81).
IssuerSerial == Tlv(SEQ_TAG, [i \in 1..130 |-> 0])
EssV1(cert) ==
  [oid |-> "signingCertificate",
   value |-> Tlv(SEQ_TAG, Tlv(SEQ_TAG, Tlv(OCTET_TAG, CertHash("sha1", cert)) \o IssuerSerial))]
EssV2(cert) ==
  [oid |-> "signingCertificateV2",
   value |-> Tlv(SEQ_TAG, Tlv(SEQ_TAG, Tlv(SEQ_TAG, Tlv(OID_TAG, <<96, 1>>))
                                        \o Tlv(OCTET_TAG, CertHash("sha256", cert))))]

\* The octet string at most three SEQUENCEs inside the first one, <<>> for none.
extract_ess_cert_hash_v1(bytes) ==
  LET p1 == tlv_value_bytes(bytes)
      p2 == tlv_value_bytes(p1)
      p3 == tlv_value_bytes(p2)
  IN  IF read_tlv(bytes) # SEQ_TAG THEN <<>>
      ELSE IF read_tlv(p1) = OCTET_TAG THEN tlv_value_bytes(p1)
      ELSE IF read_tlv(p1) # SEQ_TAG THEN <<>>
      ELSE IF read_tlv(p2) = OCTET_TAG THEN tlv_value_bytes(p2)
      ELSE IF read_tlv(p2) # SEQ_TAG THEN <<>>
      ELSE IF read_tlv(p3) = OCTET_TAG THEN tlv_value_bytes(p3)
      ELSE <<>>

\* Four SEQUENCEs down, past the fourth, then an octet string.
extract_ess_cert_hash_v2(bytes) ==
  LET p1 == tlv_value_bytes(bytes)
      p2 == tlv_value_bytes(p1)
      p3 == tlv_value_bytes(p2)
      p4 == skip_tlv(p3)
  IN  IF /\ \A p \in {bytes, p1, p2, p3} : read_tlv(p) = SEQ_TAG
         /\ read_tlv(p4) = OCTET_TAG
      THEN tlv_value_bytes(p4) ELSE <<>>

\* The first attribute of each kind whose hash is found decides, v1 before v2.
verify_ess_signing_certificate(attrs, cert) ==
  LET v1 == FirstOf(attrs, LAMBDA a : /\ a.oid = "signingCertificate"
                                      /\ extract_ess_cert_hash_v1(a.value) # <<>>)
      v2 == FirstOf(attrs, LAMBDA a : /\ a.oid = "signingCertificateV2"
                                      /\ extract_ess_cert_hash_v2(a.value) # <<>>)
  IN  IF v1 # <<>> THEN extract_ess_cert_hash_v1(v1[1].value) = CertHash("sha1", cert)
      ELSE v2 # <<>> /\ extract_ess_cert_hash_v2(v2[1].value) = CertHash("sha256", cert)

----------------------------------------------------------------------------
(* The chain: the first root named like the signer's issuer decides.       *)

DigestInfo(alg, hash) == [i \in 1..19 |-> DigestLen[alg]] \o [i \in 1..DigestLen[alg] |-> hash]
\* EMSA-PKCS1-v1_5, what an RSA signature opens to: padded to the modulus' size.
Padded(info, n) == <<0, 1>> \o [i \in 1..(n - Len(info) - 3) |-> 255] \o <<0>> \o info

\* A root's RSAPublicKey: a modulus of `size` octets with its high bit set, 65537.
RsaPublicKey(size) ==
  Tlv(SEQ_TAG, Tlv(INT_TAG, <<0>> \o [i \in 1..size |-> 200]) \o Tlv(INT_TAG, <<1, 0, 1>>))

strip_asn1_integer_sign(b) ==
  IF Len(b) > 1 /\ b[1] = 0 /\ b[2] >= 128 THEN Tail(b) ELSE b

\* parse_pkcs1_rsa_pubkey: the modulus, <<>> for an error.  The offset of the
\* modulus is computed from the length of the SEQUENCE (`seq_len.0`).
parse_pkcs1_rsa_pubkey(der) ==
  LET seqLen == read_der_length(Tail(der))
      p      == 1 + seqLen[1]
      n      == read_der_length(SubSeq(der, p + 2, Len(der)))
      p2     == p + 1 + n[2]
      p3     == p2 + n[1]
      e      == read_der_length(SubSeq(der, p3 + 2, Len(der)))
  IN  IF Len(der) < 2 \/ der[1] # SEQ_TAG \/ seqLen = <<>> THEN <<>>
      ELSE IF p >= Len(der) \/ der[p + 1] # INT_TAG \/ n = <<>> THEN <<>>
      ELSE IF p3 > Len(der) THEN <<>>
      ELSE IF p3 >= Len(der) \/ der[p3 + 1] # INT_TAG \/ e = <<>> THEN <<>>
      ELSE IF p3 + 1 + e[2] + e[1] > Len(der) THEN <<>>
      ELSE strip_asn1_integer_sign(SubSeq(der, p2 + 1, p3))

RSA_ALGS == [rsaSha256 |-> "sha256", rsaSha384 |-> "sha384", rsaSha512 |-> "sha512"]
ECDSA_ALGS == [ecdsaSha256 |-> "sha256", ecdsaSha384 |-> "sha384", ecdsaSha512 |-> "sha512"]

verify_chain_rsa(root, cert) ==
  LET n    == parse_pkcs1_rsa_pubkey(RsaPublicKey(root.size))
      info == DigestInfo(RSA_ALGS[cert.sigAlg], cert.id)
      m    == Padded(info, Len(n))
  IN  /\ cert.sigAlg \in DOMAIN RSA_ALGS
      /\ n # <<>>
      /\ cert.by = root.key
      /\ m = info

verify_chain_ecdsa_p384(root, cert) ==
  /\ cert.sigAlg \in DOMAIN ECDSA_ALGS
  /\ LET sig == EcSign(cert.by, cert.id, ECDSA_ALGS[cert.sigAlg], cert.rs)
     IN  VerifyPrehash(root.key, sig, der_to_ecdsa_p384_signature(sig.der),
                       HashAs(ECDSA_ALGS[cert.sigAlg], cert.id))

\* Mutant of verify_chain: the issuer's name is enough.
verify_chain_byName(cert, roots) == \E i \in 1..Len(roots) : roots[i].subject = cert.issuer

verify_chain(cert, roots) ==
  LET named == FirstOf(roots, LAMBDA r : r.subject = cert.issuer)
  IN  /\ named # <<>>
      /\ \/ named[1].kind = "rsa"  /\ verify_chain_rsa(named[1], cert)
         \/ named[1].kind = "p384" /\ verify_chain_ecdsa_p384(named[1], cert)

----------------------------------------------------------------------------
(* The strict verification of themis-evidence.                             *)

cert_matches_signer(cert, signer) ==
  \/ signer.sid = "issuerAndSerial" /\ cert.issuer = signer.issuer /\ cert.serial = signer.serial
  \/ signer.sid = "keyIdentifier"   /\ cert.ski = signer.ski

\* The certificates of the token come before the trusted ones.
locate_signer_cert(certs, signer, trusted) ==
  FirstOf(certs \o trusted, LAMBDA c : cert_matches_signer(c, signer))

extract_message_digest(attrs) == FirstOf(attrs, LAMBDA a : a.oid = "messageDigest")

\* parse_tst_info and parse_signed_data: what stops them.
ParseError(token) ==
  IF token.form # "response" THEN "asn1"
  ELSE IF token.content # "signedData" THEN "cms"
  ELSE IF token.imprint = "none" THEN "cms" ELSE "none"

verify_cms_signature_p384_sha512(signer, cert) ==
  /\ signer.alg = "ecdsaSha512"
  /\ cert.kind = "p384"
  /\ VerifyPrehash(cert.key, signer.sig, der_to_ecdsa_p384_signature(signer.sig.der),
                   HashAs("sha512", signer.attrs))

verify_signed_data(token, trusted, roots) ==
  IF token.signers = <<>> THEN "cms"
  ELSE LET signer == token.signers[1]
           digest == extract_message_digest(signer.attrs)
           cert   == locate_signer_cert(token.certs, signer, trusted)
       IN  IF signer.attrs = <<>> \/ digest = <<>> THEN "cms"
           ELSE IF digest[1].value.alg \notin {"sha256", "sha512"} THEN "ess"
           ELSE IF digest[1].value # HashAs(digest[1].value.alg, token.imprint) THEN "ess"
           ELSE IF cert = <<>> THEN "signerCertMissing"
           ELSE IF ~verify_ess_signing_certificate(signer.attrs, cert[1]) THEN "ess"
           ELSE IF ~verify_cms_signature_p384_sha512(signer, cert[1]) THEN "signature"
           ELSE IF ~verify_chain(cert[1], roots) THEN "chain"
           ELSE "ok"

\* FreeTSAAuthority::verify_strict: the imprint and nothing else.
verify_strict(token, digest) ==
  IF ParseError(token) # "none" THEN ParseError(token)
  ELSE IF token.imprint # digest THEN "false" ELSE "ok"

verify_strict_with_certs(token, digest, trusted, roots) ==
  IF verify_strict(token, digest) # "ok" THEN verify_strict(token, digest)
  ELSE verify_signed_data(token, trusted, roots)

----------------------------------------------------------------------------
(* The strict verification of tl-evidence: every signer's own signature,   *)
(* and a chain whose certificates are CAs or time-stamping ones.           *)

extract_signed_data(token) ==
  CASE token.form = "response"    -> token.content = "signedData"
    [] token.form = "contentInfo" -> token.content = "signedData"
    [] OTHER                      -> FALSE

validate_chain_pem(chain) ==
  chain # <<>> /\ \A i \in 1..Len(chain) : chain[i].ca \/ chain[i].timeStamping

\* The library finds the signer's certificate in the token itself.
SignerVerifies(token, signer) ==
  \E i \in 1..Len(token.certs) :
    /\ cert_matches_signer(token.certs[i], signer)
    /\ signer.sig.by = token.certs[i].key
    /\ signer.sig.over = HashAs("sha512", signer.attrs)

cms_verify(token, digest, chain) ==
  /\ extract_signed_data(token)
  /\ validate_chain_pem(chain)
  /\ \A i \in 1..Len(token.signers) :
       LET signer == token.signers[i]
           md     == extract_message_digest(signer.attrs)
       IN  /\ SignerVerifies(token, signer)
           /\ md # <<>> /\ md[1].value = HashAs(md[1].value.alg, token.imprint)
           /\ signer.attrs # <<>> /\ token.type = "tstInfo"
  /\ token.imprint = digest

----------------------------------------------------------------------------
(* The answers of a service, and what may befall them on the way.          *)

Attrs(digest, alg, ess) == << [oid |-> "messageDigest", value |-> HashAs(alg, digest)] >> \o ess

SignerInfo(a, attrs, sid, rs) ==
  [sid |-> sid, issuer |-> a.cert.issuer, serial |-> a.cert.serial, ski |-> a.cert.ski,
   attrs |-> attrs, alg |-> "ecdsaSha512", sig |-> EcSign(a.cert.key, attrs, "sha512", rs)]

\* An ESS attribute of version 1 or 2, or both.
EssAttrs(v, cert) == CASE v = 1 -> <<EssV1(cert)>>
                       [] v = 2 -> <<EssV2(cert)>>
                       [] OTHER -> <<EssV2(cert), EssV1(cert)>>

\* A token the authority `by` makes: with or without its certificate, with an ESS
\* attribute of either version, with either digest.
Issued(a, digest) ==
  { [form |-> "response", content |-> "signedData", type |-> "tstInfo", imprint |-> digest,
     certs |-> certs, fault |-> "none", ess |-> v, by |-> a.cert,
     signers |-> << SignerInfo(a, Attrs(digest, alg, EssAttrs(v, a.cert)), sid, rs) >>] :
    certs \in {<<>>, <<a.cert>>}, v \in {1, 2, 3}, alg \in {"sha256", "sha512"},
    sid \in {"issuerAndSerial", "keyIdentifier"}, rs \in Scalars }

\* A certificate somebody else made out in the same names.
Forged(cert) == [cert EXCEPT !.key = "unknown", !.by = "unknown", !.id = @ + 100]

\* What a token may have become: re-labelled, stripped, wrapped, or re-signed with
\* a key no root vouches for.
Damaged(t, a, digest) ==
  LET s == t.signers[1]
      resign(cert, attrs) ==
        [s EXCEPT !.attrs = attrs, !.sig = EcSign("unknown", attrs, "sha512", s.sig.rs)]
  IN  { [t EXCEPT !.fault = "imprint", !.imprint = d] : d \in Digests \ {digest} }
      \cup { [t EXCEPT !.fault = "no token", !.content = "none"],
             [t EXCEPT !.fault = "bare", !.form = "contentInfo"],
             [t EXCEPT !.fault = "no content", !.imprint = "none"],
             [t EXCEPT !.fault = "no signer", !.signers = <<>>],
             [t EXCEPT !.fault = "no attributes", !.signers[1].attrs = <<>>],
             [t EXCEPT !.fault = "algorithm", !.signers[1].alg = "rsaSha256"],
             [t EXCEPT !.fault = "old digest",
                       !.signers = <<resign(a.cert, Attrs(digest, "sha1", <<EssV1(a.cert)>>))>>],
             [t EXCEPT !.fault = "forged certificate", !.certs = <<Forged(a.cert)>>],
             [t EXCEPT !.fault = "re-signed",
                       !.signers = <<resign(a.cert, s.attrs)>>] }
      \cup { [t EXCEPT !.fault = "forged", !.certs = <<Forged(a.cert)>>, !.imprint = d,
                       !.signers = <<resign(a.cert, Attrs(d, "sha512", <<EssV1(Forged(a.cert))>>))>>] :
             d \in Digests }

----------------------------------------------------------------------------
(* The clients.                                                            *)

SECTIGO == "https://timestamp.sectigo.com"
Qualified == [tier |-> "qualified", url |-> SECTIGO, chain |-> <<>>]

\* init: sectigo and digicert read their chain (and their URL) and drop it.
TsaInit(provider, readable) ==
  /\ tsClient.tier = "none"
  /\ tsClient' =
       CASE provider = "mock" -> [tier |-> "mock", url |-> "mock://local", chain |-> <<>>]
         [] provider \in {"free_tsa", "free"} ->
              [tier |-> "freeTsa", url |-> "https://freetsa.org/tsr", chain |-> <<>>]
         [] provider \in {"sectigo", "digicert"} ->
              IF readable THEN Qualified ELSE [tier |-> "fetch error", url |-> "none", chain |-> <<>>]
         [] provider \in {"qualified", "qtsp"} -> Qualified
         [] OTHER -> [tier |-> "provider error", url |-> "none", chain |-> <<>>]
  /\ UNCHANGED <<tsStamped, tsToken, tsVerdict>>

\* The mock's token is empty.
MockStamp ==
  /\ tsClient.tier = "mock" /\ tsVerdict = NoVerdict
  /\ tsToken' = NoToken
  /\ UNCHANGED <<tsClient, tsStamped, tsVerdict>>

\* FreeTSA's stamp: a body that is not empty is kept as it came; the service has
\* signed the digest whatever becomes of its answer.
Stamp(a, digest) ==
  /\ tsClient.tier = "freeTsa"
  /\ tsVerdict = NoVerdict
  /\ Cardinality(tsStamped) < MaxStamped
  /\ tsStamped' = tsStamped \cup {<<a.cert.key, digest>>}
  /\ \/ \E t \in Issued(a, digest) : tsToken' = t
     \/ \E t \in Issued(a, digest) :
          /\ t.certs # <<>> /\ t.ess = 1
          /\ tsToken' \in Damaged(t, a, digest)
  /\ UNCHANGED <<tsClient, tsVerdict>>

\* A time-out, a status outside 2xx or an empty body; a digest that is not hex of
\* 32 bytes is refused before the request.
StampFails(digest) ==
  /\ tsClient.tier \in {"freeTsa", "qualified"} /\ tsVerdict = NoVerdict
  /\ tsVerdict' = [NoVerdict EXCEPT !.how = "fetch", !.digest = digest, !.result = "error"]
  /\ tsToken' = NoToken
  /\ UNCHANGED <<tsClient, tsStamped>>

\* The qualified client posts the digest in base64, which is no TimeStampReq: a
\* service answers with a rejection, a response without a token.
FetchQualified ==
  /\ tsClient.tier = "qualified" /\ tsVerdict = NoVerdict
  /\ tsToken' = [form |-> "response", content |-> "none", type |-> "none", imprint |-> "none",
                 certs |-> <<>>, fault |-> "rejection", ess |-> 0, signers |-> <<>>]
  /\ UNCHANGED <<tsClient, tsStamped, tsVerdict>>

\* A verification changes nothing: the caller takes the answer (Answered).
Judge(how, digest, trusted, roots, result) ==
  /\ tsVerdict = NoVerdict
  /\ tsClient.tier \notin {"none", "fetch error", "provider error"}
  /\ tsVerdict' = [how |-> how, digest |-> digest, trusted |-> trusted, roots |-> roots,
                   result |-> result]
  /\ UNCHANGED <<tsClient, tsStamped, tsToken>>

\* TsaClient::verify_token: the mock says yes, FreeTSA to any byte at all.
VerifyToken(digest) ==
  LET valid == CASE tsClient.tier = "mock"    -> TRUE
                 [] tsClient.tier = "freeTsa" -> tsToken.form # "empty"
                 [] OTHER -> tsToken.form # "empty" /\ cms_verify(tsToken, digest, tsClient.chain)
  IN  Judge("token", digest, <<>>, <<>>, IF valid THEN "ok" ELSE "invalid")

VerifyStrict(digest) ==
  /\ tsToken.form # "empty"
  /\ Judge("strict", digest, <<>>, <<>>, verify_strict(tsToken, digest))

VerifyStrictWithCerts(digest, trusted, roots) ==
  /\ tsToken.form # "empty"
  /\ Judge("certs", digest, trusted, roots,
           verify_strict_with_certs(tsToken, digest, trusted, roots))

CmsVerify(digest, chain) ==
  /\ tsToken.form # "empty"
  /\ Judge("cms", digest, <<>>, chain, IF cms_verify(tsToken, digest, chain) THEN "ok" ELSE "error")

\* validate_eu_trust_list and its lenient form, and what the report is good for.
CheckTrustList(policy, root, chainLength, lenient) ==
  LET qualified == policy \in {"0.4.0.194112.1.2", "0.4.0.194112.1.3"}
      listed    == root \in {"sectigo", "digicert"}
  IN  Judge(IF lenient THEN "lenient" ELSE "trust list", "none", <<>>, <<>>,
            IF chainLength = 0 THEN "empty"
            ELSE IF chainLength < 2 THEN "too short"
            ELSE IF ~qualified THEN "policy"
            ELSE IF listed THEN "valid" ELSE IF lenient THEN "qualified" ELSE "root")

Answered ==
  /\ tsVerdict # NoVerdict
  /\ tsVerdict' = NoVerdict
  /\ UNCHANGED <<tsClient, tsStamped, tsToken>>

tsInit ==
  /\ tsClient = [tier |-> "none", url |-> "none", chain |-> <<>>]
  /\ tsStamped = {}
  /\ tsToken = NoToken
  /\ tsVerdict = NoVerdict

tsNext ==
  \/ \E p \in {"mock", "free_tsa", "free", "sectigo", "digicert", "qualified", "qtsp", "other"},
        readable \in BOOLEAN : TsaInit(p, readable)
  \/ MockStamp
  \/ \E a \in Authorities, d \in Digests : Stamp(a, d)
  \/ \E d \in Digests : StampFails(d)
  \/ FetchQualified
  \/ \E d \in Digests : VerifyToken(d)
  \/ \E d \in Digests : VerifyStrict(d)
  \/ \E d \in Digests, roots \in RootLists, trusted \in {<<>>} \cup {<<a.cert>> : a \in Authorities} :
       VerifyStrictWithCerts(d, trusted, roots)
  \/ \E d \in Digests, chain \in Chains : CmsVerify(d, chain)
  \/ \E policy \in {"0.4.0.194112.1.2", "none"}, root \in {"sectigo", "other"}, n \in 0..2,
        lenient \in BOOLEAN : CheckTrustList(policy, root, n, lenient)
  \/ Answered

tsSpec == tsInit /\ [][tsNext]_tsVars

----------------------------------------------------------------------------
\* A token the full verification accepts for a digest comes from a service that
\* one of the verifier's roots vouches for and that has signed this very digest:
\* no re-labelling, stripping or re-signing on the way is accepted
\* (FreeTSAAuthority::verify_strict_with_certs).
VerifiedWasStamped ==
  tsVerdict.how = "certs" /\ tsVerdict.result = "ok" =>
    \E a \in Authorities :
      /\ \E i \in 1..Len(tsVerdict.roots) : tsVerdict.roots[i].key = a.root.key
      /\ <<a.cert.key, tsVerdict.digest>> \in tsStamped

\* A token its service made with an ESS attribute of one of the versions is
\* accepted for its digest by a verifier that has the signer's certificate, from
\* the token or from its own list, and whose first root of the issuer's name is
\* the service's with a key of one of the kinds: for every size of the
\* signature's two numbers.
AcceptedWhenHonest(kinds, versions) ==
  /\ tsVerdict.how = "certs" /\ tsToken.fault = "none" /\ tsToken.ess \in versions
  /\ tsVerdict.digest = tsToken.imprint
  /\ tsToken.certs # <<>> \/ tsVerdict.trusted = <<tsToken.by>>
  /\ \E a \in Authorities :
       LET named == FirstOf(tsVerdict.roots, LAMBDA r : r.subject = a.cert.issuer)
       IN  tsToken.by = a.cert /\ named # <<>> /\ named[1] = a.root /\ a.root.kind \in kinds
  => tsVerdict.result = "ok"

\* What verify_strict_with_certs can do of its claims: roots with elliptic-curve
\* keys, and tokens with a version 1 ESS attribute (alone or beside one of
\* version 2).
HonestEcV1TokenIsVerified == AcceptedWhenHonest({"p384"}, {1, 3})

\* A verdict of the full verification is right both ways: what it accepts was
\* stamped, and it accepts the tokens of HonestEcV1TokenIsVerified.
VerificationIsRight == VerifiedWasStamped /\ HonestEcV1TokenIsVerified

\* The claim of verify_chain ("Supports both ECDSA-P-384 and RSA (FreeTSA's root)")
\* and of the test on FreeTSA's own token: an honest token is accepted whatever
\* kind of key the root has.
HonestTokenIsVerified == AcceptedWhenHonest({"p384", "rsa"}, {1, 3})
===============================================================================
