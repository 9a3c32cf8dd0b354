------------------------------- MODULE Notary -------------------------------
(***************************************************************************)
(* The notary of the control plane and, in a second half that shares no    *)
(* state with it, the receipts of tl-scitt with their countersignatures.   *)
(* The notary serves POST /v1/notarize.  A call lists the                  *)
(* submitter's certificates, and either replays the one it finds or signs, *)
(* timestamps, anchors, renders and saves a new one.  The calls are        *)
(* coroutines of one event loop: between two awaits (the database calls)   *)
(* nothing else runs, at an await anything may.  The signer, the timestamp *)
(* authority, the SCITT ledger and the database may each fail.             *)
(***************************************************************************)
EXTENDS Naturals, Sequences, FiniteSets, SequencesExt

CONSTANTS
  Requests,     \* the calls of /v1/notarize, which may overlap
  Contents,     \* content hashes
  Bare,         \* bound: the contents that are sent without their tokens
  Submitters,   \* submitters
  Limit,        \* how many certificates list_certificates returns
  Outages,      \* which of {"tsa", "wm", "pdf"} may be down together
  MaxCrashes    \* how often the process may be killed

ASSUME LimitAssumption == Limit \in Nat

None == 0       \* an absent token, entry, path: ids start at 1

VARIABLES
  signer,    \* the HSM signer the process was started with
  certs,     \* the certificate table, in commit order
  ledger,    \* the SCITT log: the certificate ids it was sent, in order
  clock,     \* datetime.now, and the source of certificate ids
  noCalls,     \* the coroutines
  crashes

noVars == <<signer, certs, ledger, clock, noCalls, crashes>>

NotarizeArgs ==
  {a \in [content : Contents, org : Submitters, tokens : BOOLEAN] :
     a.tokens <=> a.content \notin Bare}

NoCall == [pc |-> "idle"]

----------------------------------------------------------------------------
(* The signers.  get_signer prefers AWS KMS, then Thales, then a key of    *)
(* the process.  The Thales adapter cannot sign at all, KMS may refuse.    *)

Environments == SUBSET {"TL_AWS_KMS_KEY_ID", "TL_THALES_PKCS11_MODULE"}

get_signer(env) ==
  IF "TL_AWS_KMS_KEY_ID" \in env THEN "aws"
  ELSE IF "TL_THALES_PKCS11_MODULE" \in env THEN "thales"
  ELSE "ephemeral"

algorithm(s) == IF s = "ephemeral" THEN "EdDSA" ELSE "ML-DSA-65"

\* What sign may do: the signature names the key that made it.  The
\* ephemeral signer draws a key for every signature, so no two agree and
\* none is the key of its stable fingerprint.
SignOutcomes(s, now) ==
  CASE s = "aws"       -> {[ok |-> TRUE, key |-> None], [ok |-> FALSE]}
    [] s = "thales"    -> {[ok |-> FALSE]}
    [] s = "ephemeral" -> {[ok |-> TRUE, key |-> now]}

\* COSE_Sign1 over the claims: the header names the signer's algorithm, the
\* claims name the certificate, the content and the submitter.
CoseSign1(args, id, key) ==
  [alg |-> algorithm(signer), key |-> key,
   cert_id |-> id, content |-> args.content, org |-> args.org]

----------------------------------------------------------------------------
(* The remote services.                                                    *)

\* QTSPClient.timestamp: a token, or None in every kind of failure.
timestamp(down) == IF "tsa" \in down THEN "none" ELSE "token"

\* SCITTClient.submit.  "entry" and "noid": accepted, with and without an id
\* in the answer; "lost": accepted, but the answer never came; "refused":
\* not accepted.  "undecodable": the dotted envelope is padded as if the
\* dots were base64 characters, both decoders refuse it, and the handler
\* that should degrade names httpx before its local import has bound it, so
\* the call raises instead.
submit == {"entry", "noid", "lost", "refused", "undecodable"}
Accepted(s) == s \in {"entry", "noid", "lost"}

\* The z-test runs only for noCalls with token ids, and its failures are
\* swallowed.
WatermarkResult(args, down) ==
  IF args.tokens /\ "wm" \notin down THEN "result" ELSE "none"

\* CertificateArtifactGenerator.generate: a path, to the report or, where
\* reportlab is missing or fails, to the minimal PDF; None if the write of
\* the file fails.
generate(down) == IF "pdf" \in down THEN "none" ELSE "path"

----------------------------------------------------------------------------
(* The table.                                                              *)

\* list_certificates: the submitter's newest certificates by notarized_at.
list_certificates(org) ==
  LET mine == {i \in DOMAIN certs : certs[i].org = org}
      Newer(i) == {j \in mine : certs[j].notarized_at > certs[i].notarized_at}
  IN {i \in mine : Cardinality(Newer(i)) < Limit}

get_certificate(id) ==
  CHOOSE i \in DOMAIN certs : certs[i].cert_id = id

\* A row keeps neither the watermark result nor a mark of degraded mode.
Row(rec) ==
  [cert_id |-> rec.cert_id, content |-> rec.content, org |-> rec.org,
   notarized_at |-> rec.notarized_at, cose |-> rec.cose, tsa |-> rec.tsa,
   entry |-> rec.entry, pdf |-> rec.pdf, seen |-> rec.seen]

----------------------------------------------------------------------------
(* The coroutine of one call.                                              *)

post_notarize(c, args) ==
  /\ noCalls[c].pc = "idle"
  /\ noCalls' = [noCalls EXCEPT ![c] = [pc |-> "list", args |-> args]]
  /\ UNCHANGED <<signer, certs, ledger, clock, crashes>>

\* Mutant of CheckExisting: whatever the submitter notarized last is replayed.
CheckExistingAny(c) ==
  /\ noCalls[c].pc = "list"
  /\ LET args == noCalls[c].args
         same == list_certificates(args.org)
         newest == CHOOSE i \in same : \A j \in same :
                     certs[j].notarized_at <= certs[i].notarized_at
     IN noCalls' = [noCalls EXCEPT ![c] =
          [pc |-> IF same = {} THEN "issue" ELSE "replay", args |-> args,
           found |-> IF same = {} THEN None ELSE certs[newest].cert_id,
           seen |-> Len(certs)]]
  /\ UNCHANGED <<signer, certs, ledger, clock, crashes>>

\* The idempotency check: the first certificate of the list, newest first,
\* whose content hash is the request's.  seen is a history variable.
CheckExisting(c) ==
  /\ noCalls[c].pc = "list"
  /\ LET args == noCalls[c].args
         same == {i \in list_certificates(args.org) :
                    certs[i].content = args.content}
         newest == CHOOSE i \in same : \A j \in same :
                     certs[j].notarized_at <= certs[i].notarized_at
     IN noCalls' = [noCalls EXCEPT ![c] =
          [pc |-> IF same = {} THEN "issue" ELSE "replay", args |-> args,
           found |-> IF same = {} THEN None ELSE certs[newest].cert_id,
           seen |-> Len(certs)]]
  /\ UNCHANGED <<signer, certs, ledger, clock, crashes>>

\* The call ends with a 500; lost is the id it had drawn (history).
Fail(c, id) ==
  noCalls' = [noCalls EXCEPT ![c] = [pc |-> "failed", args |-> @.args, lost |-> id]]

\* From _cose_sign1 to the PDF there is no await.  A signature or an
\* envelope that fails ends the call with a 500; the timestamp, the
\* anchor, the watermark and the PDF degrade to None.
Issue(c) ==
  /\ noCalls[c].pc = "issue"
  /\ clock' = clock + 1
  /\ LET args == noCalls[c].args
     IN \E sig \in SignOutcomes(signer, clock), anchor \in submit,
           down \in Outages :
          /\ ledger' = IF sig.ok /\ Accepted(anchor)
                       THEN Append(ledger, clock) ELSE ledger
          /\ IF ~sig.ok \/ anchor = "undecodable"
             THEN Fail(c, clock)
             ELSE noCalls' = [noCalls EXCEPT ![c] =
                    [pc |-> "save", args |-> args,
                     rec |-> [cert_id |-> clock, content |-> args.content,
                              org |-> args.org, notarized_at |-> clock,
                              cose |-> CoseSign1(args, clock, sig.key),
                              tsa |-> timestamp(down),
                              entry |-> IF anchor = "entry"
                                        THEN Len(ledger) + 1 ELSE None,
                              wm |-> WatermarkResult(args, down),
                              pdf |-> generate(down), seen |-> noCalls[c].seen]]]
  /\ UNCHANGED <<signer, certs, crashes>>

Reply(c, rec, wm) ==
  noCalls' = [noCalls EXCEPT ![c] =
    [pc |-> "replied", args |-> @.args, cert_id |-> rec.cert_id,
     cose |-> rec.cose, entry |-> rec.entry, wm |-> wm]]

\* save_certificate commits the row and the call answers 201, or the commit
\* fails and the call answers 500: what the ledger holds stays there.
SaveCertificate(c) ==
  /\ noCalls[c].pc = "save"
  /\ \/ /\ certs' = Append(certs, Row(noCalls[c].rec))
        /\ Reply(c, noCalls[c].rec, noCalls[c].rec.wm)
     \/ /\ Fail(c, noCalls[c].rec.cert_id)
        /\ UNCHANGED certs
  /\ UNCHANGED <<signer, ledger, clock, crashes>>

\* The second await of the idempotent path; the answer is built from the
\* row, which holds no watermark result.
Replay(c) ==
  /\ noCalls[c].pc = "replay"
  /\ Reply(c, certs[get_certificate(noCalls[c].found)], "none")
  /\ UNCHANGED <<signer, certs, ledger, clock, crashes>>

\* The process is killed and started again; the table and the ledger stay.
Crash ==
  /\ crashes < MaxCrashes
  /\ crashes' = crashes + 1
  /\ noCalls' = [c \in Requests |->
       IF noCalls[c].pc \in {"list", "issue", "replay", "save"}
       THEN [pc |-> "failed", args |-> noCalls[c].args,
             lost |-> IF noCalls[c].pc = "save" THEN noCalls[c].rec.cert_id ELSE None]
       ELSE noCalls[c]]
  /\ UNCHANGED <<signer, certs, ledger, clock>>

noInit ==
  /\ \E env \in Environments : signer = get_signer(env)
  /\ certs = <<>> /\ ledger = <<>> /\ clock = 1 /\ crashes = 0
  /\ noCalls = [c \in Requests |-> NoCall]

noNext ==
  \/ \E c \in Requests :
       \/ \E args \in NotarizeArgs : post_notarize(c, args)
       \/ CheckExisting(c) \/ Issue(c) \/ SaveCertificate(c) \/ Replay(c)
  \/ Crash

noSpec == noInit /\ [][noNext]_noVars

----------------------------------------------------------------------------
(* Properties.                                                             *)

\* A call that was answered 201 holds an envelope that is the stored
\* certificate's, signed for the content and the submitter it asked for:
\* whichever of the two paths it took and whoever else was notarizing.
AnsweredIsStored ==
  \A c \in Requests : noCalls[c].pc = "replied" =>
    \E i \in DOMAIN certs :
      /\ certs[i].cert_id = noCalls[c].cert_id
      /\ certs[i].cose = noCalls[c].cose
      /\ certs[i].cose.content = noCalls[c].args.content
      /\ certs[i].cose.org = noCalls[c].args.org

\* An id is accounted for by a row, by a call that is about to save it, or by
\* one that was answered 500 or died with it.
IsAccountedFor(id) ==
  \/ \E i \in DOMAIN certs : certs[i].cert_id = id
  \/ \E c \in Requests : noCalls[c].pc = "save" /\ noCalls[c].rec.cert_id = id
  \/ \E c \in Requests : noCalls[c].pc = "failed" /\ noCalls[c].lost = id

\* The transparency log, which is written before the commit, has no certificate
\* twice and none that the table lacks, but for the calls that are not through
\* and those that failed: no caller was told of an entry without a row.
LedgerIsExplained ==
  /\ \A m, n \in DOMAIN ledger : ledger[m] = ledger[n] => m = n
  /\ \A n \in DOMAIN ledger : IsAccountedFor(ledger[n])

\* Idempotency as the code gives it: a second certificate for the same
\* content and submitter is issued only if the first was not yet committed
\* when the second call listed, or was older than the Limit newest.
SecondIsOverlappedOrOld ==
  \A i, j \in DOMAIN certs :
    (/\ i < j /\ i <= certs[j].seen
     /\ certs[i].content = certs[j].content /\ certs[i].org = certs[j].org)
    => Limit <= Cardinality({k \in 1..certs[j].seen :
         certs[k].org = certs[i].org /\ certs[k].notarized_at > certs[i].notarized_at})

\* What the notary has promised stands: answers, log entries and repeated
\* requests all lead back to rows of the table that are of their content.
CertificatesAreBacked ==
  AnsweredIsStored /\ LedgerIsExplained /\ SecondIsOverlappedOrOld

\* Idempotency as the service promises it: one certificate per content and
\* submitter.
OneCertificatePerContent ==
  \A i, j \in DOMAIN certs :
    certs[i].content = certs[j].content /\ certs[i].org = certs[j].org => i = j

-----------------------------------------------------------------------------
(***************************************************************************)
(* SCITT receipts and their countersignatures.  A signature is the pair of *)
(* key and message, which nobody else can make; a receipt that arrives may *)
(* be put together from the parts of several.                              *)
(***************************************************************************)

CONSTANTS
  Keys,       \* Ed25519 keys
  Payloads,   \* payloads of receipts
  MaxSigned   \* bound: envelopes, and countersignatures, ever made

VARIABLES
  envelopes,  \* COSE_Sign1 envelopes ever signed
  cosigs,     \* countersignatures ever made
  receipt     \* the countersigned receipt last received, <<>> before the first

scVars == <<envelopes, cosigs, receipt>>

Sign(key, message) == [key |-> key, message |-> message]
NoEnvelope == [payload |-> "none", sig |-> Sign("none", "none")]  \* not CBOR
Fingerprint(key) == <<"blake3", key>>

\* The checks in order; the inclusion proof is None or absent.
verify_offline(r, issuer) ==
  CASE r.fingerprint # Fingerprint(issuer) -> "KeyIdMismatch"
    [] r.fingerprint = Fingerprint(issuer) /\ r.envelope = NoEnvelope -> "CborDecodeFailed"
    [] OTHER ->
         IF r.envelope.payload # r.payload THEN "PayloadHashMismatch"
         ELSE IF r.envelope.sig # Sign(issuer, r.envelope.payload) THEN "InvalidSignature"
         ELSE "ok"

\* Mutant of counter_verify_offline: the issuer's own signature is not checked.
counter_verify_offline_outer(c, issuer, cosc) ==
  IF c.coscFingerprint # Fingerprint(cosc) THEN "KeyIdMismatch"
  ELSE IF c.cosig # [key |-> cosc, envelope |-> c.receipt.envelope]
       THEN "InvalidCounterSignature"
  ELSE "ok"

\* The countersignature is over the issuer's envelope.
counter_verify_offline(c, issuer, cosc) ==
  IF c.coscFingerprint # Fingerprint(cosc) THEN "KeyIdMismatch"
  ELSE IF verify_offline(c.receipt, issuer) # "ok" THEN "InnerReceiptInvalid"
  ELSE IF c.cosig # [key |-> cosc, envelope |-> c.receipt.envelope]
       THEN "InvalidCounterSignature"
  ELSE "ok"

----------------------------------------------------------------------------

scInit == envelopes = {NoEnvelope} /\ cosigs = {} /\ receipt = <<>>

\* The issuer signs the payload; a witness signs the issuer's envelope.
IssueReceipt ==
  /\ Cardinality(envelopes) <= MaxSigned    \* NoEnvelope is one of them
  /\ \E k \in Keys, p \in Payloads :
       envelopes' = envelopes \cup {[payload |-> p, sig |-> Sign(k, p)]}
  /\ UNCHANGED <<cosigs, receipt>>

CounterSign ==
  /\ Cardinality(cosigs) < MaxSigned
  /\ \E k \in Keys, e \in envelopes \ {NoEnvelope} :
       cosigs' = cosigs \cup {[key |-> k, envelope |-> e]}
  /\ UNCHANGED <<envelopes, receipt>>

\* A receipt arrives, put together from any parts that exist.
ReceiveReceipt ==
  /\ \E e \in envelopes, c \in cosigs, p \in Payloads, k1, k2 \in Keys :
       receipt' = [receipt |-> [payload |-> p, envelope |-> e,
                                fingerprint |-> Fingerprint(k1)],
                   cosig |-> c, coscFingerprint |-> Fingerprint(k2)]
  /\ UNCHANGED <<envelopes, cosigs>>

scNext == IssueReceipt \/ CounterSign \/ ReceiveReceipt

scSpec == scInit /\ [][scNext]_scVars

----------------------------------------------------------------------------

\* A receipt accepted for an issuer and a witness carries a payload that the
\* issuer signed, in the envelope that the witness countersigned.
AcceptedWasSigned ==
  receipt # <<>> =>
    \A issuer, cosc \in Keys :
      counter_verify_offline(receipt, issuer, cosc) = "ok" =>
        \E e \in envelopes :
          /\ e.payload = receipt.receipt.payload
          /\ e.sig = Sign(issuer, e.payload)
          /\ [key |-> cosc, envelope |-> e] \in cosigs
=============================================================================
