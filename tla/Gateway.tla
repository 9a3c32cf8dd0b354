------------------------------- MODULE Gateway --------------------------------
(***************************************************************************)
(* The control plane: the tables its reports are computed from, and its    *)
(* HTTP surface.                                                           *)
(***************************************************************************)
EXTENDS Naturals, Sequences, FiniteSets, TLC, SequencesExt

(***************************************************************************)
(* The tables of the control plane's compliance mappers and what the       *)
(* assessments and reports compute from them.  A control, check or risk is *)
(* kept with the fields the assessments read; names, articles, evidence    *)
(* references and prose are left out.  An Annex A control is the sequence  *)
(* of its numbers: A.6.2.6 is <<6, 2, 6>>.                                 *)
(***************************************************************************)

With(ids, v) == [c \in ids |-> v]

----------------------------------------------------------------------------
(* compliance/dora.py, compliance/cross_jurisdiction.py                    *)

\* DORA-01 to DORA-07, each with whether it applies.
DORA_EVIDENCE_CHECKS == With(1..7, TRUE)

assess_dora_evidence_pack(org) ==
  LET applicable == {c \in DOMAIN DORA_EVIDENCE_CHECKS : DORA_EVIDENCE_CHECKS[c]}
      total == Cardinality(DOMAIN DORA_EVIDENCE_CHECKS)
  IN [org_id |-> org, checks |-> applicable,
      applicable_checks |-> Cardinality(applicable), total_checks |-> total,
      rollup |-> IF Cardinality(applicable) = total THEN "Compliant" ELSE "Partial"]

CROSS_JURISDICTION_PROFILES ==
  [EU_AI_ACT |-> "Compliant", UK_AI_BILL |-> "Compliant",
   US_EO_14110 |-> "Compliant", CHINA_GENAI_MEASURES |-> "Partial"]

----------------------------------------------------------------------------
(* pld_shield.py and the reports of api/pld.py                             *)

ISO_42001_CONTROLS ==
  With({<<5,2>>, <<5,3>>, <<6,2,6>>, <<6,2,8>>, <<8,5>>, <<10,1>>}, "implemented") @@
  With({<<9,4>>}, "partial")

\* All six apply, each with three mitigations.
NIST_AI_600_1_RISKS ==
  With({3, 5}, "critical") @@ With({1, 2, 4}, "high") @@ With({10}, "medium")

\* The Art. 9 answer: one "available" pack, of no bundle, per category asked
\* for; neither signed nor anchored.
disclosure_response(order, scope) ==
  [order_id |-> order,
   evidence_packs |-> With(scope, [status |-> "available", bundle_count |-> 0]),
   cose_sign1 |-> "none", scitt_entry |-> "none"]

\* The Art. 10 pack is the same for every product: three rebuttals, every
\* regime compliant, and the caller's bundle ids as they came.
rebuttal_pack(product, bundles) ==
  [product_id |-> product, rebuttals |-> {"10(1)", "10(2)", "10(3)"},
   compliance_summary |-> With({"eu-ai-act", "dora", "iso-42001", "pld"}, "compliant"),
   bundles |-> bundles, cose_sign1 |-> "none", scitt_entry |-> "none"]

Count(table, v) == Cardinality({c \in DOMAIN table : table[c] = v})

iso42001_soa ==
  [controls |-> ISO_42001_CONTROLS,
   summary |-> [s \in {"implemented", "partial", "planned", "not_applicable"} |->
                  Count(ISO_42001_CONTROLS, s)]]

iso42001_controls ==
  [controls |-> ISO_42001_CONTROLS, total |-> Cardinality(DOMAIN ISO_42001_CONTROLS)]

nist_risks ==
  [risks |-> NIST_AI_600_1_RISKS, total |-> Cardinality(DOMAIN NIST_AI_600_1_RISKS)]

nist_profile ==
  LET n == Cardinality(DOMAIN NIST_AI_600_1_RISKS)
  IN [total_risks |-> n, applicable |-> n, mitigated |-> n, coverage_pct |-> 100,
      breakdown |-> [s \in {"critical", "high", "medium", "low"} |->
                       Count(NIST_AI_600_1_RISKS, s)]]

\* Every known deadline is a naive date from which an aware one is
\* subtracted: Python raises TypeError, and the answer is a 500.
KnownRegulations == {"eu-ai-act-art-50", "pld-transposition", "iso-42001-bs-en"}
regulatory_deadline(r) == IF r \in KnownRegulations THEN 500 ELSE 404

----------------------------------------------------------------------------
(* risk_scoring: scores of the ISO 23894 register.  The effectiveness of   *)
(* the controls is a number of tenths.                                     *)

ISO23894_TO_NIST_AI_RMF ==
  [context |-> "GOVERN", identification |-> "MAP", analysis |-> "MEASURE",
   evaluation |-> "MEASURE", treatment |-> "MANAGE"]
NIST_AI_RMF_TO_ISO23894 ==
  [f \in {"GOVERN", "MAP", "MEASURE", "MANAGE"} |->
     {s \in DOMAIN ISO23894_TO_NIST_AI_RMF : ISO23894_TO_NIST_AI_RMF[s] = f}]

\* Python rounds a half to the even neighbour.
RoundTenths(x) ==
  LET down == x \div 10
  IN IF x % 10 > 5 \/ (x % 10 = 5 /\ down % 2 = 1) THEN down + 1 ELSE down

inherent_risk_score(likelihood, impact) == likelihood * impact
residual_risk_score(likelihood, impact, tenths) ==
  LET r == RoundTenths(inherent_risk_score(likelihood, impact) * (10 - tenths))
  IN IF r < 1 THEN 1 ELSE r

risk_band(residual) ==
  IF residual >= 16 THEN "critical"
  ELSE IF residual >= 9 THEN "high"
  ELSE IF residual >= 4 THEN "medium" ELSE "low"

\* post_add_risk: the scores of the risk, computed from a register that is
\* made for the call and dropped with it.
add_risk(likelihood, impact, tenths) ==
  LET residual == residual_risk_score(likelihood, impact, tenths)
  IN [inherent |-> inherent_risk_score(likelihood, impact),
      residual |-> residual, band |-> risk_band(residual)]

\* get_risk_summary: of a register that was made for the call, and so empty.
risk_summary(org) ==
  [org_id |-> org, total_risks |-> 0,
   iso23894_to_nist_rmf |-> ISO23894_TO_NIST_AI_RMF,
   nist_rmf_to_iso23894 |-> NIST_AI_RMF_TO_ISO23894]

-----------------------------------------------------------------------------
(***************************************************************************)
(* The adversarial scenarios of the control plane, the static check behind *)
(* each, and the verdict of running one.  The source tree and the Python   *)
(* environment the checks probe are a set of facts: which files exist      *)
(* under the working directory, which words they hold, what can be         *)
(* imported.  The prose of scenarios and audit logs is left out.           *)
(***************************************************************************)

OASB_SCENARIOS ==
  [c \in {"OASB-PI-001", "OASB-TM-001"} |-> "high"] @@
  [c \in {"OASB-PI-002", "OASB-DE-001", "OASB-SC-001", "OASB-RF-001"} |-> "critical"]
AGENTDOJO_ATTACKS ==
  [c \in {"AD-PINJ-001"} |-> "critical"] @@
  [c \in {"AD-PINJ-002", "AD-PINJ-003"} |-> "high"]
ATLAS_TECHNIQUES ==
  [c \in {"AML.T0048", "AML.T0080", "AML.T0090"} |-> "critical"] @@
  [c \in {"AML.T0051", "AML.T0085", "AML.T0100"} |-> "high"]

catalog == OASB_SCENARIOS @@ AGENTDOJO_ATTACKS @@ ATLAS_TECHNIQUES

suite(code) ==
  IF code \in DOMAIN OASB_SCENARIOS THEN "OASB"
  ELSE IF code \in DOMAIN AGENTDOJO_ATTACKS THEN "AgentDojo" ELSE "ATLAS"

\* CordonEnforcerMapping.all: one entry per scenario.
CordonEnforcerMapping ==
  [code \in DOMAIN catalog |->
     [suite |-> suite(code), visibility |-> "fingerprints_only"]]

----------------------------------------------------------------------------
(* The checks: what each needs to find in the tree t.                      *)

MIN_DEFENSE_LAYERS_REQUIRED == 2
Layers(S) == Cardinality(S) >= MIN_DEFENSE_LAYERS_REQUIRED

check_kirchenbauer_watermark(t) ==
  {"watermark importable", "notary calls detect"} \subseteq t

\* The sentinel in both positions, and a nonce.
check_untrusted_tool_outputs(t) ==
  {"envelope.rs", "sentinel", "nonce", "second sentinel"} \subseteq t

check_org_id_filter(t) == {"deps importable", "middleware"} \subseteq t

\* A missing ml-dsa pin or deny.toml is only noted.
check_dependency_fingerprinting(t) == {"Cargo.lock", "blake3"} \subseteq t

check_seccomp_sandbox(t) == {"sandbox", "seccomp", "landlock"} \subseteq t

\* What the sources of the court contain is noted, never required.
check_9_agent_court(t) == "court" \in t

check_multi_agent_isolation(t) == {"notary importable", "inv15.rs"} \subseteq t

check_tool_chain_supply_chain(t) ==
  check_dependency_fingerprinting(t) /\ check_seccomp_sandbox(t)

check_input_injection_defense(t) ==
  Layers(({"sentinel"} \cap t) \cup {"firewall" : w \in {"owasp", "jailbreak"} \cap t})

check_agentguard_present(t) == "agentguard" \in t

check_model_versioning(t) ==
  {"notary importable", "ai_system_id", "canonical hash"} \subseteq t

check_prompt_envelope(t) == {"envelope.rs", "sentinel"} \subseteq t

check_agent_context_isolation(t) ==
  "context dir" \in t /\ Layers({"inv15.rs", "context.rs", "z3_inv15.rs"} \cap t)

check_context_poisoning_defense(t) ==
  Layers(({"context words"} \cap t) \cup {"firewall" : w \in {"jailbreak", "secret"} \cap t})

control_check(code, t) ==
  CASE code = "OASB-PI-001" -> check_kirchenbauer_watermark(t)
    [] code = "OASB-PI-002" -> check_untrusted_tool_outputs(t)
    [] code = "OASB-DE-001" -> check_org_id_filter(t)
    [] code = "OASB-SC-001" -> check_dependency_fingerprinting(t)
    [] code = "OASB-TM-001" -> check_seccomp_sandbox(t)
    [] code = "OASB-RF-001" -> check_9_agent_court(t)
    [] code = "AD-PINJ-001" -> check_input_injection_defense(t)
    [] code \in {"AD-PINJ-002", "AD-PINJ-003"} -> check_agentguard_present(t)
    [] code = "AML.T0048" -> check_model_versioning(t)
    [] code = "AML.T0051" -> check_prompt_envelope(t)
    [] code = "AML.T0080" -> check_agent_context_isolation(t)
    [] code = "AML.T0085" -> check_multi_agent_isolation(t)
    [] code = "AML.T0090" -> check_tool_chain_supply_chain(t)
    [] code = "AML.T0100" -> check_context_poisoning_defense(t)

----------------------------------------------------------------------------
(* Running a scenario.                                                     *)

\* How the live fixture of a scenario may end.  The OASB runtime may be
\* missing or hang (raises), exit non-zero, or end with or without the word
\* "passed".  The suite of an AgentDojo attack is compared with another
\* spelling and always raises.  An ATLAS technique always passes.
run_live_fixture(code) ==
  CASE suite(code) = "OASB" -> {"raises", "failed", "passed"}
    [] suite(code) = "AgentDojo" -> {"raises"}
    [] suite(code) = "ATLAS" -> {"passed"}

\* The static check is run, and its result only reaches the audit log.
run_scenario(code, t, live, fixture) ==
  [code |-> code, suite |-> suite(code), severity |-> catalog[code],
   static |-> control_check(code, t),
   verdict |-> IF ~live \/ fixture = "raises" THEN "CONTROL_REGISTERED"
               ELSE IF fixture = "passed" THEN "PASS" ELSE "FAIL"]

\* list_scenarios: the whole catalogue or the suite asked for.
list_scenarios(wanted) ==
  {c \in DOMAIN catalog : wanted = "all" \/ wanted = suite(c)}

-----------------------------------------------------------------------------
(***************************************************************************)
(* The HTTP surface of the control plane.  A request passes the Article 50 *)
(* middleware and the organisation resolver, is routed to its handler and  *)
(* answered; the answer is serialised after the handler has returned.      *)
(* Handlers run on the event loop or in worker threads, so several calls   *)
(* are between two of these steps at a time.  A path is the sequence of    *)
(* its segments: "/" is <<>>.                                              *)
(***************************************************************************)

CONSTANTS
  Calls,      \* requests in flight
  Reporters,  \* bound: the calls that may ask for reports that share no state
  Orgs,       \* organisations
  Secrets,    \* values of TL_JWT_SECRET
  Bundles,    \* ids of disclosure_records
  Certs       \* ids of the certificates in the notary's table

NoOrg == "none"      \* no organisation
NoSecret == "none"   \* the environment variable is not set
Unset == "unset"     \* the cache was not filled yet

VARIABLES
  env,        \* TL_JWT_SECRET in the process environment
  cache,      \* _jwt_secret_cache
  app,        \* how the application was made: see Applications
  rows,       \* disclosure_records: id -> org_id, for the ids present
  stamped,    \* the org_id key of the shared CROSS_JURISDICTION_PROFILES
  calls

gwVars == <<env, cache, app, rows, stamped, calls>>

----------------------------------------------------------------------------
(* Middleware.                                                             *)

PUBLIC_PATHS ==
  {<<"health">>, <<"healthz">>, <<"v1", "health">>, <<"v1", "healthz">>, <<>>,
   <<"v1", "welcome">>, <<"v1", "version">>, <<"v1", ".well-known", "scitt-keys">>,
   <<"verify">>, <<"v1", "verify">>}

\* The first segments a request may carry that begin with one of the four words.
PublicWords == {"docs", "docs-old", "redoc", "openapi.json", "static", "statics"}

\* "/verify/" and "/v1/verify/" end a segment, the words need not.
is_public_path(path) ==
  \/ path \in PUBLIC_PATHS
  \/ path # <<>> /\ Head(path) \in PublicWords
  \/ \E p \in {<<"verify">>, <<"v1", "verify">>} : IsStrictPrefix(p, path)

\* A bearer token: the secret it was signed with and its org_id claim.  An
\* ill-formed one, one of another algorithm or one without the claim is
\* signed by nobody.
BearerTokens == [secret : Secrets \cup {"nobody"}, org : Orgs]

decode_jwt_org_id(token, secret) ==
  IF token.secret = secret THEN token.org ELSE NoOrg

\* Mutant of resolve_org_id: the header is believed before the token.
resolve_org_id_header_first(req, secret) ==
  CASE req.xorg # NoOrg \/ req.bearer = {} -> req.xorg
    [] OTHER -> decode_jwt_org_id(CHOOSE t \in req.bearer : TRUE, secret)

\* A token that does not verify falls through to X-Org-Id; without a secret
\* a bearer header refuses the request whatever else it says.
resolve_org_id(req, secret) ==
  CASE req.bearer = {} -> req.xorg
    [] req.bearer # {} /\ secret = NoSecret -> NoOrg
    [] OTHER -> LET org == decode_jwt_org_id(CHOOSE t \in req.bearer : TRUE, secret)
                IN IF org # NoOrg THEN org ELSE req.xorg

get_jwt_secret == IF cache = Unset THEN env ELSE cache

\* Article 50: the header is appended to every response, whatever PUBLIC_PATHS say.
response_headers(req) ==
  {"x-disclosure-ai", "x-trustlayer-request-id", "x-response-time-ms"} \cup
  (IF req.method \in {"POST", "PUT"} /\ Len(req.path) > 1 /\ req.path[1] = "v1"
      /\ req.path[2] \in {"disclosure", "evidence"}
   THEN {"x-trustlayer-evidence"} ELSE {})

----------------------------------------------------------------------------
(* Answers.                                                                *)

Answer(status, body) == [status |-> status, body |-> body]
Empty == [kind |-> "none"]

\* Content negotiation: the ranges of the Accept header with their weights,
\* heaviest first and otherwise in the order they came.
parse_accept(accept) ==
  IF accept = <<>> THEN <<"*/*">>
  ELSE LET Before(i, j) == accept[i].q > accept[j].q
                           \/ (accept[i].q = accept[j].q /\ i < j)
           order == CHOOSE o \in [1..Len(accept) -> 1..Len(accept)] :
                      \A k \in 1..(Len(accept) - 1) : Before(o[k], o[k + 1])
       IN [k \in 1..Len(accept) |-> accept[order[k]].media]

select_content_type(accept) ==
  LET known == SelectSeq(parse_accept(accept),
        LAMBDA m : m \in {"application/scitt+json", "application/json",
                          "application/*", "*/*"})
  IN IF known = <<>> THEN "none"
     ELSE IF Head(known) = "application/scitt+json" THEN "application/scitt+json"
     ELSE "application/json"

\* A record as a bundle, and as the SCITT envelope around it.
record_to_bundle_dict(id) == [kind |-> "bundle", id |-> id, owner |-> rows[id]]
scitt_envelope(bundle) == [bundle EXCEPT !.kind = "scitt"]
scitt_receipt(id) == [kind |-> "receipt", id |-> id, owner |-> rows[id]]
stix_bundle(id) == [kind |-> "stix", id |-> id, owner |-> rows[id]]

\* The three evidence handlers.  The dependency returns the generator
\* function itself, so that session.execute raises unless it was overridden.
\* The row is looked up by id and organisation.
lookup(id, org, found) ==
  IF ~app.overridden THEN Answer(500, Empty)
  ELSE IF id \notin DOMAIN rows \/ rows[id] # org THEN Answer(404, Empty)
  ELSE Answer(200, found)

get_evidence_bundle(id, org, accept) ==
  LET type == select_content_type(accept)
  IN IF type = "none" THEN Answer(406, Empty)
     ELSE IF ~app.overridden \/ id \notin DOMAIN rows THEN lookup(id, org, Empty)
     ELSE lookup(id, org, IF type = "application/json"
                          THEN record_to_bundle_dict(id)
                          ELSE scitt_envelope(record_to_bundle_dict(id)))

get_stix_bundle(id, org) ==
  lookup(id, org, IF id \in DOMAIN rows THEN stix_bundle(id) ELSE Empty)
get_scitt_receipt(id, org) ==
  lookup(id, org, IF id \in DOMAIN rows THEN scitt_receipt(id) ELSE Empty)

\* POST /v1/disclosure/generate.  The four layers: disclosure is always
\* compliant, provenance needs a TSA that is not the mock, the watermark is
\* what the detector says, retention is always partial.
assess_4_layers(tsa, wm) ==
  LET layers == {"Compliant", IF tsa = "mock" THEN "Partial" ELSE "Compliant",
                 wm, "Partial"}
  IN IF "NonCompliant" \in layers THEN "NonCompliant"
     ELSE IF "Partial" \in layers THEN "Partial" ELSE "Compliant"

\* The row is the first of a new chain and is not stored.
generate_disclosure(tsa, wm) ==
  Answer(201, [kind |-> "disclosure", row |-> 1, prev |-> "genesis",
               rollup |-> assess_4_layers(tsa, wm)])

\* POST /v1/verify/provenance: any envelope that decodes to a byte or more.
verify_provenance(cose) ==
  Answer(200, [kind |-> "verified",
               overall |-> IF cose = "decodes" THEN "PASS" ELSE "FAIL"])

\* The public pages: the certificate of any organisation.
verify_page(id) ==
  IF ~app.started THEN Answer(503, Empty)
  ELSE IF id \notin Certs THEN Answer(404, Empty)
  ELSE Answer(200, [kind |-> "page", id |-> id, status |-> "unknown"])
verify_api(id) ==
  IF ~app.started THEN Answer(503, Empty)
  ELSE IF id \notin Certs THEN Answer(404, Empty)
  ELSE Answer(200, [kind |-> "certificate", id |-> id, status |-> "valid"])

\* Catalyst: the receipt of a step names the step before it inside its
\* payload, and a hash stands for the payload it is of; the manifest asks
\* each receipt, at its top level, for the hash of the one before.
NoHash == <<>>
agent_step_receipt(step, prev) ==
  [step_id |-> step, payload |-> [step_id |-> step, prev_step_hash |-> prev],
   payload_hash |-> <<step, prev>>]
PrevStepHash(receipt) ==
  IF "prev_step_hash" \in DOMAIN receipt THEN receipt.prev_step_hash ELSE NoHash
orchestration_manifest(receipts) ==
  IF \A i \in DOMAIN receipts : PrevStepHash(receipts[i]) =
       (IF i = 1 THEN NoHash ELSE receipts[i - 1].payload_hash)
  THEN Answer(201, [kind |-> "manifest", steps |-> [i \in DOMAIN receipts |-> receipts[i].step_id]])
  ELSE Answer(422, Empty)

health == Answer(200, [kind |-> "health"])
Report(body) == Answer(200, [kind |-> "report", report |-> body])

----------------------------------------------------------------------------
(* Routing.  Whether a handler depends on get_org_id, and its answer.      *)

JURISDICTIONS == DOMAIN CROSS_JURISDICTION_PROFILES

\* The routes that do not ask for the organisation; of one segment there is only
\* /health, and a path without a route asks for nothing.
Orgless(path) ==
  \/ Len(path) = 1
  \/ path = <<"v1", "verify", "provenance">>
  \/ Len(path) = 2 /\ path[1] = "verify"
  \/ Len(path) = 3 /\ path[1] = "v1" /\ path[2] \in {"verify", "catalyst"}

\* The PLD router repeats the /v1 of its prefix, so that /v1/pld is 404.
Handle(req, org, fixture, live) ==
  LET p == req.path
  IN CASE p = <<"health">> -> health
       [] p = <<"v1", "disclosure", "generate">> -> generate_disclosure(req.arg.tsa, req.arg.wm)
       [] p = <<"v1", "verify", "provenance">> -> verify_provenance(req.arg)
       [] Len(p) = 2 /\ p[1] = "verify" -> verify_page(p[2])
       [] Len(p) = 3 /\ p[2] = "verify" /\ p[3] # "provenance" -> verify_api(p[3])
       [] Len(p) = 3 /\ p[2] = "evidence" -> get_evidence_bundle(p[3], org, req.arg)
       [] Len(p) = 4 /\ p[2] = "evidence" /\ p[4] = "stix" -> get_stix_bundle(p[3], org)
       [] Len(p) = 4 /\ p[2] = "evidence" /\ p[4] = "scitt-receipt" -> get_scitt_receipt(p[3], org)
       [] p = <<"v1", "catalyst", "receipt">> ->
            Answer(201, [kind |-> "receipt", receipt |-> agent_step_receipt(req.arg[1], req.arg[2])])
       [] p = <<"v1", "catalyst", "manifest">> -> orchestration_manifest(req.arg)
       [] p = <<"v1", "v1", "pld", "disclosure">> -> Report(disclosure_response("order", req.arg))
       [] p = <<"v1", "v1", "pld", "rebuttal">> -> Report(rebuttal_pack("product", req.arg))
       [] p = <<"v1", "v1", "pld", "deadline">> -> Answer(regulatory_deadline(req.arg), Empty)
       [] p = <<"v1", "v1", "iso42001", "soa">> -> Report(iso42001_soa)
       [] p = <<"v1", "v1", "iso42001", "controls">> -> Report(iso42001_controls)
       [] p = <<"v1", "v1", "nist", "risks">> -> Report(nist_risks)
       [] p = <<"v1", "v1", "nist", "profile">> -> Report(nist_profile)
       [] p = <<"v1", "dora", "evidence-pack">> -> Report(assess_dora_evidence_pack(org))
       [] p = <<"v1", "jurisdictions">> -> Answer(200, [kind |-> "profiles"])
       [] Len(p) = 3 /\ p[2] = "jurisdictions" ->
            IF p[3] \in JURISDICTIONS
            THEN Report([org_id |-> org, profile |-> CROSS_JURISDICTION_PROFILES[p[3]]])
            ELSE Answer(404, Empty)
       [] p = <<"v1", "adversarial", "scenarios">> -> Report([scenarios |-> list_scenarios(req.arg)])
       [] p = <<"v1", "adversarial", "mapping">> -> Report([mappings |-> CordonEnforcerMapping])
       [] p = <<"v1", "adversarial", "run">> ->
            IF req.arg \in DOMAIN catalog
            THEN Answer(200, [kind |-> "run"] @@ run_scenario(req.arg, app.tree, live, fixture))
            ELSE Answer(404, Empty)
       [] p = <<"v1", "risk-scoring", "summary">> -> Report(risk_summary(org))
       [] p = <<"v1", "risk-scoring", "risks">> -> Report(add_risk(req.arg[1], req.arg[2], req.arg[3]))
       [] OTHER -> Answer(404, Empty)

----------------------------------------------------------------------------
(* The life of a call.                                                     *)

Idle == [pc |-> "idle"]

\* The two middlewares and the routing, without an await in between.  The
\* secret is read from the environment once.
Receive(c, req) ==
  /\ calls[c].pc = "idle"
  /\ IF is_public_path(req.path)
     THEN /\ calls' = [calls EXCEPT ![c] = [pc |-> "routed", req |-> req, org |-> NoOrg]]
          /\ UNCHANGED cache
     ELSE LET org == resolve_org_id(req, get_jwt_secret)
          IN /\ cache' = get_jwt_secret
             /\ calls' = [calls EXCEPT ![c] =
                  IF org = NoOrg
                  THEN [pc |-> "done", req |-> req, org |-> NoOrg, status |-> 401,
                        body |-> Empty, headers |-> response_headers(req)]
                  ELSE [pc |-> "routed", req |-> req, org |-> org]]
  /\ UNCHANGED <<env, stamped, app, rows>>

\* get_org_id refuses a call whose scope holds no organisation.
Refused(req, org) == ~Orgless(req.path) /\ org = NoOrg

HoldsShared(d) == calls[d].pc = "returned" /\ calls[d].body.kind = "profiles"

\* The handler.  list_jurisdictions writes the caller's organisation into
\* the dictionary that all calls share, and returns that dictionary.
\* overwritten is a history variable: another call wrote while this one held it.
Run(c) ==
  /\ calls[c].pc = "routed"
  /\ LET req == calls[c].req  org == calls[c].org
         running == req.path = <<"v1", "adversarial", "run">> /\ req.arg \in DOMAIN catalog
     IN \E live \in IF running THEN BOOLEAN ELSE {FALSE},
           fixture \in IF running THEN run_live_fixture(req.arg) ELSE {"raises"} :
          LET a == IF Refused(req, org) THEN Answer(401, Empty)
                   ELSE Handle(req, org, fixture, live)
          IN /\ stamped' = IF a.body.kind = "profiles" THEN org ELSE stamped
             /\ calls' = [d \in Calls |->
                  IF d = c THEN [pc |-> "returned", req |-> req, org |-> org, status |-> a.status,
                                 body |-> a.body, overwritten |-> FALSE]
                  ELSE IF HoldsShared(d) /\ a.body.kind = "profiles"
                       THEN [calls[d] EXCEPT !.overwritten = TRUE] ELSE calls[d]]
  /\ UNCHANGED <<env, cache, app, rows>>

\* The answer is serialised: the shared dictionary as it is now.
Send(c) ==
  /\ calls[c].pc = "returned"
  /\ calls' = [calls EXCEPT ![c] =
       [pc |-> "done", req |-> @.req, org |-> @.org, status |-> @.status,
        body |-> IF @.body.kind = "profiles"
                 THEN [kind |-> "report", report |-> [org_id |-> stamped]]
                 ELSE @.body,
        overwritten |-> @.overwritten, headers |-> response_headers(@.req)]]
  /\ UNCHANGED <<env, cache, stamped, app, rows>>

\* Written by another process: no handler of this API stores a record.
InsertRecord(id, org) ==
  /\ id \notin DOMAIN rows
  /\ rows' = rows @@ (id :> org)
  /\ UNCHANGED <<env, cache, app, stamped, calls>>

\* The operator sets another secret; the cache keeps the one it has.
RotateSecret(s) ==
  /\ env' = s
  /\ UNCHANGED <<cache, stamped, calls, app, rows>>

----------------------------------------------------------------------------
(* The requests: every kind of credential on the evidence routes, one      *)
(* organisation's header on the others.                                    *)

Request(method, path, arg, bearer, xorg) ==
  [method |-> method, path |-> path, arg |-> arg, bearer |-> bearer, xorg |-> xorg]

AnOrg == CHOOSE o \in Orgs : TRUE
StepReceipt(n, prev) == agent_step_receipt(n, prev)
Lifted(n, prev) == StepReceipt(n, prev) @@ [prev_step_hash |-> prev]
Ranges == {<<>>, <<[media |-> "text/html", q |-> 10]>>,
           <<[media |-> "application/json", q |-> 5],
             [media |-> "application/scitt+json", q |-> 9]>>}

EvidenceRequests ==
  {Request("GET", p, <<>>, t, x) :
     p \in {<<"v1", "evidence", b>> : b \in Bundles} \cup
           {<<"v1", "evidence", b, "stix">> : b \in Bundles},
     t \in {{}} \cup {{k} : k \in BearerTokens}, x \in Orgs \cup {NoOrg}}
  \cup {Request("GET", <<"v1", "evidence", b>>, r, {}, AnOrg) : b \in Bundles, r \in Ranges}
  \cup {Request("GET", <<"v1", "evidence", b, "scitt-receipt">>, <<>>, {}, x) :
          b \in Bundles, x \in Orgs}

Public(method, path, arg) == Request(method, path, arg, {}, NoOrg)
Scoped(method, path, arg) == Request(method, path, arg, {}, AnOrg)

\* The one report that is kept in memory all calls share.
JurisdictionRequests ==
  {Request("GET", <<"v1", "jurisdictions">>, "", {}, o) : o \in Orgs}

ReportRequests ==
  {Public("GET", <<"health">>, "")}
  \cup {Public("POST", <<"v1", "verify", "provenance">>, a) : a \in {"decodes", "empty"}}
  \cup {Public("GET", <<"verify", c>>, "") : c \in Certs \cup {"missing"}}
  \cup {Public("GET", <<"v1", "verify", c>>, "") : c \in Certs \cup {"missing"}}
  \cup {Scoped("POST", <<"v1", "disclosure", "generate">>, a) :
          a \in {[tsa |-> "mock", wm |-> "NotApplicable"], [tsa |-> "free_tsa", wm |-> "Compliant"],
                 [tsa |-> "free_tsa", wm |-> "Partial"]}}
  \cup {Scoped("POST", <<"v1", "catalyst", "receipt">>, <<1, NoHash>>)}
  \cup {Scoped("POST", <<"v1", "catalyst", "manifest">>, a) :
          a \in {<<StepReceipt(1, NoHash), StepReceipt(2, <<1, NoHash>>)>>,
                 <<StepReceipt(1, NoHash), Lifted(2, <<1, NoHash>>)>>}}
  \cup {Scoped("POST", <<"v1", "v1", "pld", "disclosure">>, {"audit-trails"}),
        Scoped("POST", <<"v1", "v1", "pld", "rebuttal">>, Bundles),
        Scoped("GET", <<"v1", "pld", "rebuttal">>, "")}
  \cup {Public("GET", p, "") : p \in {<<"verify">>, <<"statics">>}}
  \cup {Scoped("GET", <<"v1", "v1", "pld", "deadline">>, r) : r \in {"pld-transposition", "other"}}
  \cup {Scoped("GET", <<"v1", "v1", f, r>>, "") : f \in {"iso42001"}, r \in {"soa", "controls"}}
  \cup {Scoped("GET", <<"v1", "v1", "nist", r>>, "") : r \in {"risks", "profile"}}
  \cup {Scoped("GET", <<"v1", "dora", "evidence-pack">>, "")}
  \cup {Scoped("GET", <<"v1", "jurisdictions", j>>, "") : j \in {"UK_AI_BILL", "MARS"}}
  \cup {Scoped("GET", <<"v1", "adversarial", "scenarios">>, a) : a \in {"all", "ATLAS"}}
  \cup {Scoped("GET", <<"v1", "adversarial", "mapping">>, "")}
  \cup {Scoped("POST", <<"v1", "adversarial", "run">>, c) : c \in DOMAIN catalog \cup {"unknown"}}
  \cup {Scoped("GET", <<"v1", "risk-scoring", "summary">>, ""),
        Scoped("POST", <<"v1", "risk-scoring", "risks">>, <<5, 2, 1>>)}

\* The facts the adversarial checks find in a checkout of the repository.
Checkout ==
  {"watermark importable", "notary calls detect", "envelope.rs", "sentinel",
   "second sentinel", "nonce", "deps importable", "middleware", "Cargo.lock",
   "blake3", "sandbox", "seccomp", "landlock", "court", "notary importable",
   "inv15.rs", "context.rs", "context dir", "context words", "owasp",
   "jailbreak", "secret", "agentguard", "ai_system_id", "canonical hash"}
\* What is left of them where the crates are not under the working directory.
ServiceOnly == Checkout \cap {"watermark importable", "notary calls detect",
  "deps importable", "middleware", "notary importable", "ai_system_id", "canonical hash"}

\* The deployed application; the one the tests make, which replaces the
\* session dependency; and one whose lifespan was not run.
Applications ==
  {[overridden |-> FALSE, started |-> TRUE, tree |-> ServiceOnly],
   [overridden |-> TRUE, started |-> TRUE, tree |-> Checkout],
   [overridden |-> FALSE, started |-> FALSE, tree |-> Checkout]}

gwInit ==
  /\ env \in Secrets \cup {NoSecret} /\ cache = Unset
  /\ app \in Applications
  /\ rows = <<>> /\ stamped = NoOrg
  /\ calls = [c \in Calls |-> Idle]

gwNext ==
  \/ \E c \in Calls :
       \/ \E req \in EvidenceRequests \cup JurisdictionRequests
                       \cup (IF c \in Reporters THEN ReportRequests ELSE {}) : Receive(c, req)
       \/ Run(c) \/ Send(c)
  \/ \E id \in Bundles, o \in Orgs : InsertRecord(id, o)
  \/ \E s \in Secrets \cup {NoSecret} : RotateSecret(s)

gwSpec == gwInit /\ [][gwNext]_gwVars

----------------------------------------------------------------------------
(* Properties.                                                             *)

Done == {c \in Calls : calls[c].pc = "done"}

\* Tenant isolation: an answer that carries a disclosure record carries one
\* of the organisation the caller has shown: that of a token signed with the
\* secret the process holds or, only for want of such a token, of X-Org-Id;
\* while records are inserted and the secret is rotated under the call.
RowsGoToTheirOrg ==
  \A c \in Done :
    calls[c].body.kind \in {"bundle", "scitt", "receipt", "stix"} /\ "owner" \in DOMAIN calls[c].body =>
      LET req == calls[c].req
          signed == {t \in req.bearer : t.secret = cache}
      IN calls[c].body.owner \in
           IF signed # {} THEN {t.org : t \in signed} ELSE {req.xorg}

\* The table of public paths and the table of routes agree: no handler that
\* asks for the organisation is reached by a call without one, so that the
\* refusal in get_org_id ("middleware misconfiguration?") never happens.
NoOrglessHandler ==
  \A c \in Calls : calls[c].pc = "routed" => ~Refused(calls[c].req, calls[c].org)

\* A report that names an organisation names the caller's: always where it was
\* made for the call, and for the dictionary that all calls share unless another
\* call wrote its own name into it before this answer was serialised.
ReportsNameTheCaller ==
  \A c \in Done :
    calls[c].body.kind = "report" /\ "org_id" \in DOMAIN calls[c].body.report
      /\ ~calls[c].overwritten
    => calls[c].body.report.org_id = calls[c].org

\* What the gateway answers may be relied on: rows of the caller's own
\* organisation, and reports that name it.
GatewayAnswersAreRight == RowsGoToTheirOrg /\ NoOrglessHandler /\ ReportsNameTheCaller
=============================================================================
