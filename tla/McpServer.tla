----------------------------- MODULE McpServer ------------------------------
(***************************************************************************)
(* The MCP server (crates/tl-mcp-server): one process that reads JSON-RPC  *)
(* requests from its standard input, one per line, and writes one line for *)
(* each before it reads the next.  The tools are listed in one table       *)
(* (tools/list) and dispatched from another (tools/call).  A handler       *)
(* answers, refuses, or panics: the panic ends the process, and a client   *)
(* that has pipelined further requests is never answered.                  *)
(*                                                                         *)
(* What an answer says is left to the name of the tool that gave it; the   *)
(* arguments are the fields a request carries, each with a value the       *)
(* handler accepts ("plain") or does not ("odd").                          *)
(***************************************************************************)
EXTENDS Integers, Sequences, SequencesExt, TLC

CONSTANT
    MaxLines    \* lines a client writes

VARIABLES
    mcpSent,    \* the lines written so far (history)
    mcpIn,      \* those the server has not read
    mcpOut,     \* the responses
    mcpServer,  \* "up", "ended" or "panicked"
    mcpPipes    \* [in, out]: which ends the client holds open

mcpVars == <<mcpSent, mcpIn, mcpOut, mcpServer, mcpPipes>>

mcpInit ==
    /\ mcpSent = <<>>
    /\ mcpIn = <<>>
    /\ mcpOut = <<>>
    /\ mcpServer = "up"
    /\ mcpPipes = [in |-> TRUE, out |-> TRUE]

NoId == 0       \* a notification, and the id of a line that cannot be parsed
ERR_PARSE == -32700
ERR_METHOD_NOT_FOUND == -32601
ERR_INVALID_PARAMS == -32602
-----------------------------------------------------------------------------
\* The tools of each section, with the fields their input requires; a field
\* with a default is not required.
V1Tools ==
    [tl_generate_disclosure |-> {"ai_system_id", "content", "content_hash",
         "deployer_name", "deployer_country", "deployer_sector"},
     tl_verify_provenance |-> {"cose_sign1_b64"},
     tl_sign_artifact |-> {"content_hash"},
     tl_create_evidence_bundle |-> {"disclosure_ids"},
     tl_evaluate_policy |-> {"disclosure_id", "regulation"},
     tl_inspect_receipt |-> {"receipt_id"},
     tl_check_compliance |-> {"bundle_id"}]

BundleTools ==
    "bundle.get" :> {"bundle_id"} @@ "bundle.list" :> {"org_id"} @@
    "bundle.search" :> {"query"} @@ "bundle.metadata" :> {"bundle_id"} @@
    "bundle.export" :> {"bundle_id", "format"}

ScittTools ==
    "scitt.verify" :> {"receipt"} @@ "scitt.get" :> {"entry_id"} @@
    "scitt.submit" :> {"statement"} @@ "scitt.status" :> {"entry_id"}

WatermarkTools ==
    "watermark.detect" :> {"text"} @@ "watermark.generate" :> {"text", "key"} @@
    "watermark.confidence" :> {"text"}

TrustlistTools ==
    "trustlist.check" :> {"public_key_fp"} @@
    "trustlist.list_providers" :> {"country"} @@
    "trustlist.policy_oid" :> {"cert_der"}

KeyTools ==
    "key.status" :> {"tenant"} @@ "key.rotate" :> {"tenant", "reason"} @@
    "key.history" :> {"tenant", "since"}

SoaTools ==
    "soa.generate" :> {} @@ "soa.controls" :> {} @@ "soa.compliance_status" :> {}

NistTools ==
    "nist.risks" :> {} @@ "nist.mitigations" :> {"risk_id"} @@
    "nist.profile_compliance" :> {}

PldTools ==
    "pld.disclosure_response" :> {"order_id"} @@
    "pld.rebuttal_pack" :> {"product_id"} @@ "pld.deadline" :> {"regulation"}

PartnerTools == "partner.apply" :> {"org_info"} @@ "partner.status" :> {"org_id"}

\* The tools a client is told of, with the schema of their input; a handler
\* parses the type its schema is made from.
build_tools_list ==
    V1Tools @@ BundleTools @@ ScittTools @@ WatermarkTools @@ TrustlistTools @@
    KeyTools @@ SoaTools @@ NistTools @@ PldTools @@ PartnerTools
Required == build_tools_list

\* The tools that can be called: the seven of main.rs, and register_dispatch's.
build_tool_dispatch ==
    DOMAIN V1Tools \union
    {"bundle.get", "bundle.list", "bundle.search", "bundle.metadata", "bundle.export",
     "scitt.verify", "scitt.get", "scitt.submit", "scitt.status",
     "watermark.detect", "watermark.generate", "watermark.confidence",
     "trustlist.check", "trustlist.list_providers", "trustlist.policy_oid",
     "key.status", "key.rotate", "key.history",
     "soa.generate", "soa.controls", "soa.compliance_status",
     "nist.risks", "nist.mitigations", "nist.profile_compliance",
     "pld.disclosure_response", "pld.rebuttal_pack", "pld.deadline",
     "partner.apply", "partner.status"}

\* Tools that ask the global backends, which main never initialises: get()
\* panics.
backends_get == DOMAIN BundleTools \union {"scitt.verify", "watermark.detect"}

\* A handler: its input is parsed first.  The key of watermark.generate is cut
\* at its 16th byte, which panics inside a character; key.rotate and
\* pld.deadline refuse a reason or a regulation they do not know.
handler(tool, args) ==
    IF ~(Required[tool] \subseteq DOMAIN args) THEN "refused"
    ELSE CASE tool \in backends_get -> "panic"
      [] tool = "watermark.generate" /\ args["key"] = "odd" -> "panic"
      [] tool = "key.rotate" /\ args["reason"] = "odd" -> "refused"
      [] tool = "pld.deadline" /\ args["regulation"] = "odd" -> "refused"
      [] OTHER -> "answered"
-----------------------------------------------------------------------------
Result(id, isError, by) == [id |-> id, code |-> 0, isError |-> isError, by |-> by]
Error(id, code) == [id |-> id, code |-> code, isError |-> FALSE, by |-> "none"]

\* handle_request.  A call may lack its params, or the name in them; missing
\* arguments are an empty object.
handle_request(req) ==
    CASE req.method \in {"initialize", "tools/list", "ping"} ->
           Result(req.id, FALSE, req.method)
      [] req.method = "tools/call" /\ req.tool \in {"no params", "no name"} ->
           Error(req.id, ERR_INVALID_PARAMS)
      [] req.method = "tools/call" /\ req.tool \notin build_tool_dispatch \cup {"no params", "no name"} ->
           Error(req.id, ERR_METHOD_NOT_FOUND)
      [] req.method = "tools/call" /\ req.tool \in build_tool_dispatch ->
           Result(req.id, handler(req.tool, req.args) = "refused", req.tool)
      [] OTHER -> Error(req.id, ERR_METHOD_NOT_FOUND)

Panics(line) ==
    /\ line.text = "request" /\ line.method = "tools/call"
    /\ line.tool \in build_tool_dispatch
    /\ handler(line.tool, line.args) = "panic"

\* The response to a line that does not panic.
Respond(line) ==
    IF line.text = "request" THEN handle_request(line) ELSE Error(NoId, ERR_PARSE)
-----------------------------------------------------------------------------
\* The lines a client may write: blank ones, ones that are not JSON or not
\* UTF-8, requests with an id of their own, and the notification that a
\* client's set-up ends with, which has none.
Arguments(tool) ==
    LET fields == IF tool \in DOMAIN Required THEN Required[tool] ELSE {} IN
    {[f \in fields |-> "plain"], <<>>} \union
    IF tool \in {"watermark.generate", "key.rotate", "pld.deadline"}
    THEN {[f \in fields |-> "odd"]} ELSE {}
Notification == "notifications/initialized"
Line(text, method, tool, args) ==
    [text |-> text, id |-> NoId, method |-> method, tool |-> tool, args |-> args]
Lines ==
    {Line(text, "none", "none", <<>>) : text \in {"blank", "not json", "not utf8"}}
    \union {Line("request", m, "none", <<>>) :
              m \in {"initialize", "tools/list", "ping", "resources/list", Notification}}
    \union UNION {{Line("request", "tools/call", tool, a) : a \in Arguments(tool)} :
              tool \in DOMAIN Required \union {"no params", "no name", "unlisted"}}

ClientWrites(line) ==
    /\ mcpPipes.in /\ Len(mcpSent) < MaxLines
    /\ LET id == IF line.method = Notification THEN NoId ELSE Len(mcpSent) + 1
           sent == [line EXCEPT !.id = id] IN
       /\ mcpSent' = Append(mcpSent, sent)
       /\ mcpIn' = Append(mcpIn, sent)
    /\ UNCHANGED <<mcpOut, mcpServer, mcpPipes>>

\* The client closes its end of a pipe.
ClientCloses(end) ==
    /\ mcpPipes[end]
    /\ mcpPipes' = [mcpPipes EXCEPT ![end] = FALSE]
    /\ UNCHANGED <<mcpSent, mcpIn, mcpOut, mcpServer>>

\* One turn of run_stdio_server's loop: a line that is not UTF-8 ends it with
\* the error of read_line, a blank one is passed over, a panic unwinds it, and
\* a response that cannot be written ends it.
ServeLine ==
    /\ mcpServer = "up" /\ mcpIn # <<>>
    /\ mcpIn' = Tail(mcpIn)
    /\ LET line == Head(mcpIn) IN
       /\ mcpServer' = IF line.text = "not utf8" THEN "ended"
                       ELSE IF line.text = "blank" THEN "up"
                       ELSE IF Panics(line) THEN "panicked"
                       ELSE IF mcpPipes.out THEN "up" ELSE "ended"
       /\ mcpOut' = IF line.text # "blank" /\ mcpServer' = "up"
                    THEN Append(mcpOut, Respond(line)) ELSE mcpOut
    /\ UNCHANGED <<mcpSent, mcpPipes>>

\* read_line returns nothing: the input is at its end.
ServeEof ==
    /\ mcpServer = "up" /\ mcpIn = <<>> /\ ~mcpPipes.in
    /\ mcpServer' = "ended"
    /\ UNCHANGED <<mcpSent, mcpIn, mcpOut, mcpPipes>>

mcpNext ==
    \/ \E line \in Lines : ClientWrites(line)
    \/ \E end \in {"in", "out"} : ClientCloses(end)
    \/ ServeLine
    \/ ServeEof
-----------------------------------------------------------------------------
\* The lines the server has taken, blank ones aside.
Taken ==
    SelectSeq(SubSeq(mcpSent, 1, Len(mcpSent) - Len(mcpIn)), LAMBDA l : l.text # "blank")

\* run_stdio_server answers the lines it takes one for one and in their order,
\* under their own ids; only the line it stopped at stays without an answer.
AnsweredInOrder ==
    /\ Len(mcpOut) \in {Len(Taken), Len(Taken) - 1}
    /\ mcpServer = "up" => Len(mcpOut) = Len(Taken)
    /\ \A i \in DOMAIN mcpOut :
         mcpOut[i].id = IF Taken[i].text = "request" THEN Taken[i].id ELSE NoId

\* tools/list and tools/call agree: a tool that is listed, called with the
\* fields of its schema and values it knows, is neither unknown nor refused;
\* and no tool is called with a field missing.  What ends the server instead is a
\* tool of the backends that are never initialised, or a key cut inside a character.
ListedToolsAnswer ==
    /\ \A i \in DOMAIN mcpOut :
         LET l == Taken[i] IN
         l.method = "tools/call" /\ l.tool \in DOMAIN build_tools_list =>
             LET whole == build_tools_list[l.tool] \subseteq DOMAIN l.args IN
             /\ mcpOut[i].code = 0 /\ mcpOut[i].by = l.tool
             /\ ~whole => mcpOut[i].isError
             /\ whole /\ (\A f \in DOMAIN l.args : l.args[f] = "plain")
                  => ~mcpOut[i].isError
    /\ mcpServer = "panicked" =>
        LET l == Last(Taken) IN l.tool \in backends_get \cup {"watermark.generate"}
=============================================================================
