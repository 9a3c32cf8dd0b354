---------------------------- MODULE MCControlPlane ----------------------------
(***************************************************************************)
(* The control plane, the MCP server and the provenance crates for TLC.    *)
(* The seven parts share no state: a behaviour exercises one of them and     *)
(* leaves the others where they start.                                     *)
(***************************************************************************)
EXTENDS Notary, Watermark, Gateway, Transparency, McpServer

CONSTANT Parts      \* the parts to explore

VARIABLE part       \* the part this behaviour exercises

vars == <<part, noVars, wmVars, gwVars, trVars, scVars, mcpVars, euVars>>

\* A part that is left alone starts in one of its initial states.
Init ==
  /\ part \in Parts
  /\ noInit /\ (part # "notary" => signer = get_signer({}))
  /\ wmInit /\ (part # "watermark" => text.key = 0)
  /\ gwInit /\ (part # "gateway" => env = NoSecret /\ app.overridden)
  /\ trInit /\ (part # "log" => ~separated)
  /\ scInit
  /\ mcpInit
  /\ euInit /\ (part # "qes" => euList = {})

Next ==
  \/ part = "notary" /\ noNext /\ UNCHANGED <<part, wmVars, gwVars, trVars, scVars, mcpVars, euVars>>
  \/ part = "watermark" /\ wmNext /\ UNCHANGED <<part, noVars, gwVars, trVars, scVars, mcpVars, euVars>>
  \/ part = "gateway" /\ gwNext /\ UNCHANGED <<part, noVars, wmVars, trVars, scVars, mcpVars, euVars>>
  \/ part = "log" /\ trNext /\ UNCHANGED <<part, noVars, wmVars, gwVars, scVars, mcpVars, euVars>>
  \/ part = "receipts" /\ scNext /\ UNCHANGED <<part, noVars, wmVars, gwVars, trVars, mcpVars, euVars>>
  \/ part = "mcp" /\ mcpNext /\ UNCHANGED <<part, noVars, wmVars, gwVars, trVars, scVars, euVars>>
  \/ part = "qes" /\ euNext
     /\ UNCHANGED <<part, noVars, wmVars, gwVars, trVars, scVars, mcpVars>>

Spec == Init /\ [][Next]_vars
-----------------------------------------------------------------------------
\* What the two servers answer may be relied on: the gateway's rows and reports,
\* and each line of the MCP server as the answer to its own request.
AnswersAreRight == GatewayAnswersAreRight /\ AnsweredInOrder /\ ListedToolsAnswer

\* What the control plane calls verified was vouched for: an inclusion by the root
\* of the tree, a certificate by the official trust list (rfc9162_verifier.py,
\* qes_adapter.py).
VerifiedIsVouchedFor == LogProofsAreTrusted /\ TrustedIsListed
-----------------------------------------------------------------------------
\* A built-in certificate, and two others with and without the statement.
MCStaticCerts == {[id |-> "actalis", qc |-> "esi4"]}
MCTsaCerts == MCStaticCerts \cup {[id |-> "new", qc |-> "scanned"], [id |-> "plain", qc |-> "none"]}
=============================================================================
