------------------------------- MODULE MCGuard -------------------------------
(***************************************************************************)
(* The agent guard for TLC: its command gate and matchers, its hooks, the  *)
(* firewall's fetches and the sandbox.  The five parts share no state: a   *)
(* behaviour exercises one of them and leaves the others where they start. *)
(***************************************************************************)
EXTENDS HookGuard, Sandbox

CONSTANT Parts      \* the parts to explore

VARIABLE part       \* the part this behaviour exercises

vars == <<part, cgVars, mtVars, hgVars, fwVars, sbVars>>

Init ==
    /\ part \in Parts
    /\ cgInit /\ mtInit /\ hgInit /\ fwInit /\ sbInit
    /\ part # "gate" => cgConfig = CHOOSE c \in Configs : TRUE
    /\ part # "hooks" => /\ hgConfig = CHOOSE c \in ConfigFiles : TRUE
                         /\ hgPolicy = CHOOSE p \in Policies : TRUE
    /\ part # "fetch" => fwDns = {}
    /\ part # "sandbox" => sbReq = CHOOSE r \in Requests : TRUE

Next ==
    \/ part = "gate" /\ cgNext /\ UNCHANGED <<part, mtVars, hgVars, fwVars, sbVars>>
    \/ part = "matchers" /\ mtNext /\ UNCHANGED <<part, cgVars, hgVars, fwVars, sbVars>>
    \/ part = "hooks" /\ hgNext /\ UNCHANGED <<part, cgVars, mtVars, fwVars, sbVars>>
    \/ part = "fetch" /\ fwNext /\ UNCHANGED <<part, cgVars, mtVars, hgVars, sbVars>>
    \/ part = "sandbox" /\ sbNext /\ UNCHANGED <<part, cgVars, mtVars, hgVars, fwVars>>

Spec == Init /\ [][Next]_vars /\ sbFairness
-----------------------------------------------------------------------------
\* The gate sees all of a command and forgets nothing it has seen, and the
\* patterns of its lists match what they stand for.
GateIsSound == SplitLosesNothing /\ MoreIsNotLess /\ MatchersAreSound

\* What a hook answers has its grounds on disk: the sentinel it recognised,
\* the record it wrote.
HookAnswersAreBacked == EchoIsFlagged /\ AnsweredIsAudited
-----------------------------------------------------------------------------
\* Two configurations of the gate: everything on, and the bare rules.
GateConfig(normalize, packs) ==
    [disable |-> FALSE, normalize |-> normalize, packs |-> packs, allow |-> {<<"rm">>},
     custom |-> {[pattern |-> "own", severity |-> 7]}, thresholds |-> DefaultThresholds,
     level |-> "standard"]
MCConfigs == {GateConfig(TRUE, {"db"}), GateConfig(FALSE, {})}
MCTokens == {"echo", "rm", "rm,", "X=", "$X", "b64", "enc", "enc2", ";", "|", "dq", "$(", "(", "<(", ")",
             "bt", "$'rm'", "IFS=,", "cont", "curl", "sh", "own"}

\* Hook events of one session.
Clean == [res |-> "ok", text |-> [ids |-> {}, ssn |-> {}, runs |-> {}, weapon |-> {}]]
Tainted == [Clean EXCEPT !.text.ids = {<<"ASI01", 1>>}]
HookInput(event, tool, arg, fetched, echo) ==
    [event |-> event, session |-> "s", tool |-> tool, arg |-> arg, fetched |-> fetched, echo |-> echo]
MCInputs ==
    {HookInput("SessionStart", "", <<"ls">>, Clean, FALSE),
     HookInput("PostToolUse", "Bash", <<"ls">>, Clean, TRUE),
     HookInput("PreToolUse", "Bash", <<"rm">>, Clean, FALSE),
     HookInput("PreToolUse", "mcp", <<"drop">>, Clean, FALSE),
     HookInput("UserPromptSubmit", "", <<"ls">>, Tainted, FALSE)}
Audited ==
    [DefaultConfig EXCEPT !.audit = TRUE, !.canary = TRUE, !.policy = TRUE,
        !.tool_rules = {[tool |-> "mcp", pattern |-> "drop", severity |-> 8]}]
MCConfigFiles == {Audited, [DefaultConfig EXCEPT !.broken = TRUE]}
MCPolicies ==
    {[broken |-> TRUE, version |-> 1, deny |-> FALSE, listed |-> {}, rules |-> {}, cap |-> -1],
     [broken |-> FALSE, version |-> 1, deny |-> TRUE, listed |-> {"Bash"},
      rules |-> {[tool |-> "Bash", pattern |-> "rm", severity |-> 6]}, cap |-> 0]}

\* A public address, a private one, the private one mapped into IPv6, and a
\* unique-local one.
MCAddresses ==
    {[v |-> 4, o |-> <<93, 184, 216, 34>>, seg0 |-> 0, tail |-> "other"],
     [v |-> 4, o |-> <<172, 31, 0, 1>>, seg0 |-> 0, tail |-> "other"],
     [v |-> 6, o |-> <<172, 31, 0, 1>>, seg0 |-> 0, tail |-> "other"],
     [v |-> 6, o |-> <<>>, seg0 |-> 64768, tail |-> "other"]}

\* A workspace behind a link, and one behind a link to itself.
MCLinks == (<<"ws">> :> [abs |-> TRUE, segs |-> <<"home", "u">>])
           @@ (<<"loop">> :> [abs |-> FALSE, segs |-> <<"loop">>])
MCRequests ==
    [tier : {"read_only", "workspace_write", "danger_full_access"}, argv : {"ok", "empty"},
     root : {<<"ws", "p">>, <<"loop", "x">>}]
=============================================================================
