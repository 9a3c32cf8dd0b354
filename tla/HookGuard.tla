------------------------------- MODULE HookGuard -------------------------------
(***************************************************************************)
(* The hook entry point of apohara-agentguard (hook/, config, policy/,    *)
(* audit): every hook event is a process of its own that loads the        *)
(* configuration, judges the event, appends to the audit log and answers  *)
(* on stdout.  Processes of one session run concurrently and share the    *)
(* configuration file, the policy file, the audit log and the session's   *)
(* canary token file; the host may kill any of them.                      *)
(***************************************************************************)
EXTENDS CommandGate, Firewall

CONSTANTS
  Calls,          \* the hook processes, 1, 2, ... in the order they are started
  Inputs,         \* the events they are given, see Input
  ConfigFiles,    \* contents the configuration file may have; broken = FALSE in each that parses
  Policies        \* contents the policy file may have

(* An input is [event, session, tool, arg, fetched, echo]: arg is the      *)
(* command, path or rule argument; fetched what an inspected text or URL   *)
(* holds ([res, text]); echo tells that a tool's output repeats the newest *)
(* canary token the session was told.                                      *)

NoCall == 0
EmptyFile == -1

(******************************* pathguard *********************************)
\* A path is a sequence of lower-case segments, "/" first if absolute.
Home == <<"/", "home", "u">>
expand_home(path) ==
  IF path[1] \in {"~", "$home", "%userprofile%"} THEN Home \o Tail(path) ELSE path

contains_dir(path, seg) == \E i \in 1..(Len(path) - 1) : path[i] = seg
UnderEtc(path) == Len(path) > 2 /\ path[1] = "/" /\ path[2] = "etc"
KeyFiles == {".env", ".env.local", "x.pem", "x.key", "id_rsa", "id_ed25519", "id_dsa", "id_ecdsa", "credentials"}
PROFILES == {".bashrc", ".bash_profile", ".profile", ".zshrc", ".zprofile", ".zshenv"}

secret_read_target(path) == contains_dir(path, ".ssh") \/ UnderEtc(path) \/ Last(path) \in KeyFiles
sensitive_write_target(path) == contains_dir(path, ".ssh") \/ UnderEtc(path) \/ Last(path) \in PROFILES

check_path(path, write) ==
  LET norm == expand_home(path)
  IN IF (write /\ sensitive_write_target(norm)) \/ secret_read_target(norm) THEN Block ELSE Allow

(******************************* configuration *****************************)
DefaultConfig ==
  [broken |-> FALSE, disable |-> FALSE, normalize |-> TRUE, packs |-> {}, allow |-> {}, custom |-> {},
   thresholds |-> DefaultThresholds, level |-> "standard", audit |-> FALSE, canary |-> FALSE,
   disabled |-> {}, tool_rules |-> {}, policy |-> FALSE]

\* load_default_locations().unwrap_or_default(): a file that does not parse
\* counts as no file
LoadConfig(file) == IF file.broken THEN DefaultConfig ELSE file

is_component_disabled(c, component) == c.disable \/ component \in c.disabled

(********************************* policy **********************************)
\* A policy is [broken, version, deny, listed, rules, cap]: listed are the
\* tools with an explicit allow list, rules a set of [tool, pattern,
\* severity], cap the session's cap on tool invocations (-1: none).
PolicyLoads(p) == ~p.broken /\ p.version = 1

arg_matches(pattern, arg) == pattern # "" /\ pattern \in Range(arg)

evaluate_rules(p, in, t) ==
  LET tiers == {severity_to_tier(r.severity, t) : r \in {x \in p.rules : x.tool = in.tool /\ arg_matches(x.pattern, in.arg)}}
  IN IF tiers \subseteq {Allow} THEN Allow ELSE Max(tiers)

\* budget_check: only Bash is charged; the counters live in the PolicySet,
\* which this process has just loaded, so a call finds them at zero
Charge(in) == IF in.event = "PreToolUse" /\ in.tool = "Bash" THEN 1 ELSE 0
budget_check(p, in) == IF Charge(in) > 0 /\ p.cap >= 0 /\ Charge(in) > p.cap THEN Ask ELSE Allow

PolicyVerdict(p, in, c) ==
  LET ruled == evaluate_rules(p, in, effective_thresholds(c))
  IN IF ruled # Allow THEN ruled
     ELSE IF p.deny /\ in.tool \notin p.listed THEN Block
     ELSE budget_check(p, in)

policy_engine_evaluate(file, in, c) ==
  IF ~c.policy THEN Allow                          \* no policy file: an empty, allowing policy
  ELSE IF PolicyLoads(file) THEN PolicyVerdict(file, in, c) ELSE Block

(******************************* the verdicts ******************************)
max_verdict(a, b) == IF b > a THEN b ELSE a

tool_rule_verdict(in, c) ==
  LET tiers == {severity_to_tier(r.severity, effective_thresholds(c)) :
                  r \in {x \in c.tool_rules : x.tool = in.tool /\ arg_matches(x.pattern, in.arg)}}
  IN IF tiers = {} THEN Allow ELSE Max(tiers)

dispatch_pretooluse_builtin(in, c) ==
  LET t == effective_thresholds(c)
      off(x) == is_component_disabled(c, x)
      guard(write) == IF off("pathguard") THEN Allow ELSE check_path(in.arg, write)
      scan(surface) == IF off("firewall") THEN Allow ELSE scan_surface(surface, in.fetched, t)
  IN CASE in.tool = "Bash" -> IF off("gate") THEN Allow ELSE evaluate(in.arg, c)
       [] in.tool = "Read" -> IF guard(FALSE) = Block THEN Block ELSE scan("read_file")
       [] in.tool \in {"Write", "Edit"} -> guard(TRUE)
       [] in.tool = "WebFetch" -> scan("web_fetch")
       [] in.tool = "WebSearch" -> scan("web_search")
       [] OTHER -> Allow

\* before the policy file is read
LocalVerdict(in, c) ==
  CASE in.event = "PreToolUse" -> max_verdict(dispatch_pretooluse_builtin(in, c), tool_rule_verdict(in, c))
    [] in.event = "PostToolUse" ->
         IF in.tool # "Bash" \/ is_component_disabled(c, "firewall") THEN Allow
         ELSE scan_surface("bash_stdout", in.fetched, effective_thresholds(c))
    [] in.event = "UserPromptSubmit" ->
         IF is_component_disabled(c, "firewall") THEN Allow
         ELSE scan_surface("user_prompt", in.fetched, effective_thresholds(c))
    [] OTHER -> Allow

\* audit_decision knows these; a verdict on any other tool is not recorded
Recorded(in) ==
  \/ in.event = "PreToolUse" /\ in.tool \in {"Bash", "Read", "Write", "Edit", "WebFetch", "WebSearch"}
  \/ in.event = "PostToolUse" /\ in.tool = "Bash"
  \/ in.event = "UserPromptSubmit"

\* emit: what the host sees.  Only PreToolUse can be denied or asked about.
is_blocking_event(event) == event = "PreToolUse"
emit(event, tier) ==
  CASE tier = Allow -> "silent"
    [] tier = Warn -> "context"
    [] tier = Ask -> IF is_blocking_event(event) THEN "ask" ELSE "context"
    [] tier = Block -> IF is_blocking_event(event) THEN "deny" ELSE "context"

(******************************* the processes *****************************)
VARIABLES
  hgConfig,       \* the configuration file
  hgPolicy,       \* the policy file
  hgToken,        \* [session -> the call whose token the canary file holds, NoCall (no file), EmptyFile]
  hgTold,         \* [session -> the call whose token the session was told last, or NoCall]
  hgAudit,        \* the audit log: <<call, tier>> entries
  hgCall          \* [call -> its state]

hgVars == <<hgConfig, hgPolicy, hgToken, hgTold, hgAudit, hgCall>>

Sessions == {in.session : in \in Inputs} \ {""}

\* echoed: the call whose token the output repeats; kept: its own token reached the
\* file; after: for a SessionStart, the calls that had ended when it was started
NewCall == [pc |-> "idle", in |-> [event |-> "", session |-> "", tool |-> "", echo |-> FALSE], cfg |-> DefaultConfig,
            tier |-> Allow, echoed |-> NoCall, kept |-> FALSE, after |-> {}, logged |-> TRUE, out |-> ""]

hgInit == /\ hgConfig \in ConfigFiles /\ hgPolicy \in Policies
          /\ hgToken = [s \in Sessions |-> NoCall] /\ hgTold = [s \in Sessions |-> NoCall]
          /\ hgAudit = <<>> /\ hgCall = [k \in Calls |-> NewCall]

Set(k, upd) == hgCall' = [hgCall EXCEPT ![k] = upd]
Files == <<hgConfig, hgPolicy, hgToken, hgTold, hgAudit>>

\* run_hook and run_with_source up to dispatch: stdin, the configuration, the
\* kill switch, and the events that answer at once
HookStart(k) ==
  /\ hgCall[k].pc = "idle" /\ \A q \in 1..(k - 1) : hgCall[q].pc # "idle"
  /\ \E in \in Inputs :
       LET c == LoadConfig(hgConfig)
           canary == c.canary /\ ~is_component_disabled(c, "canary") /\ in.session # ""
           me == [hgCall[k] EXCEPT !.in = in, !.cfg = c,
                                   !.echoed = IF in.echo THEN hgTold[in.session] ELSE NoCall,
                                   !.after = IF in.event = "SessionStart"
                                            THEN {q \in Calls : hgCall[q].pc = "done"} ELSE {}]
       IN IF c.disable \/ (in.event = "SessionStart" /\ ~canary) \/ in.event = "garbled"
          THEN Set(k, [me EXCEPT !.pc = "done", !.out = "silent"])
          ELSE Set(k, [me EXCEPT !.pc = CASE in.event = "SessionStart" -> "truncate"
                                          [] in.event = "PreToolUse" -> "policy"
                                          [] in.event = "PostToolUse" -> "canary"
                                          [] OTHER -> "audit",
                                 !.tier = LocalVerdict(in, c)])
  /\ UNCHANGED Files

\* persist_token: open (create, truncate), then write; a failure is ignored
HookTruncate(k) ==
  /\ hgCall[k].pc = "truncate"
  /\ \/ /\ hgToken' = [hgToken EXCEPT ![hgCall[k].in.session] = EmptyFile]
        /\ Set(k, [hgCall[k] EXCEPT !.pc = "write"])
     \/ /\ Set(k, [hgCall[k] EXCEPT !.pc = "tell"])
        /\ UNCHANGED hgToken
  /\ UNCHANGED <<hgConfig, hgPolicy, hgTold, hgAudit>>

HookWrite(k) ==
  /\ hgCall[k].pc = "write"
  /\ hgToken' = [hgToken EXCEPT ![hgCall[k].in.session] = k]
  /\ Set(k, [hgCall[k] EXCEPT !.pc = "tell", !.kept = TRUE])
  /\ UNCHANGED <<hgConfig, hgPolicy, hgTold, hgAudit>>

HookTell(k) ==
  /\ hgCall[k].pc = "tell"
  /\ hgTold' = [hgTold EXCEPT ![hgCall[k].in.session] = k]
  /\ Set(k, [hgCall[k] EXCEPT !.pc = "done", !.out = "context"])
  /\ UNCHANGED <<hgConfig, hgPolicy, hgToken, hgAudit>>

\* canary_scan, reached only when the firewall found nothing
read_token(s) == IF hgToken[s] = EmptyFile THEN NoCall ELSE hgToken[s]

HookCanary(k) ==
  /\ hgCall[k].pc = "canary"
  /\ LET me == hgCall[k]
         looks == me.in.tool = "Bash" /\ me.tier = Allow /\ me.cfg.canary /\ me.in.session # ""
                  /\ ~is_component_disabled(me.cfg, "canary")
         found == looks /\ me.echoed # NoCall /\ read_token(me.in.session) = me.echoed
     IN Set(k, [me EXCEPT !.pc = "audit", !.tier = IF found THEN Warn ELSE @])
  /\ UNCHANGED Files

HookPolicy(k) ==
  /\ hgCall[k].pc = "policy"
  /\ Set(k, [hgCall[k] EXCEPT !.pc = "audit",
             !.tier = max_verdict(@, policy_engine_evaluate(hgPolicy, hgCall[k].in, hgCall[k].cfg))])
  /\ UNCHANGED Files

\* Mutant of HookAudit: only what is denied is recorded.
HookAuditDenied(k) ==
  /\ hgCall[k].pc = "audit"
  /\ LET me == hgCall[k]
         due == me.cfg.audit /\ me.tier = Block /\ Recorded(me.in)
     IN \/ /\ due
           /\ hgAudit' = Append(hgAudit, <<k, me.tier>>)
           /\ Set(k, [me EXCEPT !.pc = "emit"])
        \/ /\ Set(k, [me EXCEPT !.pc = "emit", !.logged = ~due])
           /\ UNCHANGED hgAudit
  /\ UNCHANGED <<hgConfig, hgPolicy, hgToken, hgTold>>

\* audit_decision and audit::record: one append; a failed write is only logged
HookAudit(k) ==
  /\ hgCall[k].pc = "audit"
  /\ LET me == hgCall[k]
         due == me.cfg.audit /\ me.tier # Allow /\ Recorded(me.in)
     IN \/ /\ due
           /\ hgAudit' = Append(hgAudit, <<k, me.tier>>)
           /\ Set(k, [me EXCEPT !.pc = "emit"])
        \/ /\ Set(k, [me EXCEPT !.pc = "emit", !.logged = ~due])
           /\ UNCHANGED hgAudit
  /\ UNCHANGED <<hgConfig, hgPolicy, hgToken, hgTold>>

HookEmit(k) ==
  /\ hgCall[k].pc = "emit"
  /\ Set(k, [hgCall[k] EXCEPT !.pc = "done", !.out = emit(hgCall[k].in.event, hgCall[k].tier)])
  /\ UNCHANGED Files

\* the host gives up on a hook
HookKilled(k) ==
  /\ hgCall[k].pc \notin {"idle", "done"}
  /\ Set(k, [hgCall[k] EXCEPT !.pc = "done", !.out = "killed"])
  /\ UNCHANGED Files

\* the operator edits a file between two steps of the hooks
EditFiles ==
  /\ \E k \in Calls : hgCall[k].pc = "idle"
  /\ \/ hgConfig' \in ConfigFiles /\ UNCHANGED hgPolicy
     \/ hgPolicy' \in Policies /\ UNCHANGED hgConfig
  /\ UNCHANGED <<hgToken, hgTold, hgAudit, hgCall>>

hgNext == \/ EditFiles
          \/ \E k \in Calls :
               \/ HookStart(k) \/ HookTruncate(k) \/ HookWrite(k) \/ HookTell(k) \/ HookCanary(k)
               \/ HookPolicy(k) \/ HookAudit(k) \/ HookEmit(k) \/ HookKilled(k)

hgSpec == hgInit /\ [][hgNext]_hgVars

(******************************* properties ********************************)
Touched(q, s) == hgCall[q].in.event = "SessionStart" /\ hgCall[q].in.session = s

\* An answered call whose output repeats the newest sentinel its session was told,
\* with the canary enabled.
Echoes(k) ==
  LET me == hgCall[k] IN
  /\ me.in.event = "PostToolUse" /\ me.in.tool = "Bash" /\ me.out \notin {"", "killed"}
  /\ me.echoed # NoCall /\ hgCall[me.echoed].kept
  /\ me.cfg.canary /\ ~is_component_disabled(me.cfg, "canary")

\* A SessionStart of the same session that ran beside the one with the echoed
\* sentinel, or after it and not after k.
Interferes(q, k) ==
  /\ Touched(q, hgCall[k].in.session) /\ q # hgCall[k].echoed
  /\ q \notin hgCall[hgCall[k].echoed].after /\ k \notin hgCall[q].after

\* A tool output that repeats the newest sentinel of its session is answered
\* with a warning, if the sentinel reached its file and no SessionStart has
\* touched the file since: whatever earlier and later SessionStarts, the hooks
\* of other events and the host do in between (persist_token, read_token).
EchoIsFlagged ==
  \A k \in Calls : Echoes(k) /\ (\A q \in Calls : ~Interferes(q, k)) => hgCall[k].out = "context"

\* An answer of the kinds of call audit_decision knows that stops, asks or warns
\* is in the audit log before the host sees it, unless the write failed: a hook
\* that is killed may leave a record without an answer, never an answer without
\* its record (audit_decision runs before emit), and the record carries the tier
\* that was enforced.
AnsweredIsAudited ==
  \A k \in Calls :
    LET me == hgCall[k] IN
    /\ (me.out \in {"deny", "ask", "context"} /\ me.cfg.audit /\ Recorded(me.in) /\ me.logged)
         => <<k, me.tier>> \in Range(hgAudit)
    /\ \A i \in DOMAIN hgAudit :
         hgAudit[i][1] = k => (me.out \in {"", "killed"} \/ me.out = emit(me.in.event, hgAudit[i][2]))
================================================================================
