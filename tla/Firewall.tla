------------------------------- MODULE Firewall --------------------------------
(***************************************************************************)
(* The input firewall of apohara-agentguard (firewall/): the rule tables, *)
(* the verdict on a text, the posture of each surface and the check of    *)
(* resolved addresses; then the out-of-band fetch (firewall/refetch.rs),  *)
(* the part that takes steps.                                             *)
(*                                                                        *)
(* A text is [ids, ssn, runs, weapon]: the regex rules it matches, the    *)
(* number triples, the lengths of its digit runs and the characters that  *)
(* follow a weapons phrase ("word", "other", "end").                      *)
(*                                                                        *)
(* A file is read up to a cap, a URL is fetched through a resolver that   *)
(* refuses internal addresses.  Redirects resolve again, and what a host  *)
(* name resolves to may change between any two steps.                     *)
(***************************************************************************)
EXTENDS Integers, Sequences, FiniteSets, FiniteSetsExt, TLC, TLAPS

Severities(prefix, sevs) == [id \in {<<prefix, i>> : i \in DOMAIN sevs} |-> sevs[id[2]]]

\* the deterministic rules by family, <<family, number>> -> severity
InjectionRules == Severities("PI", <<9, 9, 9, 8, 8, 8, 7, 8, 7, 6, 9, 7, 9, 7, 7>>)
MoreInjectionRules == [id \in {<<"PI", i>> : i \in 16..20} |-> <<8, 7, 8, 6, 9>>[id[2] - 15]]
SqlRules == Severities("SQLI", <<9, 10, 9, 9, 9, 9>>)
XssRules == Severities("XSS", <<8, 8, 8, 7, 8, 8>>)
PiiRules == Severities("PII", <<8, 7, 7, 6, 5, 4, 7, 6, 4, 4>>)
ExfiltrationRules == Severities("EXF", <<9, 8, 8, 9, 8>>)
MisuseRules == Severities("MIS", <<10, 10, 9, 8, 9, 8, 10, 10, 9, 9>>)
PolicyRules == Severities("POL", <<9, 9, 10, 10, 10>>)
HarmRules == Severities("HARM", <<10, 10, 10, 10, 10, 10, 9, 9, 9, 9, 10, 10, 10, 9, 10, 10>>)

djl_rules == InjectionRules @@ MoreInjectionRules @@ SqlRules @@ XssRules @@ PiiRules
             @@ ExfiltrationRules @@ MisuseRules @@ PolicyRules @@ HarmRules

\* the OWASP agentic patterns, by category, all of one severity
OWASP_MATCH_SEVERITY == 8
OwaspCounts == [ASI01 |-> 4, ASI02 |-> 4, ASI05 |-> 5, ASI06 |-> 4, ASI10 |-> 4, BIZEMAIL |-> 3]
owasp_patterns == [id \in UNION {{<<c, i>> : i \in 1..OwaspCounts[c]} : c \in DOMAIN OwaspCounts} |-> OWASP_MATCH_SEVERITY]

\* the rules that need a second look at what the regex found
TwoStage == {<<"PII", 1>>, <<"PII", 8>>, <<"HARM", 3>>}
ssn_matches(text) == \E n \in text.ssn : n[1] \notin {0, 666} /\ n[1] < 900 /\ n[2] # 0 /\ n[3] # 0
steuer_id_matches(text) == 11 \in text.runs
weapons_matches(text) == text.weapon \cap {"other", "end"} # {}
two_stage_matches(id, text) ==
  CASE id = <<"PII", 1>> -> ssn_matches(text)
    [] id = <<"PII", 8>> -> steuer_id_matches(text)
    [] id = <<"HARM", 3>> -> weapons_matches(text)

FirewallHits(text) ==
  {djl_rules[id] : id \in (text.ids \cap DOMAIN djl_rules) \ TwoStage}
    \cup {owasp_patterns[id] : id \in text.ids \cap DOMAIN owasp_patterns}
    \cup {djl_rules[id] : id \in {i \in TwoStage : two_stage_matches(i, text)}}

\* tiers are those of CommandGate: 0 allow, 1 warn, 2 ask, 3 block
TierOf(sev, t) == IF sev >= t.block_at THEN 3 ELSE IF sev >= t.warn_at THEN 1 ELSE 0

scan_content(text, thresholds) ==
  IF FirewallHits(text) = {} THEN 0 ELSE TierOf(Max(FirewallHits(text)), thresholds)

clamp_to_warn(tier) == IF tier = 3 THEN 1 ELSE tier

\* A fetch is [res, text] with res in {"ok", "ssrf", "timeout", "io"}.
scan_surface(surface, fetched, thresholds) ==
  IF surface \in {"read_file", "web_fetch", "web_search"}
  THEN CASE fetched.res = "ok" -> scan_content(fetched.text, thresholds)
         [] fetched.res = "ssrf" -> 3
         [] OTHER -> 1
  ELSE clamp_to_warn(IF fetched.res = "ok" THEN scan_content(fetched.text, thresholds) ELSE 0)

(************************** resolved addresses *****************************)
\* An address is [v, o, seg0, tail]: version, the octets (of the mapped
\* address for v6, <<>> if none), the first v6 segment, and the last one
\* with "zero" or "other" for what lies between.
check_v4(o) ==
  ~ \/ o = <<169, 254, 169, 254>>
    \/ o[1] = 127
    \/ o[1] = 10 \/ (o[1] = 172 /\ o[2] \in 16..31) \/ (o[1] = 192 /\ o[2] = 168)
    \/ (o[1] = 169 /\ o[2] = 254)
    \/ o = <<0, 0, 0, 0>>

check_v6(a) ==
  /\ a.tail \notin {"ec2", "loopback", "unspecified"}
  /\ IF a.o # <<>> THEN check_v4(a.o)
     ELSE /\ ~(a.seg0 \in 65152..65215)        \* fe80::/10
          /\ ~(a.seg0 \in 64512..65023)        \* fc00::/7

ssrf_check_ip(a) == IF a.v = 4 THEN check_v4(a.o) ELSE check_v6(a)
--------------------------------------------------------------------------------
CONSTANTS
  Addresses,      \* the addresses a name may resolve to
  MaxRedirects    \* redirects the HTTP agent follows (ureq: 5)

VARIABLES
  fwDns,          \* what the host resolves to at the moment
  fwPc,           \* "resolve" "connect" "read" "done"
  fwAddrs,        \* the addresses the resolver handed to the agent
  fwHops,         \* redirects followed
  fwReached,      \* the addresses connections were opened to
  fwResult        \* the FetchError, or "ok"; "none" before the end

fwVars == <<fwDns, fwPc, fwAddrs, fwHops, fwReached, fwResult>>

fwInit == /\ fwDns \in SUBSET Addresses
          /\ fwPc = "resolve" /\ fwAddrs = {} /\ fwHops = 0 /\ fwReached = {} /\ fwResult = "none"

fwEnd(res) == fwPc' = "done" /\ fwResult' = res

\* the name server's answer changes
fwDnsChanges == /\ fwPc # "done"
                /\ fwDns' \in SUBSET Addresses
                /\ UNCHANGED <<fwPc, fwAddrs, fwHops, fwReached, fwResult>>

\* Mutant of Rejected: one good address lets the whole list through.
RejectedIfAll(addrs) == \A a \in addrs : ~ssrf_check_ip(a)

\* ssrf_resolver: one rejected address refuses the host
Rejected(addrs) == \E a \in addrs : ~ssrf_check_ip(a)

fwResolve ==
  /\ fwPc = "resolve"
  /\ IF fwDns = {} THEN fwEnd("io") /\ UNCHANGED fwAddrs
     ELSE IF Rejected(fwDns) THEN fwEnd("ssrf") /\ UNCHANGED fwAddrs
     ELSE fwPc' = "connect" /\ fwAddrs' = fwDns /\ UNCHANGED fwResult
  /\ UNCHANGED <<fwDns, fwHops, fwReached>>

\* the agent dials an address of the list it was handed
fwConnect ==
  /\ fwPc = "connect"
  /\ \/ \E a \in fwAddrs : fwReached' = fwReached \cup {a} /\ fwPc' = "read" /\ UNCHANGED fwResult
     \/ fwEnd("timeout") /\ UNCHANGED fwReached
  /\ UNCHANGED <<fwDns, fwAddrs, fwHops>>

\* a body (its first MiB), an error status, a redirect, or a read that times out
fwRead ==
  /\ fwPc = "read"
  /\ \/ \E res \in {"ok", "io", "timeout"} : fwEnd(res) /\ UNCHANGED fwHops
     \/ IF fwHops < MaxRedirects THEN fwHops' = fwHops + 1 /\ fwPc' = "resolve" /\ UNCHANGED fwResult
        ELSE fwEnd("io") /\ UNCHANGED fwHops
  /\ UNCHANGED <<fwDns, fwAddrs, fwReached>>

fwNext == fwDnsChanges \/ fwResolve \/ fwConnect \/ fwRead
fwSpec == fwInit /\ [][fwNext]_fwVars

\* No connection of the firewall goes to an internal address, although the
\* name may resolve differently at every hop and between the check and the
\* connection: the agent dials the very addresses ssrf_resolver looked at.
OnlyCheckedAreReached == \A a \in fwReached : ssrf_check_ip(a)
--------------------------------------------------------------------------------
\* Between the check and the connection the agent holds only checked addresses,
\* whatever the name resolves to by then.
HeldAreChecked == fwPc = "connect" => \A a \in fwAddrs : ssrf_check_ip(a)

\* However often the name server changes its answer and however many redirects
\* are followed, no connection is opened to an address ssrf_check_ip rejects:
\* for any set of addresses and any number of redirects.
THEOREM FetchReachesOnlyChecked == fwSpec => []OnlyCheckedAreReached
<1> DEFINE Inv == OnlyCheckedAreReached /\ HeldAreChecked
<1>1. fwInit => Inv
  BY DEF fwInit, OnlyCheckedAreReached, HeldAreChecked
<1>2. Inv /\ [fwNext]_fwVars => Inv'
  <2> SUFFICES ASSUME Inv, [fwNext]_fwVars PROVE Inv'
    OBVIOUS
  <2>1. CASE fwDnsChanges
    BY <2>1 DEF fwDnsChanges, OnlyCheckedAreReached, HeldAreChecked
  <2>2. CASE fwResolve
    BY <2>2 DEF fwResolve, fwEnd, Rejected, OnlyCheckedAreReached, HeldAreChecked
  <2>3. CASE fwConnect
    BY <2>3 DEF fwConnect, fwEnd, OnlyCheckedAreReached, HeldAreChecked
  <2>4. CASE fwRead
    BY <2>4 DEF fwRead, fwEnd, OnlyCheckedAreReached, HeldAreChecked
  <2>5. CASE UNCHANGED fwVars
    BY <2>5 DEF fwVars, OnlyCheckedAreReached, HeldAreChecked
  <2>6. QED
    BY <2>1, <2>2, <2>3, <2>4, <2>5 DEF fwNext
<1>3. QED
  BY <1>1, <1>2, PTL DEF fwSpec
================================================================================
