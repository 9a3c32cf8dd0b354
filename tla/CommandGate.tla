------------------------------ MODULE CommandGate ------------------------------
(***************************************************************************)
(* The destructive-command gate of apohara-agentguard (gate/): a command  *)
(* line goes through normalisation, a quote-aware splitter, assignment    *)
(* resolution, base64 decoding and a table of rules, and the worst hit    *)
(* becomes a tier.                                                        *)
(*                                                                        *)
(* A command is a sequence of tokens, not of characters.  Words:          *)
(*   "ls" "echo" "curl" "sh"   plain words and verbs                      *)
(*   "rm" "chmod" "drop"       the text a rule (or a pack) matches        *)
(*   "rm,"                     that text with commas for blanks           *)
(*   "own"                     the text of a configured custom block      *)
(*   "X=" "$X" "IFS=,"         an assignment's head, a use, an IFS change  *)
(*   "b64"                     a base64 decoding stage                    *)
(*   "enc" "enc2"              payloads, encoding Payload(..) below       *)
(* Marks: ";" (also && || & newline), "|", "dq", "sq", "$(", "<(" (also >(),*)
(*   "(" (of a subshell), ")", "bt",                                        *)
(*   "esc" (a backslash), "cont" (backslash-newline), "$'rm'" (an ANSI-C   *)
(*   quoted "rm"), "bomb" (the fork bomb), "#".                           *)
(***************************************************************************)
EXTENDS Integers, Sequences, FiniteSets, SequencesExt

CONSTANT MaxRewrites    \* rewrites one normalisation may make (64 in the code)

Allow == 0
Warn  == 1
Ask   == 2
Block == 3

\* A configuration is a record with, for the gate, the fields disable,
\* normalize, packs, allow (the raw commands the allow-list matches), custom
\* (a set of [pattern, severity]), thresholds and level.
DefaultThresholds == [block_at |-> 8, warn_at |-> 5]

MAX_SUBST_DEPTH == 4
MAX_SUBST_BODIES == 64
MAX_DECODE_DEPTH == 2

severity_to_tier(sev, t) ==
  IF sev >= t.block_at THEN Block ELSE IF sev >= t.warn_at THEN Warn ELSE Allow

level_preset(level) ==
  CASE level = "strict"   -> [block_at |-> 7, warn_at |-> 4]
    [] level = "high"     -> [block_at |-> 6, warn_at |-> 3]
    [] level = "critical" -> [block_at |-> 5, warn_at |-> 2]

effective_thresholds(c) == IF c.level = "standard" THEN c.thresholds ELSE level_preset(c.level)

(*********************** the rules (taxonomy, packs) ***********************)
\* Severities by rule.  A rule matches a text that holds its token; the
\* gate looks at nothing but the severity, so one token stands for every
\* rule of its severity.
rules ==
  [ rm_rf |-> 9, find_delete |-> 8, find_exec_rm |-> 8, dd_overwrite |-> 8, mkfs |-> 9,
    chmod_777 |-> 6, chmod_recursive |-> 6, chmod_recursive_777_root |-> 9,
    chown_recursive_root |-> 9, fork_bomb |-> 9, write_block_device |-> 9,
    mv_to_devnull |-> 7, fetch_run_inline |-> 8 ]

cloud_rules == [aws_s3_rb_force |-> 9, aws_delete |-> 8, gcloud_delete |-> 8, az_delete |-> 8]
container_rules == [docker_system_prune |-> 8, docker_rm_force |-> 8, kubectl_delete_all |-> 9]
db_rules == [drop_table |-> 8, drop_database |-> 9, truncate |-> 8]

rules_for(name) ==
  CASE name = "cloud" -> cloud_rules [] name = "db" -> db_rules [] name = "container" -> container_rules

\* which rule a token is the text of
RuleOf == [t \in {"rm", "chmod", "bomb", "drop"} |->
             CASE t = "rm" -> "rm_rf" [] t = "chmod" -> "chmod_777"
               [] t = "bomb" -> "fork_bomb" [] t = "drop" -> "drop_table"]

\* the severities of the rules, the enabled packs' among them, that match text
RuleHits(text, packs) ==
  LET hit(table) == {table[RuleOf[t]] : t \in {u \in Range(text) \cap DOMAIN RuleOf : RuleOf[u] \in DOMAIN table}}
  IN hit(rules) \cup UNION {hit(rules_for(p)) : p \in packs}

Head1(s) == IF s = <<>> THEN "" ELSE Head(s)

is_non_executing_verb(leg) == Head1(leg) \in {"echo"}    \* echo, printf, git commit | tag | notes
is_shell_interpreter(w) == w \in {"sh"}                  \* sh bash zsh ... python perl ruby node
IsComment(leg) == Head1(leg) = "#"

RECURSIVE strip_quoted_spans(_)
strip_quoted_spans(leg) ==
  IF leg = <<>> THEN <<>>
  ELSE IF Head(leg) \notin {"dq", "sq"} THEN <<Head(leg)>> \o strip_quoted_spans(Tail(leg))
  ELSE LET rest == Tail(leg)
           ends == {i \in DOMAIN rest : rest[i] = Head(leg)}
       IN IF ends = {} THEN <<Head(leg)>>
          ELSE LET e == Min(ends)
               IN <<Head(leg), Head(leg)>> \o strip_quoted_spans(SubSeq(rest, e + 1, Len(rest)))

effective_match_text(leg) ==
  IF IsComment(leg) THEN <<>>
  ELSE IF is_non_executing_verb(leg) THEN strip_quoted_spans(leg) ELSE leg

\* the stages of a text: split at every pipe, quoted or not
RECURSIVE Stages(_)
Stages(s) == IF "|" \notin Range(s) THEN <<s>>
             ELSE LET i == Min({k \in DOMAIN s : s[k] = "|"})
                  IN <<SubSeq(s, 1, i - 1)>> \o Stages(SubSeq(s, i + 1, Len(s)))

fetch_pipe_to_shell(s) ==
  LET st == Stages(s)
  IN \E i, j \in DOMAIN st : i < j /\ Head1(st[i]) = "curl" /\ is_shell_interpreter(Head1(st[j]))

fork_bomb_presplit(s) == "bomb" \in Range(s)

\* what the two checks on unsplit text report
PresplitHits(s) == IF fetch_pipe_to_shell(s) \/ fork_bomb_presplit(s) THEN {9} ELSE {}

(************************** the splitter (compound) ************************)
Opens == {"$(", "<(", "("}

\* The bodies are cut out without regard to quotes; what was read is
\* returned with the rest of the text.
RECURSIVE ParenBody(_, _, _)
ParenBody(s, depth, inner) ==
  IF s = <<>> THEN [inner |-> inner, rest |-> <<>>]
  ELSE IF Head(s) = "esc" /\ Len(s) > 1 THEN ParenBody(SubSeq(s, 3, Len(s)), depth, inner \o SubSeq(s, 1, 2))
  ELSE IF Head(s) = ")" /\ depth = 1 THEN [inner |-> inner, rest |-> Tail(s)]
  ELSE ParenBody(Tail(s), CASE Head(s) \in Opens -> depth + 1 [] Head(s) = ")" -> depth - 1 [] OTHER -> depth,
                 Append(inner, Head(s)))

\* Mutant of extract_paren_body: the token after the closing one is lost.
extract_paren_body_past(s) ==
  [ParenBody(s, 1, <<>>) EXCEPT !.rest = IF @ = <<>> THEN @ ELSE Tail(@)]

extract_paren_body(s) == ParenBody(s, 1, <<>>)

RECURSIVE BacktickBody(_, _)
BacktickBody(s, inner) ==
  IF s = <<>> THEN [inner |-> inner, rest |-> <<>>]
  ELSE IF Head(s) = "bt" THEN [inner |-> inner, rest |-> Tail(s)]
  ELSE IF Head(s) = "esc" /\ Len(s) > 1 THEN BacktickBody(SubSeq(s, 3, Len(s)), inner \o SubSeq(s, 1, 2))
  ELSE BacktickBody(Tail(s), Append(inner, Head(s)))

extract_backtick_body(s) == BacktickBody(s, <<>>)

\* push_leg: an empty leg is dropped
PushLeg(cur, legs) == IF cur = <<>> THEN legs ELSE Append(legs, cur)

\* q is the open quote, "" outside quotes
RECURSIVE Splitting(_, _, _, _)
Splitting(s, q, cur, legs) ==
  IF s = <<>> THEN PushLeg(cur, legs)
  ELSE LET c == Head(s) IN
    CASE q # "sq" /\ c = "esc" /\ Len(s) > 1 ->
           Splitting(SubSeq(s, 3, Len(s)), q, cur \o SubSeq(s, 1, 2), legs)
      [] c \in {"dq", "sq"} /\ q \in {"", c} ->
           Splitting(Tail(s), IF q = "" THEN c ELSE "", Append(cur, c), legs)
      [] q = "" /\ c \in {"$(", "<(", "bt"} ->
           LET b == IF c = "bt" THEN extract_backtick_body(Tail(s)) ELSE extract_paren_body(Tail(s))
           IN Splitting(b.rest, q, <<>>, PushLeg(cur, legs) \o Splitting(b.inner, "", <<>>, <<>>))
      [] q = "" /\ c \in {";", "|", "(", ")", "bomb"} ->     \* the bomb's own marks cut it to pieces
           Splitting(Tail(s), q, <<>>, PushLeg(cur, legs))
      [] OTHER -> Splitting(Tail(s), q, Append(cur, c), legs)

split_compound(s) == Splitting(s, "", <<>>, <<>>)

RECURSIVE Quoted(_, _, _)
Quoted(s, q, bodies) ==
  IF s = <<>> \/ Len(bodies) = MAX_SUBST_BODIES THEN bodies
  ELSE LET c == Head(s) IN
    CASE q # "sq" /\ c = "esc" /\ Len(s) > 1 -> Quoted(SubSeq(s, 3, Len(s)), q, bodies)
      [] c \in {"dq", "sq"} /\ q \in {"", c} -> Quoted(Tail(s), IF q = "" THEN c ELSE "", bodies)
      [] q = "dq" /\ c \in {"$(", "bt"} ->
           LET b == IF c = "bt" THEN extract_backtick_body(Tail(s)) ELSE extract_paren_body(Tail(s))
           IN Quoted(b.rest, q, Append(bodies, b.inner))
      [] OTHER -> Quoted(Tail(s), q, bodies)

extract_double_quoted_substitutions(leg) == Quoted(leg, "", <<>>)

live_substitution_bodies(leg) ==
  IF IsComment(leg) \/ ~is_non_executing_verb(leg) THEN <<>> ELSE extract_double_quoted_substitutions(leg)

(************************ normalisation (normalize) ************************)
\* Each pass works on [out, n]: what it has written and the rewrites made.
MayRewrite(n) == n < MaxRewrites          \* Budget::allow; no rewrite here makes a text longer

strip_quotes(s) ==
  IF Len(s) >= 2 /\ Head(s) \in {"dq", "sq"} /\ Last(s) = Head(s) THEN SubSeq(s, 2, Len(s) - 1) ELSE s

RECURSIVE JoinPass(_, _)
JoinPass(s, r) ==
  IF s = <<>> THEN r
  ELSE IF Head(s) = "cont" /\ MayRewrite(r.n) THEN JoinPass(Tail(s), [r EXCEPT !.n = @ + 1])
  ELSE JoinPass(Tail(s), [r EXCEPT !.out = Append(@, Head(s))])

join_line_continuations(s, n) == JoinPass(s, [out |-> <<>>, n |-> n])

Toggled(c, q) == CASE c \in {"dq", "sq"} /\ q = "" -> c [] c = q -> "" [] OTHER -> q

\* the quote left open at the end of s
OpenQuote(s) == FoldLeft(LAMBDA q, c : Toggled(c, q), "", s)

RECURSIVE AnsiPass(_, _, _)
AnsiPass(s, q, r) ==
  IF s = <<>> THEN r
  ELSE IF Head(s) = "$'rm'" /\ q = "" /\ MayRewrite(r.n)
  THEN AnsiPass(Tail(s), q, [out |-> Append(r.out, "rm"), n |-> r.n + 1])
  ELSE AnsiPass(Tail(s), Toggled(Head(s), q), [r EXCEPT !.out = Append(@, Head(s))])

decode_ansi_c(s, n) == AnsiPass(s, "", [out |-> <<>>, n |-> n])

at_leg_head(out) == out = <<>> \/ Last(out) \in {";", "|"} \cup Opens

\* a body that is one plain `echo ...`, and the literal it prints
IsEcho(body) == Head1(body) = "echo" /\ Range(body) \cap {"$(", "$X", "$'rm'", "|", ";", "bt", "bomb"} = {}
echo_printf_literal(body) == strip_quotes(Tail(body))

\* the body that starts s and what follows it, if it is closed (escapes are not read)
RECURSIVE ClosedParen(_, _, _)
ClosedParen(s, depth, inner) ==
  IF s = <<>> THEN [closed |-> FALSE, inner |-> inner, rest |-> <<>>]
  ELSE IF Head(s) = ")" /\ depth = 1 THEN [closed |-> TRUE, inner |-> inner, rest |-> Tail(s)]
  ELSE ClosedParen(Tail(s), CASE Head(s) \in Opens -> depth + 1 [] Head(s) = ")" -> depth - 1 [] OTHER -> depth,
                   Append(inner, Head(s)))

read_paren_body(s) == ClosedParen(s, 1, <<>>)

read_backtick_body(s) ==
  LET ends == {i \in DOMAIN s : s[i] = "bt"}
  IN IF ends = {} THEN [closed |-> FALSE, inner |-> s, rest |-> <<>>]
     ELSE LET e == Min(ends) IN [closed |-> TRUE, inner |-> SubSeq(s, 1, e - 1), rest |-> SubSeq(s, e + 1, Len(s))]

RECURSIVE SplicePass(_, _, _)
SplicePass(s, q, r) ==
  IF s = <<>> THEN r
  ELSE LET c == Head(s)
           b == IF c = "bt" THEN read_backtick_body(Tail(s)) ELSE read_paren_body(Tail(s))
       IN IF q = "" /\ at_leg_head(r.out) /\ c \in {"$(", "bt"} /\ b.closed
             /\ IsEcho(b.inner) /\ MayRewrite(r.n)
          THEN SplicePass(b.rest, q, [out |-> r.out \o echo_printf_literal(b.inner), n |-> r.n + 1])
          ELSE SplicePass(Tail(s), Toggled(c, q), [r EXCEPT !.out = Append(@, c)])

splice_echo_substitution(s, n) == SplicePass(s, "", [out |-> <<>>, n |-> n])

\* the legs that begin with IFS= outside quotes, split at ";" only
collect_ifs_separators(s) ==
  \E i \in DOMAIN s : /\ s[i] = "IFS=," /\ OpenQuote(SubSeq(s, 1, i)) = ""
                      /\ i = 1 \/ s[i-1] = ";"

normalize_command(s) ==
  LET a == join_line_continuations(s, 0)
      b == decode_ansi_c(a.out, a.n)
      c == splice_echo_substitution(b.out, b.n)
  IN [command |-> c.out, ifs |-> collect_ifs_separators(c.out)]

(********************** assignments and base64 payloads ********************)
\* parse_assignment: the value is the rest of the leg
IsAssignment(leg) == Head1(leg) = "X="
expand_vars(leg, vars) ==
  FlattenSeq([i \in DOMAIN leg |-> IF leg[i] = "$X" /\ vars # <<>> THEN vars[1] ELSE <<leg[i]>>])

\* vars is <<>> or <<value of X>>
RECURSIVE Resolving(_, _, _)
Resolving(legs, vars, out) ==
  IF legs = <<>> THEN out
  ELSE LET leg == Head(legs)
       IN Resolving(Tail(legs), IF IsAssignment(leg) THEN <<strip_quotes(Tail(leg))>> ELSE vars,
                    Append(out, expand_vars(leg, vars)))

resolve_assignments(legs) == Resolving(legs, <<>>, <<>>)

\* what the payloads of the alphabet encode; any other text does not decode
Payload(t) == CASE t = "enc" -> <<"rm">> [] t = "enc2" -> <<"echo", "enc", "|", "b64">>
Payloads == {"enc", "enc2"}

has_base64_decode_stage(s) == \E i \in DOMAIN Stages(s) : Head1(Stages(s)[i]) = "b64"

\* the argument of an echo, or else the first word with its quotes glued on
extract_payload(s) ==
  LET first == Stages(s)[1]
  IN IF Head1(first) = "echo" THEN strip_quotes(Tail(first)) 
     ELSE IF Len(first) >= 3 /\ first[1] \in {"dq", "sq"} /\ first[3] = first[1] THEN <<first[2]>>
     ELSE <<Head1(first)>>

\* the decoded text, or <<>> for None
decode_and_expand(s, depth) ==
  LET p == extract_payload(s)
  IN IF depth < MAX_DECODE_DEPTH /\ has_base64_decode_stage(s) /\ Len(p) = 1 /\ p[1] \in Payloads
     THEN Payload(p[1]) ELSE <<>>

has_unresolved_decode(s) == has_base64_decode_stage(s)

(****************************** the evaluation *****************************)
\* The severities of everything scan_leg and scan_substitution_body would
\* `consider`; the verdict keeps the highest.
RECURSIVE scan_leg(_, _, _), scan_substitution_body(_, _, _)

scan_legs(legs, depth, c) == UNION {scan_leg(legs[i], depth, c) : i \in DOMAIN legs}

scan_leg(leg, depth, c) ==
  LET decoded == decode_and_expand(leg, depth)
      bodies == IF depth < MAX_SUBST_DEPTH THEN live_substitution_bodies(leg) ELSE <<>>
  IN RuleHits(effective_match_text(leg), c.packs)
     \cup UNION {scan_substitution_body(bodies[i], depth + 1, c) : i \in DOMAIN bodies}
     \cup {b.severity : b \in {x \in c.custom : x.pattern \in Range(leg)}}
     \cup (IF decoded # <<>> THEN scan_legs(split_compound(decoded), depth + 1, c)
           ELSE IF depth + 1 >= MAX_DECODE_DEPTH /\ has_unresolved_decode(leg)
           THEN {c.thresholds.warn_at} ELSE {})

scan_substitution_body(body, depth, c) ==
  LET legs == split_compound(body)
      decoded == decode_and_expand(body, depth)
      inner(leg) == IF depth < MAX_SUBST_DEPTH THEN live_substitution_bodies(leg) ELSE <<>>
  IN PresplitHits(body)
     \cup (IF decoded # <<>> THEN scan_legs(split_compound(decoded), depth + 1, c) ELSE {})
     \cup UNION {IF is_non_executing_verb(legs[i])
                 THEN UNION {scan_substitution_body(inner(legs[i])[k], depth + 1, c) : k \in DOMAIN inner(legs[i])}
                 ELSE scan_leg(legs[i], depth, c) : i \in DOMAIN legs}

\* ifs_resplit_block: after an IFS=, leg the commas of later legs are blanks
IfsLegs(s) ==
  LET legs == split_compound(s)
      after(i) == \E j \in 1..(i-1) : Head1(legs[j]) = "IFS=,"
      blanks(leg) == [k \in DOMAIN leg |-> IF leg[k] = "rm," THEN "rm" ELSE leg[k]]
  IN [i \in DOMAIN legs |-> IF after(i) THEN blanks(legs[i]) ELSE legs[i]]

Worst(hits) == IF hits = {} THEN -1 ELSE Max(hits)

ifs_resplit_block(s, c) ==
  LET w == Worst(scan_legs(resolve_assignments(IfsLegs(s)), 0, c))
  IN IF severity_to_tier(w, c.thresholds) = Block THEN {w} ELSE {}

\* Everything considered for the normalised text s; ifs tells whether the
\* normalisation found a changed separator.
Considered(s, ifs, c) ==
  LET decoded == decode_and_expand(s, 0)
  IN PresplitHits(s)
     \cup (IF decoded # <<>> THEN scan_legs(split_compound(decoded), 1, c) ELSE {})
     \cup scan_legs(resolve_assignments(split_compound(s)), 0, c)
     \cup (IF ifs THEN ifs_resplit_block(s, c) ELSE {})

Skipped(s, c) == c.disable \/ s \in c.allow

\* the severity the verdict is built from, -1 for none
GateSeverity(s, c) ==
  IF Skipped(s, c) THEN -1
  ELSE IF c.normalize THEN LET n == normalize_command(s) IN Worst(Considered(n.command, n.ifs, c))
  ELSE Worst(Considered(s, FALSE, c))

evaluate(s, c) == severity_to_tier(GateSeverity(s, c), c.thresholds)
--------------------------------------------------------------------------------
\* Commands typed token by token and judged by the gate after every token,
\* under several configurations.

CONSTANTS
  Tokens,         \* the tokens a command is typed from
  MaxCommand,     \* the longest command typed, in tokens
  Configs         \* the configurations considered

VARIABLES cgCommand, cgConfig
cgVars == <<cgCommand, cgConfig>>

cgInit == cgCommand = <<>> /\ cgConfig \in Configs

cgType == /\ Len(cgCommand) < MaxCommand
          /\ \E t \in Tokens : cgCommand' = Append(cgCommand, t)
          /\ UNCHANGED cgConfig

cgNext == cgType
cgSpec == cgInit /\ [][cgNext]_cgVars

Marks == {";", "|", ")", "bt", "bomb"} \cup Opens
WordsOf(s) == SelectSeq(s, LAMBDA t : t \notin Marks)

\* The splitter moves every word and quote of a command into exactly one
\* leg, in the order of the command: nothing typed escapes the rules because
\* a substitution, an unclosed quote or an escape made the splitter drop it
\* or read it twice (split_compound, extract_paren_body, push_leg).
SplitLosesNothing ==
  \/ "esc" \in Range(cgCommand)                 \* an escaped mark stays in its leg
  \/ LET legs == split_compound(cgCommand)
     IN WordsOf(FlattenSeq(legs)) = WordsOf(cgCommand)

\* A command in which every quote and substitution is closed
Complete(s) == /\ OpenQuote(s) = ""
               /\ "esc" \notin Range(s)
               /\ Cardinality({i \in DOMAIN s : s[i] \in Opens}) = Cardinality({i \in DOMAIN s : s[i] = ")"})
               /\ Cardinality({i \in DOMAIN s : s[i] = "bt"}) % 2 = 0

\* A destructive leg is not redeemed by what comes after it: appending an
\* innocent leg to a complete command never lowers its tier, whatever the
\* normalisation, the decoding and the assignments made of the longer text
\* (evaluate; the budget of rewrites is spent from the left).
MoreIsNotLess ==
  ~Skipped(cgCommand, cgConfig) /\ Complete(cgCommand) =>
    evaluate(cgCommand \o <<";", "ls">>, cgConfig) >= evaluate(cgCommand, cgConfig)
--------------------------------------------------------------------------------
\* The two wildcard matchers, character by character: pattern_matches for
\* rules and custom blocks, glob_match for the allow-list, against the
\* language a pattern denotes.

CONSTANTS Letters, MaxPattern, MaxText

\* positions at which part occurs in text at or after the offset from (0-based)
Occurrences(part, text, from) ==
  {p \in from..(Len(text) - Len(part)) : SubSeq(text, p + 1, p + Len(part)) = part}

HasPart(text, part) == Occurrences(part, text, 0) # {}

\* the non-empty pieces between the stars
RECURSIVE Pieces(_, _)
Pieces(pattern, cur) ==
  LET flushed == IF cur = <<>> THEN <<>> ELSE <<cur>>
  IN IF pattern = <<>> THEN flushed
     ELSE IF Head(pattern) = "*" THEN flushed \o Pieces(Tail(pattern), <<>>)
     ELSE Pieces(Tail(pattern), Append(cur, Head(pattern)))

\* where a left-to-right search that takes the first occurrence of each piece
\* ends, -1 if a piece is missing
Cursor(parts, text) ==
  FoldLeft(LAMBDA c, part : IF c < 0 \/ Occurrences(part, text, c) = {} THEN -1
                            ELSE Min(Occurrences(part, text, c)) + Len(part), 0, parts)

pattern_matches(pattern, value) ==
  IF pattern = <<>> THEN FALSE
  ELSE IF "*" \notin Range(pattern) THEN HasPart(value, pattern)
  ELSE IF Pieces(pattern, <<>>) = <<>> THEN value # <<>>
  ELSE Cursor(Pieces(pattern, <<>>), value) >= 0

glob_match(pattern, text) ==
  LET parts == Pieces(pattern, <<>>)
      end == Cursor(parts, text)
  IN IF "*" \notin Range(pattern) THEN HasPart(text, pattern)
     ELSE \/ parts = <<>>
          \/ /\ end >= 0
             /\ Head(pattern) # "*" => Min(Occurrences(parts[1], text, 0)) = 0
             /\ Last(pattern) # "*" => end = Len(text)

VARIABLES mtPattern, mtText
mtVars == <<mtPattern, mtText>>
mtInit == mtPattern = <<>> /\ mtText = <<>>
mtTypePattern == /\ Len(mtPattern) < MaxPattern /\ mtText = <<>>
                 /\ \E c \in Letters \cup {"*"} : mtPattern' = Append(mtPattern, c)
                 /\ UNCHANGED mtText
mtTypeText == /\ Len(mtText) < MaxText
              /\ \E c \in Letters : mtText' = Append(mtText, c)
              /\ UNCHANGED mtPattern
mtNext == mtTypePattern \/ mtTypeText
mtSpec == mtInit /\ [][mtNext]_mtVars

\* the texts a pattern stands for when it must match from end to end
RECURSIVE Denotes(_, _)
Denotes(p, t) ==
  IF p = <<>> THEN t = <<>>
  ELSE IF Head(p) = "*" THEN \E i \in 0..Len(t) : Denotes(Tail(p), SubSeq(t, i + 1, Len(t)))
  ELSE t # <<>> /\ Head(t) = Head(p) /\ Denotes(Tail(p), Tail(t))

\* Taking the first occurrence of every piece is enough for the unanchored
\* matcher: it accepts exactly the texts that contain the pattern somewhere;
\* and the anchored one never lets a text through the allow-list that its
\* pattern does not stand for.
MatchersAreSound ==
  /\ mtPattern # <<>> /\ mtText # <<>> =>
       (pattern_matches(mtPattern, mtText) <=> Denotes(<<"*">> \o mtPattern \o <<"*">>, mtText))
  /\ "*" \in Range(mtPattern) /\ glob_match(mtPattern, mtText) => Denotes(mtPattern, mtText)
================================================================================
