----------------------------- MODULE Watermark ------------------------------
(***************************************************************************)
(* The watermark providers of tl-watermark and the control plane's port of *)
(* the Kirchenbauer text watermark: green lists, the z-test, the offline   *)
(* embedder, the sampling hook, and the C2PA adapter, which hands its      *)
(* input to a sandboxed tool through two temporary files.                  *)
(***************************************************************************)
EXTENDS Naturals, Sequences, FiniteSets, FiniteSetsExt

CONSTANTS
  Vocab,       \* vocabulary size
  Word,        \* 2^32 in the Rust code: the modulus of u32
  Step,        \* 0x9E3779B1, the stride of the green list
  MaxTokens,   \* longest token sequence
  Threads      \* callers of C2paWatermark::apply in one process

VARIABLES
  text,      \* the token ids being marked and tested, and what was done to them
  files,     \* tl-c2pa-in-<pid>.bin and tl-c2pa-out-<pid>.bin
  callers    \* the callers of C2paWatermark::apply

wmVars == <<text, files, callers>>

Absent == "absent"
Tokens == 0 .. Vocab - 1

----------------------------------------------------------------------------
(* The text watermark.  gamma is 1/4 and the threshold of z is 4.          *)

\* The digest of key and position is a function of both; the model takes the
\* key as the offset of a sequence of seeds below 2^32.
Seed(key, pos) == (key + 5 * pos) % Word

GreenSize(vocab) == Max({1, vocab \div 4})

\* _green_list_for_position of the control plane: unbounded integers.
PyGreenList(key, pos, vocab) ==
  IF vocab <= 0 THEN {}
  ELSE {(Seed(key, pos) + i * Step) % vocab : i \in 0 .. GreenSize(vocab) - 1}

\* green_list_for_position of the crate: u32, wrapping before the modulus.
green_list_for_position(key, pos, vocab) ==
  {((Seed(key, pos) + ((i * Step) % Word)) % Word) % Max({1, vocab}) :
     i \in 0 .. GreenSize(vocab) - 1}

GreenCount(toks, green) ==
  Cardinality({p \in DOMAIN toks : toks[p] \in green[p]})

\* z > 4 for z = (green - t/4) / sqrt(3t/16), without the square root.
ZTest(green, t) == 4 * green > t /\ (4 * green - t) * (4 * green - t) > 48 * t

\* The empty sequence is answered before the test.
kirchenbauer_detect(toks, vocab, key) ==
  LET green == [p \in DOMAIN toks |-> PyGreenList(key, p - 1, vocab)]
  IN toks # <<>> /\ ZTest(GreenCount(toks, green), Len(toks))

detect_tokens(toks, vocab, key) ==
  LET green == [p \in DOMAIN toks |-> green_list_for_position(key, p - 1, vocab)]
  IN toks # <<>> /\ ZTest(GreenCount(toks, green), Len(toks))

\* The piecewise confidence of the crate, by the floor of |z| (clipped to
\* six) and its sign, in units of 1/100000.
confidence(green, t) ==
  LET d == IF 4 * green >= t THEN 4 * green - t ELSE t - 4 * green
      z == Max({k \in 0..6 : d * d >= k * k * 3 * t})
      c == CASE z >= 6 -> 100000 [] z \in {4, 5} -> 99997 [] z = 3 -> 99865
             [] z = 2 -> 97725 [] z = 1 -> 84134 [] z = 0 -> 50000
  IN IF 4 * green >= t THEN c ELSE 100000 - c

\* Every token that is not green becomes the least green one.
kirchenbauer_embed_tokens(toks, vocab, key) ==
  [p \in DOMAIN toks |->
     LET green == PyGreenList(key, p - 1, vocab)
     IN IF toks[p] \in green THEN toks[p] ELSE Min(green)]

\* The sampling hook adds delta to the logits of the green tokens: a sampler
\* that takes the largest takes a green token wherever the lead of the red
\* ones is below delta.
kirchenbauer_bias_logits(logits, pos, key, delta) ==
  [i \in DOMAIN logits |->
     IF i \in PyGreenList(key, pos, Cardinality(DOMAIN logits))
     THEN logits[i] + delta ELSE logits[i]]

\* The watermark layer of the four-layer assessment.
detect_or_not_applicable(hasText, hasTokens, detected) ==
  IF ~hasText /\ ~hasTokens THEN "NotApplicable"
  ELSE IF ~hasTokens THEN "NotImplemented"
  ELSE IF detected THEN "Compliant" ELSE "Partial"

Extend(t) ==
  /\ text.done = "plain" /\ Len(text.toks) < MaxTokens
  /\ text' = [text EXCEPT !.toks = Append(@, t)]
  /\ UNCHANGED <<files, callers>>

Sample(i) ==
  /\ text.done \in {"plain", "sampled"} /\ Len(text.toks) < MaxTokens
  /\ text.done = "sampled" \/ text.toks = <<>>
  /\ LET flat == [j \in Tokens |-> IF j = i THEN 1 ELSE 0]
         biased == kirchenbauer_bias_logits(flat, Len(text.toks), text.key, 2)
     IN \E t \in {j \in Tokens : \A k \in Tokens : biased[k] <= biased[j]} :
          text' = [text EXCEPT !.toks = Append(@, t), !.done = "sampled"]
  /\ UNCHANGED <<files, callers>>

Embed ==
  /\ text.done = "plain"
  /\ text' = [text EXCEPT !.done = "embedded",
                !.toks = kirchenbauer_embed_tokens(@, Vocab, text.key)]
  /\ UNCHANGED <<files, callers>>

Detect ==
  /\ text' = [text EXCEPT
       !.verdict = detect_or_not_applicable(FALSE, TRUE,
                     kirchenbauer_detect(text.toks, Vocab, text.key))]
  /\ UNCHANGED <<files, callers>>

\* The crate's detector, on the same tokens and key.
DetectTokenSequence ==
  /\ LET green == [p \in DOMAIN text.toks |-> green_list_for_position(text.key, p - 1, Vocab)]
     IN text' = [text EXCEPT
          !.verdict = IF detect_tokens(text.toks, Vocab, text.key)
                      THEN "detected" ELSE "absent",
          !.confidence = IF text.toks = <<>> THEN 50000
                         ELSE confidence(GreenCount(text.toks, green), Len(text.toks))]
  /\ UNCHANGED <<files, callers>>

----------------------------------------------------------------------------
(* C2paWatermark::apply.  A thread checks its sandbox, its tool and its    *)
(* input, writes the input file, runs the tool, reads the output file and  *)
(* removes both.  The names hold the process id and nothing of the call.   *)

\* A file is known by the call whose input it is, or is the marked copy of.
Torn == "torn"          \* a file that was created and not filled
NoFiles == [in |-> Absent, out |-> Absent]

Working(t) == callers[t].pc \in {"create", "write", "run", "read", "remove"}

\* alone is a history variable: no other call was under way since this one began.
C2paBegin(t, ready) ==
  /\ callers[t].pc = "idle"
  /\ callers' = IF ready
       THEN [u \in Threads |->
               IF u = t THEN [pc |-> "create", alone |-> \A v \in Threads : ~Working(v)]
               ELSE IF Working(u) THEN [callers[u] EXCEPT !.alone = FALSE]
               ELSE callers[u]]
       ELSE [callers EXCEPT ![t] = [pc |-> "error"]]
  /\ UNCHANGED <<text, files>>

\* fs::write creates or truncates the file and then fills it; the second may
\* fail, and leaves the file.
C2paCreate(t) ==
  /\ callers[t].pc = "create"
  /\ files' = [files EXCEPT !.in = Torn]
  /\ callers' = [callers EXCEPT ![t].pc = "write"]
  /\ UNCHANGED text

C2paWrite(t, written) ==
  /\ callers[t].pc = "write"
  /\ files' = IF written THEN [files EXCEPT !.in = t] ELSE files
  /\ callers' = [callers EXCEPT ![t].pc = IF written THEN "run" ELSE "error"]
  /\ UNCHANGED text

\* The tool writes the output from the input file as it is when it runs.  It may
\* fail to start, find no input it can read, or give up with its output begun.
ToolOutcomes ==
  {[ok |-> FALSE, out |-> files.out], [ok |-> FALSE, out |-> Torn]}
  \cup IF files.in \in Threads THEN {[ok |-> TRUE, out |-> files.in]} ELSE {}

\* Mutant of C2paRun: the status of the tool is not looked at.
C2paRunUnchecked(t) ==
  /\ callers[t].pc = "run"
  /\ \E o \in ToolOutcomes :
       /\ files' = [files EXCEPT !.out = o.out]
       /\ callers' = [callers EXCEPT ![t].pc = "read"]
  /\ UNCHANGED text

\* If the tool failed, the call removes the input, leaves the output and fails.
C2paRun(t) ==
  /\ callers[t].pc = "run"
  /\ \E o \in ToolOutcomes :
       /\ files' = [in |-> IF o.ok THEN files.in ELSE Absent, out |-> o.out]
       /\ callers' = [callers EXCEPT ![t].pc = IF o.ok THEN "read" ELSE "error"]
  /\ UNCHANGED text

C2paRead(t) ==
  /\ callers[t].pc = "read"
  /\ callers' = [callers EXCEPT ![t] =
       IF files.out = Absent THEN [pc |-> "error"]
       ELSE [pc |-> "remove", alone |-> @.alone, bytes |-> files.out]]
  /\ UNCHANGED <<text, files>>

C2paRemove(t) ==
  /\ callers[t].pc = "remove"
  /\ files' = NoFiles
  /\ callers' = [callers EXCEPT ![t].pc = "applied"]
  /\ UNCHANGED text

----------------------------------------------------------------------------

wmInit ==
  /\ text \in [toks : {<<>>}, done : {"plain"}, key : 0..1, verdict : {"none"},
               confidence : {0}]
  /\ files = NoFiles
  /\ callers = [t \in Threads |-> [pc |-> "idle"]]

TextNext ==
  /\ text.verdict = "none"
  /\ \A t \in Threads : callers[t].pc = "idle"
  /\ (\E t \in Tokens : Extend(t)) \/ (\E i \in Tokens : Sample(i)) \/ Embed \/ Detect
     \/ DetectTokenSequence

C2paNext ==
  /\ text.toks = <<>>
  /\ \E t \in Threads :
       \/ \E b \in BOOLEAN : C2paBegin(t, b) \/ C2paWrite(t, b)
       \/ C2paCreate(t) \/ C2paRun(t) \/ C2paRead(t) \/ C2paRemove(t)

\* The two parts share nothing; they are explored one at a time.
wmNext == TextNext \/ C2paNext

wmSpec == wmInit /\ [][wmNext]_wmVars

----------------------------------------------------------------------------
(* Properties.                                                             *)

\* The embedder and the detector of the control plane meet: an embedded text
\* is found if and only if it has six tokens or more, whatever the text was.  Below
\* six even an all-green text does not pass z > 4.
EmbeddedIsDetectedFromSix ==
  text.done = "embedded" /\ text.verdict \in {"Compliant", "Partial"} =>
    (text.verdict = "Compliant" <=> Len(text.toks) >= 6)

\* A C2PA call that no other call of the process overlapped answers with its own
\* input, marked, whatever the calls before it left in the two files.  One that was
\* overlapped may answer with another's.
LoneCallMarksItsInput ==
  \A t \in Threads :
    callers[t].pc = "applied" /\ callers[t].alone => callers[t].bytes = t

\* What was marked is found by the detector that goes with the marker, and what
\* comes back from the C2PA tool is what went in.
MarksAreFound == EmbeddedIsDetectedFromSix /\ LoneCallMarksItsInput
=============================================================================
