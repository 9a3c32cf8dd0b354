------------------------------- MODULE Sandbox -------------------------------
(***************************************************************************)
(* The Linux sandbox of apohara-agentguard (sandbox/): the parent forks a *)
(* middle process that enters new namespaces, which forks the grandchild  *)
(* that confines itself step by step and then executes the command.  Any  *)
(* step of the setup may fail, and any process may be killed.             *)
(***************************************************************************)
EXTENDS Integers, Sequences, FiniteSets, SequencesExt, TLAPS

CONSTANTS
  Requests,       \* [tier, argv: "ok" | "empty" | "nul", root: a path]
  Links,          \* [path -> target]: the symbolic links of the file system
  MaxHops         \* MAX_SYMLINK_HOPS (40 in the code)

(********************* pathsafe: resolving the workspace *******************)
\* A path is a sequence of segments below "/"; a link's target is
\* [abs, segs], and ".." may occur in it.
Resolve[pending \in Seq(STRING), resolved \in Seq(STRING), hops \in Nat] ==
  IF pending = <<>> THEN [ok |-> TRUE, path |-> resolved]
  ELSE LET seg == Head(pending)
           candidate == Append(resolved, seg)
           target == Links[candidate]
       IN IF seg = ".." THEN Resolve[Tail(pending), IF resolved = <<>> THEN <<>> ELSE Front(resolved), hops]
          ELSE IF candidate \notin DOMAIN Links THEN Resolve[Tail(pending), candidate, hops]
          ELSE IF hops + 1 > MaxHops THEN [ok |-> FALSE, path |-> <<>>]
          ELSE Resolve[target.segs \o Tail(pending), IF target.abs THEN <<>> ELSE resolved, hops + 1]

canonicalize_recursive(path) == Resolve[path, <<>>, 0]
is_strict_descendant(child, root) == child # root /\ IsPrefix(root, child)

\* run_linux passes the workspace root as its own workdir
validate_workdir(workdir, root) ==
  LET r == canonicalize_recursive(root)
      w == canonicalize_recursive(workdir)
  IN IF r.ok /\ w.ok /\ (w.path = r.path \/ is_strict_descendant(w.path, r.path)) THEN w ELSE [ok |-> FALSE, path |-> <<>>]

(******************** the seccomp filter (syscalls, profile) ***************)
READONLY_PURE_ALLOW ==
  {"read", "pread64", "readv", "preadv2", "write", "pwrite64", "writev", "pwritev2",
   "close", "dup", "dup2", "dup3", "lseek", "fcntl", "mmap", "munmap", "mremap", "brk", "mprotect", "madvise",
   "getpid", "getppid", "gettid", "getuid", "geteuid", "getgid", "getegid", "getcwd", "getpgrp", "getpgid",
   "setpgid", "getsid", "setsid", "prlimit64", "getrlimit", "sched_getaffinity", "tgkill",
   "execve", "execveat", "wait4", "waitid",
   "rt_sigprocmask", "rt_sigaction", "rt_sigreturn", "rt_sigtimedwait", "sigaltstack",
   "clock_gettime", "gettimeofday", "nanosleep", "clock_nanosleep", "restart_syscall", "getrandom",
   "prctl", "arch_prctl", "rseq", "set_tid_address", "set_robust_list", "futex", "futex_waitv", "sched_yield",
   "poll", "ppoll", "epoll_create1", "epoll_ctl", "epoll_wait", "epoll_pwait", "epoll_pwait2", "eventfd2",
   "exit", "exit_group", "stat", "lstat", "fstat", "newfstatat", "statx", "access", "faccessat", "faccessat2",
   "readlink", "readlinkat", "fstatfs", "statfs", "uname"}

WORKSPACE_WRITE_ADDITIONS_PURE_ALLOW ==
  {"clone3", "creat", "open", "openat", "mkdir", "mkdirat", "unlink", "unlinkat", "rmdir",
   "rename", "renameat", "renameat2", "link", "linkat", "symlink", "symlinkat", "ftruncate", "truncate",
   "fchmod", "fchmodat", "chmod", "utimensat", "umask", "pipe2", "pipe", "chdir", "fchdir",
   "getdents64", "getdents", "copy_file_range", "sendfile", "fchown", "fchownat", "lchown", "chown",
   "fallocate", "fsync", "fdatasync", "sync_file_range", "flock", "membarrier",
   "socketpair", "recvfrom", "recvmsg", "sendmsg", "sendto"}

pure_allow_for(tier) ==
  CASE tier = "read_only" -> READONLY_PURE_ALLOW
    [] tier = "workspace_write" -> READONLY_PURE_ALLOW \cup WORKSPACE_WRITE_ADDITIONS_PURE_ALLOW
    [] OTHER -> {}

\* the calls that are allowed with some arguments only
conditional_for(tier) ==
  CASE tier = "read_only" -> {"openat", "open"}
    [] tier = "workspace_write" -> {"openat", "open", "fcntl", "ioctl", "clone"}
    [] OTHER -> {}

conditional_rules(tier, call) ==
  CASE call \in {"openat", "open"} -> IF tier = "read_only" THEN {"rdonly"} ELSE {"rdonly", "write"}
    [] call = "fcntl" -> {"getfl", "setfl", "getfd", "setfd", "dupfd", "dupfd_cloexec"}
    [] call = "ioctl" -> {"tiocgwinsz", "fioclex", "fionclex", "fionbio", "fionread"}
    [] call = "clone" -> {"no_namespace"}

\* build_json_spec: a conditional rule replaces the pure one
Permitted(tier, call, arg) ==
  \/ tier = "danger_full_access"
  \/ call \in conditional_for(tier) /\ arg \in conditional_rules(tier, call)
  \/ call \in pure_allow_for(tier) \ conditional_for(tier)

(***************************** the process tree ****************************)
VARIABLES
  sbReq,          \* the request
  sbParent,       \* "prepare" "drain" "wait" "done"
  sbMiddle,       \* "none" "namespaces" "fork" "wait" or "dead"
  sbGrand,        \* "none", a setup step, "running" or "dead"
  sbConfined,     \* what confines the grandchild so far
  sbReport,       \* what was written to the setup pipe: "none" "message" "errno"
  sbExit,         \* [middle |-> code, grand |-> code], -1 while alive; codes above 128 are signals
  sbRan,          \* the command was executed
  sbOpened,       \* how the command has opened files: "rdonly", "write"
  sbResult        \* [code, violations], code = -1 before the end, "refused" as a violation for Err

sbVars == <<sbReq, sbParent, sbMiddle, sbGrand, sbConfined, sbReport, sbExit, sbRan, sbOpened, sbResult>>

\* the steps of run_grandchild and the exit code of each failure
GrandSteps == <<"stdout", "stderr", "chdir", "nnp", "landlock", "seccomp", "exec">>
FailCode == [stdout |-> 80, stderr |-> 81, chdir |-> 82, nnp |-> 84, landlock |-> 85, seccomp |-> 86, exec |-> 126]
AfterStep(s) == IF s = "exec" THEN "running" ELSE GrandSteps[1 + CHOOSE i \in DOMAIN GrandSteps : GrandSteps[i] = s]

sbInit == /\ sbReq \in Requests
          /\ sbParent = "prepare" /\ sbMiddle = "none" /\ sbGrand = "none"
          /\ sbConfined = {} /\ sbReport = "none" /\ sbExit = [middle |-> -1, grand |-> -1]
          /\ sbRan = FALSE /\ sbOpened = {} /\ sbResult = [code |-> -1, violations |-> {}]

\* run_linux up to the first fork
Prepare ==
  /\ sbParent = "prepare"
  /\ IF sbReq.argv # "ok" \/ ~validate_workdir(sbReq.root, sbReq.root).ok
     THEN sbParent' = "done" /\ sbResult' = [code |-> 70, violations |-> {"refused"}] /\ UNCHANGED sbMiddle
     ELSE sbParent' = "drain" /\ sbMiddle' = "namespaces" /\ UNCHANGED sbResult
  /\ UNCHANGED <<sbReq, sbGrand, sbConfined, sbReport, sbExit, sbRan, sbOpened>>

Die(who, code) == sbExit' = [sbExit EXCEPT ![who] = code]

\* enter_isolated_namespaces
EnterNamespaces ==
  /\ sbMiddle = "namespaces"
  /\ \/ sbMiddle' = "fork" /\ sbConfined' = sbConfined \cup {"namespaces"} /\ UNCHANGED <<sbReport, sbExit>>
     \/ sbMiddle' = "dead" /\ sbReport' = "message" /\ Die("middle", 70) /\ UNCHANGED sbConfined
  /\ UNCHANGED <<sbReq, sbParent, sbGrand, sbRan, sbOpened, sbResult>>

InnerFork ==
  /\ sbMiddle = "fork"
  /\ \/ sbMiddle' = "wait" /\ sbGrand' = "stdout" /\ UNCHANGED <<sbReport, sbExit>>
     \/ sbMiddle' = "dead" /\ sbReport' = "message" /\ Die("middle", 71) /\ UNCHANGED sbGrand
  /\ UNCHANGED <<sbReq, sbParent, sbConfined, sbRan, sbOpened, sbResult>>

\* what a step that succeeds puts in force; the last tier installs neither
Puts(step) == IF step = "nnp" \/ (step \in {"landlock", "seccomp"} /\ sbReq.tier # "danger_full_access")
              THEN {step} ELSE {}

\* A step may only fail for a reason of the kernel; landlock refuses without
\* no_new_privs, and once the filter is in force landlock calls are denied.
CanSucceed(step) ==
  step = "landlock" /\ sbReq.tier # "danger_full_access"
    => "nnp" \in sbConfined /\ "seccomp" \notin sbConfined

\* Mutant of GrandStep: a ruleset that cannot be applied is done without.
GrandStepBestEffort ==
  /\ sbGrand \in Range(GrandSteps)
  /\ \/ /\ CanSucceed(sbGrand)
        /\ sbGrand' = AfterStep(sbGrand)
        /\ sbConfined' = sbConfined \cup Puts(sbGrand)
        /\ sbRan' = (sbRan \/ sbGrand = "exec")
        /\ UNCHANGED <<sbReport, sbExit>>
     \/ /\ sbGrand = "landlock"
        /\ sbGrand' = AfterStep(sbGrand)
        /\ UNCHANGED <<sbConfined, sbRan, sbReport, sbExit>>
  /\ UNCHANGED <<sbReq, sbParent, sbMiddle, sbOpened, sbResult>>

GrandStep ==
  /\ sbGrand \in Range(GrandSteps)
  /\ \/ /\ CanSucceed(sbGrand)
        /\ sbGrand' = AfterStep(sbGrand)
        /\ sbConfined' = sbConfined \cup Puts(sbGrand)
        /\ sbRan' = (sbRan \/ sbGrand = "exec")
        /\ UNCHANGED <<sbReport, sbExit>>
     \/ /\ sbGrand' = "dead"
        /\ sbReport' = IF sbGrand = "exec" THEN "errno" ELSE "message"
        /\ Die("grand", FailCode[sbGrand])
        /\ UNCHANGED <<sbConfined, sbRan>>
  /\ UNCHANGED <<sbReq, sbParent, sbMiddle, sbOpened, sbResult>>

\* the command opens a file, if the filter lets the call through
CommandOpens ==
  /\ sbGrand = "running"
  /\ \E arg \in {"rdonly", "write"} :
       /\ "seccomp" \in sbConfined => Permitted(sbReq.tier, "openat", arg)
       /\ sbOpened' = sbOpened \cup {arg}
  /\ UNCHANGED <<sbReq, sbParent, sbMiddle, sbGrand, sbConfined, sbReport, sbExit, sbRan, sbResult>>

\* the command ends by itself
CommandEnds ==
  /\ sbGrand = "running"
  /\ sbGrand' = "dead" /\ \E c \in {0, 1} : Die("grand", c)
  /\ UNCHANGED <<sbReq, sbParent, sbMiddle, sbConfined, sbReport, sbRan, sbOpened, sbResult>>

\* a signal ends the grandchild or the middle process; the grandchild is the
\* first process of its namespace, but outlives the middle one
Killed ==
  \/ /\ sbGrand \notin {"none", "dead"}
     /\ sbGrand' = "dead" /\ Die("grand", 137)
     /\ UNCHANGED <<sbReq, sbParent, sbMiddle, sbConfined, sbReport, sbRan, sbOpened, sbResult>>
  \/ /\ sbMiddle \notin {"none", "dead"}
     /\ sbMiddle' = "dead" /\ Die("middle", 137)
     /\ UNCHANGED <<sbReq, sbParent, sbGrand, sbConfined, sbReport, sbRan, sbOpened, sbResult>>

\* the middle process passes the grandchild's status on as an exit code
PassedOn(status) == status + 1000

Pass ==
  /\ sbMiddle = "wait" /\ sbGrand = "dead"
  /\ sbMiddle' = "dead" /\ Die("middle", PassedOn(sbExit.grand))
  /\ UNCHANGED <<sbReq, sbParent, sbGrand, sbConfined, sbReport, sbRan, sbOpened, sbResult>>

\* Mutant of HoldsOutput: the parent keeps the write ends it should close.
HoldsOutputItself == sbParent = "drain"

\* The parent reads both outputs to their end, then the setup pipe: every
\* process that holds a write end is gone, or has executed the command
HoldsOutput == sbMiddle \in {"namespaces", "fork"} \/ sbGrand \notin {"none", "dead"}

Drained ==
  /\ sbParent = "drain" /\ ~HoldsOutput
  /\ sbParent' = "wait"
  /\ UNCHANGED <<sbReq, sbMiddle, sbGrand, sbConfined, sbReport, sbExit, sbRan, sbOpened, sbResult>>

\* waitpid and summarize.  A status of 1000 and more is an exit code the
\* middle process chose; a signal is seen only when it hit the middle process.
summarize(code, report) ==
  [code |-> IF code >= 1000 THEN code - 1000 ELSE code,
   violations |-> (CASE report = "errno" -> {"execve_failed"} [] report = "message" -> {"setup_failed"} [] OTHER -> {})
                  \cup (IF code \in 129..999 THEN {"killed_by_signal"} ELSE {})]

Finish ==
  /\ sbParent = "wait" /\ sbMiddle = "dead"
  /\ sbParent' = "done" /\ sbResult' = summarize(sbExit.middle, sbReport)
  /\ UNCHANGED <<sbReq, sbMiddle, sbGrand, sbConfined, sbReport, sbExit, sbRan, sbOpened>>

sbNext == Prepare \/ EnterNamespaces \/ InnerFork \/ GrandStep \/ CommandOpens \/ CommandEnds \/ Killed \/ Pass \/ Drained \/ Finish

sbSpec == sbInit /\ [][sbNext]_sbVars

\* the kernel runs every process that can run; the command is taken to end
sbFairness ==
  WF_sbVars(EnterNamespaces \/ InnerFork \/ GrandStep \/ CommandEnds \/ Pass \/ Drained \/ Finish)

(******************************** properties *******************************)
\* The command is executed only in its namespaces and, below
\* danger_full_access, under no_new_privs, Landlock and seccomp together:
\* no failure of one setup step lets the run go on without it.
RunsConfined ==
  sbRan => (IF sbReq.tier = "danger_full_access" THEN {"namespaces", "nnp"}
            ELSE {"namespaces", "nnp", "landlock", "seccomp"}) \subseteq sbConfined

\* A run that returns without the command having been executed and without a
\* signal says why, and one whose command was executed reports no setup
\* failure.
RefusalIsTold ==
  sbParent = "done" =>
    /\ sbRan => sbResult.violations \cap {"refused", "setup_failed", "execve_failed"} = {}
    /\ ~sbRan /\ sbResult.code # 137 => sbResult.violations # {}

\* A command of the read-only tier never holds a file open for writing,
\* although the filter is installed late and by the process itself.
OnlyReads == sbReq.tier = "read_only" => "write" \notin sbOpened

\* A sandboxed command runs under every restriction of its tier or is told
\* to have been refused.
RunsAreConfined == RunsConfined /\ RefusalIsTold /\ OnlyReads

\* The parent never waits for ever on the pipes or on its child: once the
\* command ends the run returns, whichever process fails or is killed.
EveryRunReturns == sbParent = "drain" ~> sbParent = "done"
-----------------------------------------------------------------------------
(* Confinement is proved for any requests, links and bound on hops.  The   *)
(* order of the setup steps does the work: each stage of the grandchild    *)
(* vouches for what the stages before it put in force.                     *)

Restricted == sbReq.tier # "danger_full_access"

sbTypeOK ==
  /\ sbParent \in {"prepare", "drain", "wait", "done"}
  /\ sbMiddle \in {"none", "namespaces", "fork", "wait", "dead"}
  /\ sbGrand \in {"none", "stdout", "stderr", "chdir", "nnp", "landlock", "seccomp", "exec",
                  "running", "dead"}
  /\ sbReport \in {"none", "message", "errno"}
  /\ sbExit \in [middle : Int, grand : Int]
  /\ sbRan \in BOOLEAN
  /\ DOMAIN sbResult = {"code", "violations"}

\* What is in force when the grandchild has come to a step.
StagesConfine ==
  /\ sbMiddle \in {"fork", "wait"} \/ sbGrand # "none" => "namespaces" \in sbConfined
  /\ sbGrand \in {"landlock", "seccomp", "exec", "running"} => "nnp" \in sbConfined
  /\ sbGrand \in {"seccomp", "exec", "running"} /\ Restricted => "landlock" \in sbConfined
  /\ sbGrand \in {"exec", "running"} /\ Restricted => "seccomp" \in sbConfined

\* The processes come in order, and only the last of them executes the
\* command, after which nobody reports a failure of the setup.
ProcessesInOrder ==
  /\ sbParent = "prepare" => sbMiddle = "none"
  /\ sbParent = "drain" => sbMiddle # "none"
  /\ sbMiddle \in {"none", "namespaces", "fork"} => sbGrand = "none" /\ sbReport = "none"
  /\ sbMiddle = "wait" => sbGrand # "none"
  /\ sbRan => sbGrand \in {"running", "dead"} /\ sbReport = "none"
  /\ sbGrand = "running" => sbRan
  /\ sbGrand \notin {"none", "dead"} => sbReport = "none"
  /\ sbParent = "wait" => sbMiddle \in {"wait", "dead"} /\ sbGrand \in {"none", "dead"}

\* A process that has ended either left its reason in the setup pipe, ended
\* with the command, or was killed.
ExitsAreExplained ==
  /\ sbGrand = "dead" =>
       \/ sbExit.grand = 137
       \/ sbReport # "none"
       \/ sbRan /\ sbExit.grand \in {0, 1}
  /\ sbMiddle = "dead" =>
       \/ sbExit.middle \in {70, 71} /\ sbReport = "message"
       \/ sbExit.middle = 137
       \/ sbGrand = "dead" /\ sbExit.middle = PassedOn(sbExit.grand)

\* What the parent returned.
ResultIsSettled ==
  sbParent = "done" =>
    \/ sbMiddle = "none" /\ sbResult = [code |-> 70, violations |-> {"refused"}]
    \/ sbMiddle = "dead" /\ sbGrand \in {"none", "dead"} /\ RefusalIsTold

sbInv == /\ sbTypeOK /\ StagesConfine /\ RunsConfined /\ ProcessesInOrder
         /\ ExitsAreExplained /\ ResultIsSettled /\ OnlyReads

\* The steps, as a set and in their order.
LEMMA StepsInOrder ==
  /\ Range(GrandSteps) = {"stdout", "stderr", "chdir", "nnp", "landlock", "seccomp", "exec"}
  /\ AfterStep("stdout") = "stderr" /\ AfterStep("stderr") = "chdir" /\ AfterStep("chdir") = "nnp"
  /\ AfterStep("nnp") = "landlock" /\ AfterStep("landlock") = "seccomp"
  /\ AfterStep("seccomp") = "exec" /\ AfterStep("exec") = "running"
<1>1. /\ DOMAIN GrandSteps = 1..7
      /\ GrandSteps[1] = "stdout" /\ GrandSteps[2] = "stderr" /\ GrandSteps[3] = "chdir"
      /\ GrandSteps[4] = "nnp" /\ GrandSteps[5] = "landlock" /\ GrandSteps[6] = "seccomp"
      /\ GrandSteps[7] = "exec"
  BY DEF GrandSteps
<1>2. \A i \in 1..7 : i = 1 \/ i = 2 \/ i = 3 \/ i = 4 \/ i = 5 \/ i = 6 \/ i = 7
  OBVIOUS
<1>3. Range(GrandSteps) = {GrandSteps[i] : i \in 1..7}
  BY <1>1 DEF Range
<1>4. Range(GrandSteps) = {"stdout", "stderr", "chdir", "nnp", "landlock", "seccomp", "exec"}
  BY <1>1, <1>2, <1>3
<1> HIDE DEF GrandSteps
<1>5. ASSUME NEW k \in 1..6
      PROVE  AfterStep(GrandSteps[k]) = GrandSteps[k + 1]
  <2> DEFINE j == CHOOSE i \in DOMAIN GrandSteps : GrandSteps[i] = GrandSteps[k]
  <2>1. j \in DOMAIN GrandSteps /\ GrandSteps[j] = GrandSteps[k]
    BY <1>1
  <2>2. j = k
    <3> HIDE DEF j
    <3> QED
      BY <1>1, <1>2, <2>1, <1>5
  <2>3. GrandSteps[k] # "exec"
    BY <1>1, <1>2, <1>5
  <2>4. AfterStep(GrandSteps[k]) = GrandSteps[1 + j]
    BY <2>3, Zenon DEF AfterStep
  <2> HIDE DEF j
  <2> QED
    BY <2>2, <2>4
<1>6. AfterStep("exec") = "running"
  BY DEF AfterStep
<1> QED
  BY <1>1, <1>4, <1>5, <1>6

\* The filter of the first tier lets no file be opened for writing.
LEMMA ReadOnlyFilter == ~Permitted("read_only", "openat", "write")
<1>1. conditional_for("read_only") = {"openat", "open"}
  BY DEF conditional_for
<1>2. conditional_rules("read_only", "openat") = {"rdonly"}
  BY DEF conditional_rules
<1> QED
  BY <1>1, <1>2 DEF Permitted

\* What summarize makes of the status that the parent waited for.
LEMMA SummaryTells ==
  ASSUME sbTypeOK, ProcessesInOrder, ExitsAreExplained,
         sbMiddle = "dead", sbGrand \in {"none", "dead"},
         sbResult' = summarize(sbExit.middle, sbReport), UNCHANGED sbRan
  PROVE  RefusalIsTold'
<1> DEFINE v == sbResult'.violations
           c == sbResult'.code
           m == sbExit.middle
           g == sbExit.grand
<1>1. m \in Int /\ g \in Int
  BY DEF sbTypeOK
<1>2. /\ c = IF m >= 1000 THEN m - 1000 ELSE m
      /\ sbReport = "none" => v \subseteq {"killed_by_signal"}
      /\ sbReport = "message" => "setup_failed" \in v
      /\ sbReport = "errno" => "execve_failed" \in v
      /\ m = 137 => "killed_by_signal" \in v
  <2> DEFINE told == CASE sbReport = "errno" -> {"execve_failed"}
                       [] sbReport = "message" -> {"setup_failed"} [] OTHER -> {}
             killed == IF m \in 129..999 THEN {"killed_by_signal"} ELSE {}
  <2>1. c = (IF m >= 1000 THEN m - 1000 ELSE m) /\ v = told \cup killed
    BY DEF summarize
  <2>2. /\ sbReport = "none" => told = {}
        /\ sbReport = "message" => told = {"setup_failed"}
        /\ sbReport = "errno" => told = {"execve_failed"}
    OBVIOUS
  <2>3. killed \subseteq {"killed_by_signal"} /\ (m = 137 => killed = {"killed_by_signal"})
    BY <1>1
  <2> HIDE DEF told, killed, v, c, m
  <2> QED
    BY <2>1, <2>2, <2>3, ZenonT(60)
<1> HIDE DEF v, c, m, g
<1>3. sbRan => v \cap {"refused", "setup_failed", "execve_failed"} = {}
  BY <1>2 DEF ProcessesInOrder
<1>4. sbReport # "none" => v # {}
  BY <1>2 DEF sbTypeOK
<1>5. ASSUME ~sbRan, c # 137 PROVE v # {}
  <2>1. CASE m = 137
    BY <2>1, <1>2
  <2>2. CASE sbReport # "none"
    BY <2>2, <1>4
  <2>3. CASE sbGrand = "dead" /\ m = PassedOn(g) /\ sbReport = "none"
    <3>1. g = 137
      BY <1>5, <2>3 DEF ExitsAreExplained, g
    <3>2. m = 1137
      BY <1>1, <2>3, <3>1 DEF PassedOn
    <3> QED
      BY <1>2, <1>5, <3>2
  <2> QED
    BY <2>1, <2>2, <2>3 DEF ExitsAreExplained, m, g
<1> QED
  BY <1>3, <1>5 DEF RefusalIsTold, v, c

\* A run starts in the invariant.
LEMMA SandboxStarts == sbInit => sbInv
<1> SUFFICES ASSUME sbInit PROVE sbInv
  OBVIOUS
<1>1. sbTypeOK
  <2>1. sbExit \in [middle : Int, grand : Int]
    <3>1. -1 \in Int
      OBVIOUS
    <3> QED
      BY <3>1 DEF sbInit
  <2>2. DOMAIN sbResult = {"code", "violations"}
    BY DEF sbInit
  <2> QED
    BY <2>1, <2>2 DEF sbInit, sbTypeOK
<1>2. StagesConfine /\ RunsConfined /\ ProcessesInOrder /\ OnlyReads
  BY DEF sbInit, StagesConfine, RunsConfined, ProcessesInOrder, OnlyReads
<1>3. ExitsAreExplained /\ ResultIsSettled
  BY DEF sbInit, ExitsAreExplained, ResultIsSettled
<1> QED
  BY <1>1, <1>2, <1>3 DEF sbInv

\* A step of the setup, done or failed, keeps the invariant.
LEMMA SetupKeeps == ASSUME sbInv, GrandStep PROVE sbInv'
<1> USE DEF sbInv
<1>0. /\ sbGrand \in {"stdout", "stderr", "chdir", "nnp", "landlock", "seccomp", "exec"}
      /\ UNCHANGED <<sbReq, sbParent, sbMiddle, sbOpened, sbResult>>
  BY StepsInOrder DEF GrandStep
<1>1. ~sbRan /\ sbParent = "drain" /\ sbMiddle \in {"wait", "dead"}
  BY <1>0 DEF sbTypeOK, ProcessesInOrder, ResultIsSettled
<1>2. CASE /\ CanSucceed(sbGrand) /\ sbGrand' = AfterStep(sbGrand)
           /\ sbConfined' = sbConfined \cup Puts(sbGrand)
           /\ sbRan' = (sbRan \/ sbGrand = "exec")
           /\ UNCHANGED <<sbReport, sbExit>>
  <2>1. sbGrand' \in {"stderr", "chdir", "nnp", "landlock", "seccomp", "exec", "running"}
    BY <1>0, <1>2, StepsInOrder
  <2>2. /\ sbGrand' = "landlock" <=> sbGrand = "nnp"
        /\ sbGrand' = "seccomp" <=> sbGrand = "landlock"
        /\ sbGrand' = "exec" <=> sbGrand = "seccomp"
        /\ sbGrand' = "running" <=> sbGrand = "exec"
    BY <1>0, <1>2, StepsInOrder
  <2>3. sbReport = "none" /\ sbExit' = sbExit /\ (sbRan' <=> sbGrand = "exec")
    BY <1>0, <1>1, <1>2 DEF ProcessesInOrder
  <2>4. sbTypeOK'
    BY <1>0, <1>1, <1>2, <2>1 DEF sbTypeOK
  <2>5. /\ sbConfined \subseteq sbConfined'
        /\ sbGrand = "nnp" => "nnp" \in sbConfined'
        /\ sbGrand = "landlock" /\ Restricted => "landlock" \in sbConfined'
        /\ sbGrand = "seccomp" /\ Restricted => "seccomp" \in sbConfined'
    BY <1>2 DEF Puts, Restricted
  <2>6. StagesConfine' /\ OnlyReads'
    BY <1>0, <1>1, <2>1, <2>2, <2>5 DEF StagesConfine, OnlyReads, Restricted
  <2>7. RunsConfined'
    BY <1>0, <2>2, <2>3, <2>6 DEF StagesConfine, RunsConfined, Restricted
  <2>8. ProcessesInOrder'
    BY <1>0, <1>1, <1>2, <2>1, <2>2, <2>3 DEF ProcessesInOrder
  <2>9. ExitsAreExplained' /\ ResultIsSettled'
    BY <1>0, <1>1, <1>2, <2>1, <2>3 DEF ExitsAreExplained, ResultIsSettled
  <2> QED
    BY <2>4, <2>6, <2>7, <2>8, <2>9
<1>3. CASE /\ sbGrand' = "dead"
           /\ sbReport' = IF sbGrand = "exec" THEN "errno" ELSE "message"
           /\ Die("grand", FailCode[sbGrand])
           /\ UNCHANGED <<sbConfined, sbRan>>
  <2>1. sbReport' \in {"message", "errno"} /\ sbReport' # "none"
    BY <1>3
  <2>2. FailCode[sbGrand] \in Int
    BY <1>0 DEF FailCode
  <2>3. sbExit' \in [middle : Int, grand : Int] /\ sbExit'.middle = sbExit.middle
    BY <1>3, <2>2 DEF Die, sbTypeOK
  <2>4. sbTypeOK'
    BY <1>0, <1>3, <2>1, <2>3 DEF sbTypeOK
  <2>5. StagesConfine' /\ RunsConfined' /\ OnlyReads'
    BY <1>0, <1>1, <1>3 DEF StagesConfine, RunsConfined, OnlyReads, Restricted
  <2>6. ProcessesInOrder'
    BY <1>0, <1>1, <1>3 DEF ProcessesInOrder
  <2>7. ExitsAreExplained'
    BY <1>0, <1>1, <1>3, <2>1, <2>3 DEF ExitsAreExplained, ProcessesInOrder
  <2>8. ResultIsSettled'
    BY <1>0, <1>1 DEF ResultIsSettled
  <2> QED
    BY <2>4, <2>5, <2>6, <2>7, <2>8
<1> QED
  BY <1>2, <1>3 DEF GrandStep

\* The death of a process keeps the invariant: it leaves the output free and
\* says nothing that the parent could take for something else.
LEMMA DeathKeeps ==
  ASSUME sbInv, CommandEnds \/ Killed \/ Pass
  PROVE  sbInv'
<1> USE DEF sbInv
<1>0. UNCHANGED <<sbReq, sbParent, sbConfined, sbReport, sbOpened, sbResult>> /\ sbRan' = sbRan
  BY DEF CommandEnds, Killed, Pass
<1>1. sbExit \in [middle : Int, grand : Int]
  BY DEF sbTypeOK
<1>2. ASSUME NEW code \in Int, sbGrand \notin {"none", "dead"}, sbGrand' = "dead",
             UNCHANGED sbMiddle, Die("grand", code), code = 137 \/ (code \in {0, 1} /\ sbGrand = "running")
      PROVE  sbInv'
  <2>1. sbExit' \in [middle : Int, grand : Int] /\ sbExit'.middle = sbExit.middle /\ sbExit'.grand = code
    BY <1>1, <1>2 DEF Die
  <2>2. sbTypeOK'
    BY <1>0, <1>2, <2>1 DEF sbTypeOK
  <2>3. StagesConfine' /\ RunsConfined' /\ OnlyReads' /\ ProcessesInOrder'
    BY <1>0, <1>2 DEF StagesConfine, RunsConfined, OnlyReads, ProcessesInOrder, Restricted
  <2>4. ExitsAreExplained'
    BY <1>0, <1>2, <2>1 DEF ExitsAreExplained, ProcessesInOrder
  <2>5. ResultIsSettled'
    BY <1>0, <1>2 DEF ResultIsSettled, RefusalIsTold, ProcessesInOrder
  <2> QED
    BY <2>2, <2>3, <2>4, <2>5
<1>3. ASSUME NEW code \in Int, sbMiddle \notin {"none", "dead"}, sbMiddle' = "dead",
             UNCHANGED sbGrand, Die("middle", code),
             code = 137 \/ (sbGrand = "dead" /\ code = PassedOn(sbExit.grand))
      PROVE  sbInv'
  <2>1. sbExit' \in [middle : Int, grand : Int] /\ sbExit'.middle = code /\ sbExit'.grand = sbExit.grand
    BY <1>1, <1>3 DEF Die
  <2>2. sbTypeOK'
    BY <1>0, <1>3, <2>1 DEF sbTypeOK
  <2>3. StagesConfine' /\ RunsConfined' /\ OnlyReads' /\ ProcessesInOrder'
    BY <1>0, <1>3 DEF StagesConfine, RunsConfined, OnlyReads, ProcessesInOrder, Restricted
  <2>4. ExitsAreExplained'
    BY <1>0, <1>3, <2>1 DEF ExitsAreExplained
  <2>5. ResultIsSettled'
    BY <1>0, <1>3 DEF ResultIsSettled
  <2> QED
    BY <2>2, <2>3, <2>4, <2>5
<1>4. CASE CommandEnds
  <2> PICK c \in {0, 1} : Die("grand", c)
    BY <1>4 DEF CommandEnds
  <2> QED
    BY <1>2, <1>4 DEF CommandEnds
<1>5. CASE Killed
  BY <1>2, <1>3, <1>5 DEF Killed
<1>6. CASE Pass
  <2>1. PassedOn(sbExit.grand) \in Int
    BY <1>1 DEF PassedOn
  <2> QED
    BY <1>3, <1>6, <2>1 DEF Pass
<1> QED
  BY <1>4, <1>5, <1>6

\* The middle process, entering its namespaces or forking, keeps the invariant.
LEMMA MiddleKeeps ==
  ASSUME sbInv, EnterNamespaces \/ InnerFork
  PROVE  sbInv'
<1> USE DEF sbInv
<1>0. /\ sbMiddle \in {"namespaces", "fork"}
      /\ UNCHANGED <<sbReq, sbParent, sbOpened, sbResult>> /\ sbRan' = sbRan
  BY DEF EnterNamespaces, InnerFork
<1>1. sbGrand = "none" /\ sbReport = "none" /\ ~sbRan /\ sbParent = "drain"
  BY <1>0 DEF ProcessesInOrder, ResultIsSettled, sbTypeOK
<1>2. CASE sbMiddle = "namespaces" /\ sbMiddle' = "fork" /\ UNCHANGED <<sbGrand, sbReport, sbExit>>
           /\ sbConfined' = sbConfined \cup {"namespaces"}
  BY <1>0, <1>1, <1>2 DEF sbTypeOK, StagesConfine, RunsConfined, ProcessesInOrder,
     ExitsAreExplained, ResultIsSettled, OnlyReads
<1>3. CASE sbMiddle = "fork" /\ sbMiddle' = "wait" /\ sbGrand' = "stdout"
           /\ UNCHANGED <<sbConfined, sbReport, sbExit>>
  BY <1>0, <1>1, <1>3 DEF sbTypeOK, StagesConfine, RunsConfined, ProcessesInOrder,
     ExitsAreExplained, ResultIsSettled, OnlyReads
<1>4. CASE \E code \in {70, 71} : sbMiddle' = "dead" /\ sbReport' = "message" /\ Die("middle", code)
           /\ UNCHANGED <<sbGrand, sbConfined>>
  <2> PICK code \in {70, 71} : sbMiddle' = "dead" /\ sbReport' = "message" /\ Die("middle", code)
           /\ UNCHANGED <<sbGrand, sbConfined>>
    BY <1>4
  <2>0. sbExit \in [middle : Int, grand : Int]
    BY DEF sbTypeOK
  <2>1. sbExit' \in [middle : Int, grand : Int] /\ sbExit'.middle = code
    BY <2>0 DEF Die
  <2> QED
    BY <1>0, <1>1, <2>1 DEF sbTypeOK, StagesConfine, RunsConfined, ProcessesInOrder,
       ExitsAreExplained, ResultIsSettled, OnlyReads
<1> QED
  BY <1>2, <1>3, <1>4 DEF EnterNamespaces, InnerFork

\* Every step keeps the invariant.
LEMMA SandboxSteps == sbInv /\ [sbNext]_sbVars => sbInv'
<1> SUFFICES ASSUME sbInv, [sbNext]_sbVars PROVE sbInv'
  OBVIOUS
<1>1. CASE Prepare
  BY <1>1 DEF Prepare, sbInv, sbTypeOK, StagesConfine, RunsConfined, ProcessesInOrder,
     ExitsAreExplained, ResultIsSettled, OnlyReads
<1>2. CASE EnterNamespaces \/ InnerFork
  BY <1>2, MiddleKeeps
<1>3. CASE GrandStep
  BY <1>3, SetupKeeps
<1>4. CASE CommandOpens
  <2>1. /\ sbGrand = "running"
        /\ UNCHANGED <<sbReq, sbParent, sbMiddle, sbGrand, sbConfined, sbReport, sbExit, sbResult>>
        /\ sbRan' = sbRan
    BY <1>4 DEF CommandOpens
  <2>2. OnlyReads'
    <3> SUFFICES ASSUME sbReq.tier = "read_only" PROVE "write" \notin sbOpened'
      BY <2>1 DEF OnlyReads
    <3>1. "seccomp" \in sbConfined
      BY <2>1 DEF sbInv, StagesConfine, Restricted
    <3> PICK arg \in {"rdonly", "write"} :
          Permitted("read_only", "openat", arg) /\ sbOpened' = sbOpened \cup {arg}
      BY <1>4, <3>1 DEF CommandOpens
    <3> QED
      BY ReadOnlyFilter DEF sbInv, OnlyReads
  <2> QED
    BY <2>1, <2>2 DEF sbInv, sbTypeOK, StagesConfine, RunsConfined, ProcessesInOrder,
       ExitsAreExplained, ResultIsSettled, RefusalIsTold, Restricted
<1>5. CASE CommandEnds \/ Killed \/ Pass
  BY <1>5, DeathKeeps
<1>6. CASE Drained
  <2>1. /\ sbParent = "drain" /\ sbParent' = "wait"
        /\ sbMiddle \notin {"namespaces", "fork"} /\ sbGrand \in {"none", "dead"}
        /\ UNCHANGED <<sbReq, sbMiddle, sbGrand, sbConfined, sbReport, sbExit, sbOpened, sbResult>>
        /\ sbRan' = sbRan
    BY <1>6 DEF Drained, HoldsOutput
  <2>2. sbTypeOK' /\ StagesConfine' /\ RunsConfined' /\ OnlyReads'
    BY <2>1 DEF sbInv, sbTypeOK, StagesConfine, RunsConfined, OnlyReads, Restricted
  <2>3. ProcessesInOrder'
    BY <2>1 DEF sbInv, sbTypeOK, ProcessesInOrder
  <2>4. ExitsAreExplained' /\ ResultIsSettled'
    <3>1. ExitsAreExplained'
      BY <2>1 DEF sbInv, ExitsAreExplained, sbTypeOK
    <3>2. ResultIsSettled'
      BY <2>1 DEF ResultIsSettled
    <3> QED
      BY <3>1, <3>2
  <2> QED
    BY <2>2, <2>3, <2>4 DEF sbInv
<1>7. CASE Finish
  <2>1. /\ sbParent = "wait" /\ sbMiddle = "dead" /\ sbGrand \in {"none", "dead"}
        /\ sbParent' = "done" /\ sbResult' = summarize(sbExit.middle, sbReport)
        /\ UNCHANGED <<sbReq, sbMiddle, sbGrand, sbConfined, sbReport, sbExit, sbOpened>>
        /\ sbRan' = sbRan
    BY <1>7 DEF Finish, sbInv, ProcessesInOrder
  <2>2. RefusalIsTold'
    BY <2>1, SummaryTells DEF sbInv
  <2>3. DOMAIN sbResult' = {"code", "violations"}
    BY <2>1 DEF summarize
  <2>4. sbTypeOK' /\ StagesConfine' /\ RunsConfined' /\ OnlyReads'
    BY <2>1, <2>3 DEF sbInv, sbTypeOK, StagesConfine, RunsConfined, OnlyReads, Restricted
  <2>5. ProcessesInOrder' /\ ExitsAreExplained'
    BY <2>1 DEF sbInv, ProcessesInOrder, ExitsAreExplained
  <2>6. ResultIsSettled'
    BY <2>1, <2>2 DEF ResultIsSettled
  <2> QED
    BY <2>4, <2>5, <2>6 DEF sbInv
<1>8. CASE UNCHANGED sbVars
  <2>0. /\ UNCHANGED <<sbReq, sbParent, sbMiddle, sbGrand, sbConfined, sbReport, sbExit, sbOpened, sbResult>>
        /\ sbRan' = sbRan
    BY <1>8 DEF sbVars
  <2>1. sbTypeOK' /\ StagesConfine'
    BY <2>0 DEF sbInv, sbTypeOK, StagesConfine, Restricted
  <2>4. RunsConfined' /\ OnlyReads'
    BY <2>0 DEF sbInv, sbTypeOK, RunsConfined, OnlyReads
  <2>2. ProcessesInOrder' /\ ExitsAreExplained'
    BY <2>0 DEF sbInv, ProcessesInOrder, ExitsAreExplained
  <2>3. ResultIsSettled'
    BY <2>0 DEF sbInv, ResultIsSettled, RefusalIsTold
  <2> QED
    BY <2>1, <2>2, <2>3, <2>4 DEF sbInv
<1> QED
  BY <1>1, <1>2, <1>3, <1>4, <1>5, <1>6, <1>7, <1>8 DEF sbNext

\* Whatever request comes, and whichever step of the setup fails or process
\* is killed, the command runs only under every restriction of its tier, the
\* caller is told of every run that did not execute it, and the read-only
\* tier opens nothing for writing.
THEOREM RunsStayConfined == sbSpec => []RunsAreConfined
<1>1. sbInv => RunsAreConfined
  <2> SUFFICES ASSUME sbInv, sbParent = "done", sbMiddle = "none",
                      sbResult = [code |-> 70, violations |-> {"refused"}]
               PROVE  RefusalIsTold
    BY DEF sbInv, RunsAreConfined, ResultIsSettled, RefusalIsTold
  <2>1. ~sbRan
    BY DEF sbInv, ProcessesInOrder
  <2>2. sbResult.violations # {}
    OBVIOUS
  <2> QED
    BY <2>1, <2>2 DEF RefusalIsTold
<1> QED
  BY <1>1, SandboxStarts, SandboxSteps, PTL DEF sbSpec
================================================================================
