------------------------------ MODULE RuntimeProbe ------------------------------
(***************************************************************************)
(* scripts/codex_runtime_probe.py: the main thread of run_probe, with the  *)
(* app-server, the thread that reads its output, the clock and the Git     *)
(* status of the workspace. Each check the probe requires goes from        *)
(* "NOT_RUN" to "PASS" or "FAIL"; the report passes when all of them do.   *)
(*                                                                         *)
(* The validators are pure functions of files, command output and answers: *)
(* a check of theirs passes or fails, either way.                          *)
(***************************************************************************)
EXTENDS JsonLineClient

CONSTANT Status  \* what `git status --porcelain` can print

ASSUME StatusAssumption == "none" \notin Status

Methods == <<"initialize", "config/read", "skills/list", "hooks/list", "thread/start">>

ASSUME RequestsAssumption == Requests = Len(Methods)

VARIABLES
    pc,         \* the next step of the main thread
    checks,     \* result["checks"]: the status of each
    verdict,    \* result["status"]
    answers,    \* ids of the results the requests so far returned
    failure,    \* the check of the exception that unwinds, or "none"
    home,       \* TRUE: the temporary Codex home exists
    workspace,  \* what Git status prints now
    snapshot    \* what it printed at first, or "none"

resultVars == <<checks, verdict>>
vars == <<clientVars, pc, resultVars, answers, failure, home, workspace, snapshot>>

-----------------------------------------------------------------------------

REQUIRED_CHECKS ==
    {"codex_version", "workspace_git_root", "static_project_config", "project_roles",
     "app_server_initialize", "runtime_project_config", "runtime_agents",
     "repo_skills", "project_hooks", "thread_start_no_turn", "execpolicy",
     "workspace_unchanged"}

(* The check each request of _collect_app_server is made for.              *)
CheckOf ==
    <<"app_server_initialize", "runtime_project_config", "repo_skills",
      "project_hooks", "thread_start_no_turn">>

Steps == {"arguments", "version", "git", "static", "roles", "start", "request",
          "deadline", "get", "notify", "close", "wait", "terminated", "killed",
          "collected", "initialize", "config", "skills", "hooks", "thread",
          "execpolicy", "final", "abort", "cleanup", "verdict", "report", "crash"}

Final == {"report", "crash"}

TypeOK ==
    /\ ClientTypeOK
    /\ pc \in Steps
    /\ checks \in [REQUIRED_CHECKS -> {"NOT_RUN", "PASS", "FAIL"}]
    /\ verdict \in {"PASS", "FAIL"}
    /\ answers \in Seq(0 .. Requests - 1)
    /\ failure \in REQUIRED_CHECKS \cup {"none"}
    /\ home \in BOOLEAN
    /\ workspace \in Status
    /\ snapshot \in Status \cup {"none"}

Init ==
    /\ ClientInit
    /\ pc = "arguments"
    /\ checks = [c \in REQUIRED_CHECKS |-> "NOT_RUN"]
    /\ verdict = "FAIL"
    /\ answers = <<>>
    /\ failure = "none"
    /\ home = FALSE
    /\ workspace \in Status
    /\ snapshot = "none"

-----------------------------------------------------------------------------

Goto(step) == pc' = step

RecordPass(passed) ==
    checks' = [c \in REQUIRED_CHECKS |-> IF c \in passed THEN "PASS" ELSE checks[c]]

RecordFailure(check) == checks' = [checks EXCEPT ![check] = "FAIL"]

(* try: a validator; _record_pass. except ProbeFailure: _record_failure.   *)
Judge(passed, failed, next, otherwise) ==
    \/ RecordPass(passed) /\ Goto(next)
    \/ \E c \in failed : RecordFailure(c) /\ Goto(otherwise)

(* A check on its own: nothing but the result and the step changes.        *)
Validate(step, check, next, otherwise) ==
    /\ pc = step
    /\ Judge({check}, {check}, next, otherwise)
    /\ UNCHANGED <<clientVars, verdict, answers, failure, home, workspace, snapshot>>

(* The root is missing or no directory, or the timeout is out of range:    *)
(* the probe returns. Otherwise it makes the isolated home.                *)
CheckArguments ==
    /\ pc = "arguments"
    /\ \/ Goto("version") /\ home' = TRUE /\ UNCHANGED checks
       \/ /\ \E c \in {"workspace_git_root", "app_server_initialize"} : RecordFailure(c)
          /\ Goto("report") /\ UNCHANGED home
    /\ UNCHANGED <<clientVars, verdict, answers, failure, workspace, snapshot>>

CodexVersion == Validate("version", "codex_version", "git", "abort")

GitRoot ==
    /\ pc = "git"
    /\ Judge({"workspace_git_root"}, {"workspace_git_root"}, "static", "abort")
    /\ snapshot' = IF pc' = "static" THEN workspace ELSE "none"
    /\ UNCHANGED <<clientVars, verdict, answers, failure, home, workspace>>

StaticConfig == Validate("static", "static_project_config", "roles", "roles")

Roles == Validate("roles", "project_roles", "start", "start")

-----------------------------------------------------------------------------
(* _collect_app_server: five requests inside a `with` whose exit closes    *)
(* the client; an exception skips the requests that are left.              *)

KeepResult == UNCHANGED <<resultVars, home, workspace, snapshot>>

(* Mutant: the code of the failure is kept instead of its check. *)
UnwindWithCode(check) == failure' = "timeout" /\ answers' = <<>> /\ Goto("close")

(* raise ProbeFailure(check, ...) inside the `with`.                       *)
Unwind(check) == failure' = check /\ answers' = <<>> /\ Goto("close")

CannotStart ==
    /\ pc = "start"
    /\ failure' = "app_server_initialize"
    /\ Goto("collected")
    /\ KeepResult /\ UNCHANGED <<clientVars, answers>>

Start ==
    /\ pc = "start"
    /\ Connect
    /\ Goto("request")
    /\ KeepResult /\ UNCHANGED <<answers, failure>>

Request ==
    /\ pc = "request"
    /\ \/ SendRequest /\ Goto("deadline") /\ UNCHANGED <<answers, failure>>
       \/ SendFails /\ Unwind(CheckOf[nextId + 1])
    /\ KeepResult

(* The top of the loop: no line is taken once the deadline has passed.     *)
CheckDeadline ==
    /\ pc = "deadline"
    /\ \/ clock > 0 /\ Goto("get") /\ UNCHANGED <<clientVars, answers, failure>>
       \/ clock = 0 /\ Unwind(CheckOf[nextId]) /\ UNCHANGED clientVars
    /\ KeepResult

Returned ==
    IF Len(answers) = 0 THEN "notify" ELSE IF nextId < Requests THEN "request" ELSE "close"

(* queue.get with what is left of the deadline, and the line it returns.   *)
Get ==
    /\ pc = "get"
    /\ queue # <<>>
    /\ LET line == Head(queue)
       IN  IF IsAnswer(line)
           THEN /\ answers' = Append(answers, line.id)
                /\ Goto(Returned)
                /\ UNCHANGED failure
           ELSE IF IsNotification(line)
           THEN Goto("deadline") /\ UNCHANGED <<answers, failure>>
           ELSE Unwind(CheckOf[nextId])
    /\ Take
    /\ KeepResult

GetTimesOut ==
    /\ pc = "get"
    /\ queue = <<>>
    /\ clock = 0
    /\ Unwind(CheckOf[nextId])
    /\ KeepResult /\ UNCHANGED clientVars

Notify ==
    /\ pc = "notify"
    /\ \/ Connected /\ Goto("request") /\ UNCHANGED <<answers, failure>>
       \/ Unwind("app_server_initialize")
    /\ KeepResult /\ UNCHANGED clientVars

-----------------------------------------------------------------------------
(* close().                                                                *)

Close ==
    /\ pc = "close"
    /\ CloseStdin
    /\ Goto("wait")
    /\ KeepResult /\ UNCHANGED <<answers, failure>>

Waiting == {"wait", "terminated", "killed"}

ChildEnded ==
    /\ pc \in Waiting
    /\ child = "exited"
    /\ Drop
    /\ Goto("collected")
    /\ KeepResult /\ UNCHANGED <<answers, failure>>

(* Mutant: the terminated child is not waited for. *)
TerminateOnly ==
    /\ pc = "wait"
    /\ clock = 0
    /\ SendSignal("term")
    /\ Goto("collected")
    /\ KeepResult /\ UNCHANGED <<answers, failure>>

Terminate ==
    /\ pc = "wait"
    /\ clock = 0
    /\ SendSignal("term")
    /\ Goto("terminated")
    /\ KeepResult /\ UNCHANGED <<answers, failure>>

(* Mutant: it is terminated again, never killed. *)
TerminateAgain ==
    /\ pc = "terminated"
    /\ clock = 0
    /\ SendSignal("term")
    /\ Goto("killed")
    /\ KeepResult /\ UNCHANGED <<answers, failure>>

Kill ==
    /\ pc = "terminated"
    /\ clock = 0
    /\ SendSignal("kill")
    /\ Goto("killed")
    /\ KeepResult /\ UNCHANGED <<answers, failure>>

(* The last wait raises TimeoutExpired, which is no ProbeFailure: it       *)
(* leaves run_probe, and the temporary directory is removed on the way.    *)
GiveUp ==
    /\ pc = "killed"
    /\ clock = 0
    /\ home' = FALSE
    /\ Goto("crash")
    /\ UNCHANGED <<clientVars, resultVars, answers, failure, workspace, snapshot>>

-----------------------------------------------------------------------------
(* The rest of run_probe. Without answers app_data is None.                *)

NotCollected ==
    /\ pc = "collected"
    /\ failure # "none"
    /\ RecordFailure(failure)
    /\ failure' = "none"
    /\ Goto("execpolicy")
    /\ UNCHANGED <<clientVars, verdict, answers, home, workspace, snapshot>>

Collected ==
    /\ pc = "collected"
    /\ failure = "none"
    /\ Goto("initialize")
    /\ UNCHANGED <<clientVars, resultVars, answers, failure, home, workspace, snapshot>>

(* app_data is set before its first part is validated, so the other parts  *)
(* are validated even when the first is not what it should be.             *)
ValidateInitialize == Validate("initialize", "app_server_initialize", "config", "config")

ValidateRuntimeConfig == Validate("config", "runtime_project_config", "skills", "skills")

ValidateSkills == Validate("skills", "repo_skills", "hooks", "hooks")

ValidateHooks == Validate("hooks", "project_hooks", "thread", "thread")

(* Mutant: the evidence for AGENTS.md is not recorded. *)
ForgetAgents ==
    /\ pc = "thread"
    /\ Judge({"thread_start_no_turn"}, {"thread_start_no_turn", "runtime_agents"},
             "execpolicy", "execpolicy")
    /\ UNCHANGED <<clientVars, verdict, answers, failure, home, workspace, snapshot>>

(* One validator, two checks: it stops at the first that fails.            *)
ValidateThread ==
    /\ pc = "thread"
    /\ LET both == {"thread_start_no_turn", "runtime_agents"}
       IN  Judge(both, both, "execpolicy", "execpolicy")
    /\ UNCHANGED <<clientVars, verdict, answers, failure, home, workspace, snapshot>>

(* A path from the server with a null in it, or a file that is not UTF-8,  *)
(* makes a check raise what run_probe does not catch.                      *)
UnexpectedError ==
    /\ pc \in {"static", "roles", "initialize", "config", "skills", "hooks", "thread"}
    /\ home' = FALSE
    /\ Goto("crash")
    /\ UNCHANGED <<clientVars, resultVars, answers, failure, workspace, snapshot>>

(* Four runs of `codex execpolicy check`, processes that end before the    *)
(* step does and may leave the workspace changed.                          *)
EvaluateExecpolicy ==
    /\ pc = "execpolicy"
    /\ Judge({"execpolicy"}, {"execpolicy"}, "final", "final")
    /\ workspace' \in Status
    /\ UNCHANGED <<clientVars, verdict, answers, failure, home, snapshot>>

(* Mutant: the failure keeps the name the first snapshot gives it. *)
SameCheck(error) == error

(* A failure of _git_snapshot names workspace_git_root; here it is         *)
(* recorded under workspace_unchanged.                                     *)
FinalCheck(error) == IF error = "workspace_git_root" THEN "workspace_unchanged" ELSE error

FinalSnapshot ==
    /\ pc = "final"
    /\ \/ workspace = snapshot /\ RecordPass({"workspace_unchanged"})
       \/ workspace # snapshot /\ RecordFailure("workspace_unchanged")
       \/ RecordFailure(FinalCheck("workspace_git_root"))
    /\ Goto("cleanup")
    /\ UNCHANGED <<clientVars, verdict, answers, failure, home, workspace, snapshot>>

(* The end of the `with` over the temporary directory, on the way out or   *)
(* on the way to the verdict.                                              *)
RemoveHome ==
    /\ pc \in {"abort", "cleanup"}
    /\ home' = FALSE
    /\ Goto(IF pc = "abort" THEN "report" ELSE "verdict")
    /\ UNCHANGED <<clientVars, resultVars, answers, failure, workspace, snapshot>>

GiveVerdict ==
    /\ pc = "verdict"
    /\ verdict' = IF \A c \in REQUIRED_CHECKS : checks[c] = "PASS" THEN "PASS" ELSE "FAIL"
    /\ Goto("report")
    /\ UNCHANGED <<clientVars, checks, answers, failure, home, workspace, snapshot>>

Main ==
    \/ CheckArguments \/ CodexVersion \/ GitRoot \/ StaticConfig \/ Roles
    \/ CannotStart \/ Start \/ Request \/ CheckDeadline \/ Get \/ GetTimesOut
    \/ Notify \/ Close \/ ChildEnded \/ Terminate \/ Kill \/ GiveUp
    \/ NotCollected \/ Collected \/ ValidateInitialize \/ ValidateRuntimeConfig
    \/ ValidateSkills \/ ValidateHooks \/ ValidateThread \/ UnexpectedError
    \/ EvaluateExecpolicy \/ FinalSnapshot \/ RemoveHome \/ GiveVerdict

-----------------------------------------------------------------------------

probeVars == <<pc, resultVars, answers, failure, home, workspace, snapshot>>

(* The app-server runs in the workspace and may change it while it lives.  *)
ChangeWorkspace ==
    /\ child = "running"
    /\ workspace' \in Status \ {workspace}
    /\ UNCHANGED <<clientVars, pc, resultVars, answers, failure, home, snapshot>>

Environment ==
    \/ (\E line \in Line : Write(line)) /\ UNCHANGED probeVars
    \/ End /\ UNCHANGED probeVars
    \/ ChangeWorkspace

Clock == Tick /\ UNCHANGED probeVars

Reader == ReadStdout /\ UNCHANGED probeVars

Next == Main \/ Clock \/ Reader \/ Environment

(* The main thread is scheduled, time passes, and the system ends a        *)
(* process it was told to kill. Nothing is asked of the child or of the    *)
(* thread that reads its output.                                           *)
Fairness ==
    /\ WF_vars(Main)
    /\ WF_vars(Clock)
    /\ WF_vars(Die /\ UNCHANGED probeVars)

Spec == Init /\ [][Next]_vars

FairSpec == Spec /\ Fairness

-----------------------------------------------------------------------------
(* Properties.                                                             *)

(* A check that has passed or failed keeps its status: a later failure,    *)
(* the second Git snapshot's above all, never replaces it.                 *)
ChecksAreFinal ==
    [][\A c \in REQUIRED_CHECKS : checks[c] # "NOT_RUN" => checks'[c] = checks[c]]_vars

(* A report that fails names a check that failed: no check is left behind  *)
(* without a failure that explains why it did not run.                     *)
FailureIsExplained ==
    pc = "report" /\ verdict = "FAIL" => \E c \in REQUIRED_CHECKS : checks[c] = "FAIL"

(* Each request keeps the result the server sent for it, whatever else it  *)
(* sends in between, and a report that passes rests on one for each.       *)
AnswersAreOwn ==
    /\ \A i \in DOMAIN answers : answers[i] = i - 1
    /\ pc = "report" /\ verdict = "PASS" => Len(answers) = Requests

(* A report that passes is still true when it is read: the Git status is   *)
(* the one the probe started from, and nothing it started can change it.   *)
PassMeansUnchanged ==
    pc = "report" /\ verdict = "PASS" => workspace = snapshot

(* The isolated home exists as long as the server that was told to use it  *)
(* runs and was not killed: it never falls back to a home of the user's.   *)
HomeOutlivesChild == child = "running" /\ signal # "kill" => home

(* The probe ends, whatever the server sends or leaves unsent, and nothing *)
(* that it started runs forever.                                           *)
EverythingEnds == <>(pc \in Final) /\ <>[](child # "running")

(* How long the probe may go on. TimeLeft are the ticks its main thread    *)
(* can still wait: those of the wait it is in, a deadline for each request *)
(* to come and the waits of close() to come.                               *)
BeforeClose ==
    {"arguments", "version", "git", "static", "roles", "start", "request",
     "deadline", "get", "notify"}

RequestsLeft == IF pc \in BeforeClose THEN Requests - nextId ELSE 0

WaitsLeft ==
    CASE pc \in BeforeClose \cup {"close"} -> 3
      [] pc = "wait" -> 2
      [] pc = "terminated" -> 1
      [] OTHER -> 0

TimeLeft == clock + RequestsLeft * Timeout + WaitsLeft * Grace

(* The place of each step in the course of the main thread.                *)
Place ==
    [arguments |-> 1, version |-> 2, git |-> 3, static |-> 4, roles |-> 5, start |-> 6,
     deadline |-> 7, get |-> 8, notify |-> 9, request |-> 10,
     close |-> 11, wait |-> 12, terminated |-> 13, killed |-> 14, collected |-> 15,
     initialize |-> 16, config |-> 17, skills |-> 18, hooks |-> 19, thread |-> 20,
     execpolicy |-> 21, final |-> 22, abort |-> 23, cleanup |-> 24, verdict |-> 25,
     report |-> 26, crash |-> 27]

GoesOn ==
    \/ nextId' > nextId
    \/ nextId' = nextId /\ Place[pc'] > Place[pc]

SkipsNotification ==
    /\ pc = "get" /\ pc' = "deadline"
    /\ queue # <<>> /\ IsNotification(Head(queue))

(* The probe never waits longer than a deadline for each request and the   *)
(* three waits of close(), and does not go round in circles: nothing the   *)
(* server sends, and no signal it ignores, gives the main thread new time; *)
(* each of its steps leads on, but for the lines it has to skip while a    *)
(* deadline lasts.                                                         *)
ProbeGoesOn ==
    [][/\ TimeLeft' <= TimeLeft /\ nextId' >= nextId
       /\ Clock => TimeLeft' < TimeLeft
       /\ Main => GoesOn \/ SkipsNotification]_vars
-----------------------------------------------------------------------------
(* Why they hold: the parts of an inductive invariant. First the steps up  *)
(* to the one that judges a check, in the order of run_probe.              *)

InWith == {"request", "deadline", "get", "notify", "close", "wait", "terminated", "killed"}

ToVersion == {"arguments", "version"}
ToGit == ToVersion \cup {"git"}
ToStatic == ToGit \cup {"static"}
ToRoles == ToStatic \cup {"roles"}
ToInitialize == ToRoles \cup {"start"} \cup InWith \cup {"collected", "initialize"}
ToConfig == ToInitialize \cup {"config"}
ToSkills == ToConfig \cup {"skills"}
ToHooks == ToSkills \cup {"hooks"}
ToThread == ToHooks \cup {"thread"}
ToExecpolicy == ToThread \cup {"execpolicy"}
ToFinal == ToExecpolicy \cup {"final"}

Failed == \E c \in REQUIRED_CHECKS : checks[c] = "FAIL"

(* A check has not run before its step; after it, it has passed unless the *)
(* probe has a failure to show.                                            *)
Judged(check, before) ==
    IF pc \in before THEN checks[check] = "NOT_RUN"
    ELSE checks[check] = "PASS" \/ Failed \/ pc = "crash"

ChecksInv ==
    /\ Judged("codex_version", ToVersion)
    /\ Judged("workspace_git_root", ToGit)
    /\ Judged("static_project_config", ToStatic)
    /\ Judged("project_roles", ToRoles)
    /\ Judged("app_server_initialize", ToInitialize)
    /\ Judged("runtime_project_config", ToConfig)
    /\ Judged("repo_skills", ToSkills)
    /\ Judged("project_hooks", ToHooks)
    /\ Judged("thread_start_no_turn", ToThread)
    /\ Judged("runtime_agents", ToThread)
    /\ Judged("execpolicy", ToExecpolicy)
    /\ Judged("workspace_unchanged", ToFinal)

(* Only the last step can give the verdict.                                *)
VerdictInv ==
    /\ verdict = "PASS" =>
          pc = "report" /\ \A c \in REQUIRED_CHECKS : checks[c] = "PASS"
    /\ pc = "abort" => Failed
    /\ pc = "report" /\ verdict = "FAIL" => Failed

(* One result for each request that has returned, and all of them unless   *)
(* an exception unwinds or has been recorded.                              *)
RequestInv ==
    /\ pc \in ToRoles \cup {"start"} => nextId = 0 /\ answers = <<>>
    /\ pc \in {"request", "notify"} => Len(answers) = nextId /\ nextId < Requests
    /\ pc \in {"deadline", "get"} => Len(answers) + 1 = nextId
    /\ pc \in {"close", "wait", "terminated", "killed", "collected"} /\ failure = "none"
          => Len(answers) = Requests
    /\ failure # "none" =>
          pc \in {"close", "wait", "terminated", "killed", "collected", "crash"}
    /\ failure \in {CheckOf[i] : i \in 1 .. 5} \cup {"none"}
    /\ pc \in {"initialize", "config", "skills", "hooks", "thread", "execpolicy",
               "final", "abort", "cleanup", "verdict", "report"}
          => Failed \/ Len(answers) = Requests
    /\ \A i \in DOMAIN answers : answers[i] = i - 1

(* The child lives inside the `with`; only a killed one is left behind.    *)
ChildInv ==
    /\ child = "running" => pc \in InWith \/ (pc = "crash" /\ signal = "kill")
    /\ pc = "killed" => signal = "kill"
    /\ pc \notin {"arguments", "verdict", "report", "crash"} => home

(* Once the last snapshot has passed nothing changes the workspace.        *)
SnapshotInv ==
    checks["workspace_unchanged"] = "PASS" => workspace = snapshot /\ child # "running"

ProbeInv == TypeOK /\ ChecksInv /\ VerdictInv /\ RequestInv /\ ChildInv /\ SnapshotInv
=============================================================================
