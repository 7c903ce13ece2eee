----------------------------- MODULE WorkspaceInit -----------------------------
(***************************************************************************)
(* scripts/init_workspace.py turns an extracted release into a Git         *)
(* repository with one commit and records the memory mode in the           *)
(* repository's configuration. Each Git command and each file access that  *)
(* a script waits for is an action, so that it can stop between any two of *)
(* them and be launched again, maybe for another mode.                     *)
(*                                                                         *)
(* The directory is abstracted to three kinds of file: "memory", the four  *)
(* mutable files untracked mode keeps out of Git; "ignore", .gitignore;    *)
(* and "code", the rest of the release.                                    *)
(***************************************************************************)
EXTENDS Integers

CONSTANTS
    Proc,         \* slots for running scripts
    Version,      \* versions of the release
    Exclusive,    \* TRUE: nobody else touches the directory while one runs
    MaxLaunches,  \* bound: scripts launched in a behaviour
    MaxFaults,    \* bound: kills and timeouts
    MaxMisreads,  \* bound: git rev-parse commands that fail
    MaxExtracts,  \* bound: releases extracted over the directory
    MaxCommits    \* bound: commits of the user

Blocks == {"local-git", "private-approved"}

Mode == {"untracked"} \cup Blocks

ASSUME InitAssumption ==
    /\ Exclusive \in BOOLEAN
    /\ MaxLaunches \in Nat /\ MaxFaults \in Nat /\ MaxMisreads \in Nat
    /\ MaxExtracts \in Nat /\ MaxCommits \in Nat
    /\ Version # {} /\ Version \cap {"absent", "unset"} = {}

VARIABLES
    repo,      \* the repository Git finds: "none", "parent" or "own"
    files,     \* the directory
    staged,    \* Git's index
    head,      \* the tree of HEAD, NoTree while HEAD is unborn
    commits,   \* commits on the branch of HEAD
    config,    \* the minius.* keys of the local configuration
    identity,  \* the parts of an author identity that are configured
    remote,    \* TRUE: a remote is configured
    count,     \* launches, faults, misreads, extracts and user commits so far
    first,     \* history: the tree of the root commit and who made it
    made,      \* history: commits made by init_workspace.py
    reported,  \* history: mode and version of every exit with 0
    pc,        \* the next step of each script
    job        \* its arguments and local variables

gitVars == <<repo, staged, head, commits, config, identity, remote>>
history == <<first, made, reported>>
vars == <<gitVars, files, count, history, pc, job>>

-----------------------------------------------------------------------------

(* .gitignore: "shipped" ignores the mutable memory; the block of a mode   *)
(* tracks it again; "empty" is a file that open("w") has truncated.        *)
Ignore == {"absent", "empty", "shipped"} \cup Blocks

Tree == [code : Version \cup {"absent"}, memory : {"absent", "shipped", "used"},
         ignore : Ignore]

NoTree == [code |-> "absent", memory |-> "absent", ignore |-> "absent"]

Release(v) == [code |-> v, memory |-> "shipped", ignore |-> "shipped"]

Config == [initialized : BOOLEAN, mode : Mode \cup {"unset"},
           version : Version \cup {"unset"}, commit : Nat]

NoConfig == [initialized |-> FALSE, mode |-> "unset", version |-> "unset", commit |-> 0]

Steps == {"root", "head", "existing", "check", "validate", "init", "remote",
          "name", "email", "identity", "ignore", "truncate", "block", "stage",
          "safety", "commit", "read", "initialized", "mode", "version",
          "initial", "final"}

Job == [mode : Mode \cup {"unset"}, version : Version \cup {"unset"},
        named : BOOLEAN, existing : BOOLEAN, commit : Nat]

NoJob == [mode |-> "unset", version |-> "unset", named |-> FALSE,
          existing |-> FALSE, commit |-> 0]

Counters == [launches : Nat, faults : Nat, misreads : Nat, extracts : Nat, commits : Nat]

TypeOK ==
    /\ repo \in {"none", "parent", "own"}
    /\ files \in Tree /\ files.code \in Version
    /\ staged \in Tree
    /\ head \in Tree
    /\ commits \in Nat
    /\ config \in Config
    /\ identity \subseteq {"name", "email"}
    /\ remote \in BOOLEAN
    /\ count \in Counters
    /\ first \in [tree : Tree, by : {"nobody", "init", "user"}]
    /\ made \in Nat
    /\ reported \subseteq [mode : Mode, version : Version]
    /\ pc \in [Proc -> Steps \cup {"idle"}]
    /\ job \in [Proc -> Job]

(* An extracted release, in no repository, inside another one or in an     *)
(* empty one of its own.                                                   *)
Init ==
    /\ repo \in {"none", "parent", "own"}
    /\ files \in {Release(v) : v \in Version}
    /\ staged = NoTree
    /\ head = NoTree
    /\ commits = 0
    /\ config = NoConfig
    /\ identity \in {{}, {"name", "email"}}
    /\ remote \in BOOLEAN /\ (remote => repo = "own")
    /\ count = [launches |-> 0, faults |-> 0, misreads |-> 0, extracts |-> 0, commits |-> 0]
    /\ first = [tree |-> NoTree, by |-> "nobody"]
    /\ made = 0
    /\ reported = {}
    /\ pc = [p \in Proc |-> "idle"]
    /\ job = [p \in Proc |-> NoJob]

-----------------------------------------------------------------------------

Running == {p \in Proc : pc[p] # "idle"}

Goto(p, step) == pc' = [pc EXCEPT ![p] = step]

Exit(p) == Goto(p, "idle") /\ job' = [job EXCEPT ![p] = NoJob]

(* raise InitializationError: "BLOCKED", exit with 1. *)
Blocked(p) == Exit(p) /\ UNCHANGED <<gitVars, files, count, history>>

Pass(p, step) == Goto(p, step) /\ UNCHANGED <<gitVars, files, count, history, job>>

Bump(counter) == count' = [count EXCEPT ![counter] = @ + 1]

WithExisting(j) == [j EXCEPT !.existing = TRUE]

WithCommit(j, commit) == [j EXCEPT !.commit = commit]

NewJob(mode, named, version) ==
    [mode |-> mode, version |-> version, named |-> named, existing |-> FALSE, commit |-> 0]

(* main() up to the first Git command. A launch that is refused before it  *)
(* changes nothing and is left out; private-approved is acknowledged.      *)
Launch(p, mode, named) ==
    /\ pc[p] = "idle"
    /\ count.launches < MaxLaunches
    /\ Exclusive => Running = {}
    /\ job' = [job EXCEPT ![p] = NewJob(mode, named, files.code)]
    /\ Goto(p, "root")
    /\ Bump("launches")
    /\ UNCHANGED <<gitVars, files, history>>

CheckRoot(p) ==
    /\ pc[p] = "root"
    /\ CASE repo = "parent" -> Blocked(p)
         [] repo = "own"    -> /\ Goto(p, "head")
                               /\ job' = [job EXCEPT ![p] = WithExisting(@)]
                               /\ UNCHANGED <<gitVars, files, count, history>>
         [] repo = "none"   -> Pass(p, "validate")

(* Mutant: no look at HEAD. *)
IgnoreHead(p) == pc[p] = "head" /\ Pass(p, "validate")

CheckHead(p) ==
    /\ pc[p] = "head"
    /\ Pass(p, IF head = NoTree THEN "validate" ELSE "existing")

(* _git_root takes any failure of git rev-parse for no repository, and     *)
(* _has_head for no HEAD: the run goes on as in a fresh directory.         *)
Misread(p) ==
    /\ pc[p] \in {"root", "head"}
    /\ count.misreads < MaxMisreads
    /\ Bump("misreads")
    /\ Goto(p, "validate")
    /\ UNCHANGED <<gitVars, files, history, job>>

-----------------------------------------------------------------------------
(* _finish_existing: a second run changes nothing.                         *)

CheckExisting(p) ==
    /\ pc[p] = "existing"
    /\ IF config.initialized THEN Pass(p, "check") ELSE Blocked(p)

(* git status --porcelain prints nothing. *)
Clean ==
    /\ staged = head
    /\ files.code = staged.code /\ files.ignore = staged.ignore
    /\ IF staged.memory = "absent" THEN files.ignore = "shipped"
       ELSE files.memory = staged.memory

(* Mutant: the requested mode is not compared. *)
CheckVersionOnly(p) ==
    /\ pc[p] = "check"
    /\ \/ Blocked(p)
       \/ /\ config.version = job[p].version
          /\ Clean
          /\ reported' = reported \cup {[mode |-> job[p].mode, version |-> job[p].version]}
          /\ Exit(p)
          /\ UNCHANGED <<gitVars, files, count, first, made>>

(* Mode, version, both checkers and the Git status; the checkers may block *)
(* for reasons of their own.                                               *)
CheckRecorded(p) ==
    /\ pc[p] = "check"
    /\ \/ Blocked(p)
       \/ /\ config.mode = job[p].mode
          /\ config.version = job[p].version
          /\ Clean
          /\ reported' = reported \cup {[mode |-> job[p].mode, version |-> job[p].version]}
          /\ Exit(p)
          /\ UNCHANGED <<gitVars, files, count, first, made>>

-----------------------------------------------------------------------------
(* A new repository.                                                       *)

(* Mutant: the runtime validator is not run. *)
SkipValidate(p) == pc[p] = "validate" /\ Pass(p, "init")

(* The runtime validator compares every file with the manifest's digests.  *)
Validate(p) ==
    /\ pc[p] = "validate"
    /\ \/ Blocked(p)
       \/ /\ files = Release(job[p].version)
          /\ Pass(p, "init")

(* git init, or git symbolic-ref in the repository found before. *)
GitInit(p) ==
    /\ pc[p] = "init"
    /\ repo' = IF job[p].existing THEN repo ELSE "own"
    /\ Goto(p, "remote")
    /\ UNCHANGED <<staged, head, commits, config, identity, remote, files, count, history, job>>

CheckRemote(p) ==
    /\ pc[p] = "remote"
    /\ IF remote THEN Blocked(p)
       ELSE Pass(p, IF job[p].named THEN "name" ELSE "identity")

(* _configure_identity *)
SetIdentity(p, part, next) ==
    /\ pc[p] = part
    /\ identity' = identity \cup {part}
    /\ Goto(p, next)
    /\ UNCHANGED <<repo, staged, head, commits, config, remote, files, count, history, job>>

(* Mutant: untracked mode does not skip the block. *)
AlwaysBlock(p) ==
    /\ pc[p] = "identity"
    /\ IF identity = {"name", "email"} THEN Pass(p, "ignore") ELSE Blocked(p)

CheckIdentity(p) ==
    /\ pc[p] = "identity"
    /\ IF identity = {"name", "email"}
       THEN Pass(p, IF job[p].mode = "untracked" THEN "stage" ELSE "ignore")
       ELSE Blocked(p)

(* _apply_memory_mode *)
SetIgnore(text) == files' = [files EXCEPT !.ignore = text]

ReadIgnore(p) ==
    /\ pc[p] = "ignore"
    /\ IF files.ignore \in Blocks THEN Blocked(p) ELSE Pass(p, "truncate")

TruncateIgnore(p) ==
    /\ pc[p] = "truncate"
    /\ SetIgnore("empty")
    /\ Goto(p, "block")
    /\ UNCHANGED <<gitVars, count, history, job>>

WriteIgnore(p) ==
    /\ pc[p] = "block"
    /\ SetIgnore(job[p].mode)
    /\ Goto(p, "stage")
    /\ UNCHANGED <<gitVars, count, history, job>>

(* git add of the manifest's files; in untracked mode without the memory.  *)
(* git refuses to add an ignored file.                                     *)
Stage(p) ==
    LET memory == IF job[p].mode = "untracked" THEN staged.memory ELSE files.memory IN
    /\ pc[p] = "stage"
    /\ \/ /\ staged' = [files EXCEPT !.memory = memory]
          /\ Goto(p, "safety")
          /\ files.ignore # "shipped" \/ memory = "absent" \/ staged.memory # "absent"
          /\ UNCHANGED job
       \/ staged' \in {staged, [files EXCEPT !.memory = staged.memory]} /\ Exit(p)
    /\ UNCHANGED <<repo, head, commits, config, identity, remote, files, count, history>>

(* The safety check of the index and git diff --check. *)
CheckStaged(p) ==
    /\ pc[p] = "safety"
    /\ Blocked(p) \/ Pass(p, "commit")

AddCommit(author) ==
    /\ head' = staged'
    /\ commits' = commits + 1
    /\ first' = IF commits = 0 THEN [tree |-> staged', by |-> author] ELSE first

Commit(p) ==
    /\ pc[p] = "commit"
    /\ \/ Blocked(p)
       \/ /\ staged # head
          /\ UNCHANGED staged
          /\ AddCommit("init")
          /\ made' = made + 1
          /\ Goto(p, "read")
          /\ UNCHANGED <<repo, config, identity, remote, files, count, reported, job>>

ReadCommit(p) ==
    /\ pc[p] = "read"
    /\ job' = [job EXCEPT ![p] = WithCommit(@, commits)]
    /\ Goto(p, "initialized")
    /\ UNCHANGED <<gitVars, files, count, history>>

(* git config --local minius.<key> <value> *)
Record(p, step, next, keys) ==
    /\ pc[p] = step
    /\ config' = keys
    /\ Goto(p, next)
    /\ UNCHANGED <<repo, staged, head, commits, identity, remote, files, count, history, job>>

RecordKeys(p) ==
    \/ Record(p, "initialized", "mode", [config EXCEPT !.initialized = TRUE])
    \/ Record(p, "mode", "version", [config EXCEPT !.mode = job[p].mode])
    \/ Record(p, "version", "initial", [config EXCEPT !.version = job[p].version])
    \/ Record(p, "initial", "final", [config EXCEPT !.commit = job[p].commit])

FinalCheck(p) ==
    /\ pc[p] = "final"
    /\ \/ Blocked(p)
       \/ /\ Clean
          /\ reported' = reported \cup {[mode |-> job[p].mode, version |-> job[p].version]}
          /\ Exit(p)
          /\ UNCHANGED <<gitVars, files, count, first, made>>

-----------------------------------------------------------------------------
(* A kill, an I/O error or a command that exceeds its 120 seconds.         *)

Abort(p) ==
    /\ pc[p] # "idle"
    /\ count.faults < MaxFaults
    /\ Bump("faults")
    /\ Exit(p)
    /\ UNCHANGED <<gitVars, files, history>>

-----------------------------------------------------------------------------
(* The user and the other scripts.                                         *)

Undisturbed == Exclusive => Running = {}

EditMemory ==
    /\ Undisturbed
    /\ files' = [files EXCEPT !.memory = "used"]
    /\ UNCHANGED <<gitVars, count, history, pc, job>>

(* git add -A && git commit *)
UserCommit ==
    /\ repo = "own"
    /\ Undisturbed
    /\ count.commits < MaxCommits
    /\ Bump("commits")
    /\ staged' = IF staged.memory = "absent" /\ files.ignore = "shipped"
                 THEN [files EXCEPT !.memory = "absent"] ELSE files
    /\ staged' # head
    /\ AddCommit("user")
    /\ UNCHANGED <<repo, config, identity, remote, files, made, reported, pc, job>>

Extract(v) ==
    /\ Undisturbed
    /\ count.extracts < MaxExtracts
    /\ Bump("extracts")
    /\ files' = Release(v)
    /\ UNCHANGED <<gitVars, history, pc, job>>

AddRemote ==
    /\ repo = "own" /\ ~ remote
    /\ remote' = TRUE
    /\ UNCHANGED <<repo, staged, head, commits, config, identity, files, count, history, pc, job>>

Step(p) ==
    \/ CheckRoot(p) \/ CheckHead(p) \/ CheckExisting(p) \/ CheckRecorded(p)
    \/ Validate(p) \/ GitInit(p) \/ CheckRemote(p)
    \/ SetIdentity(p, "name", "email") \/ SetIdentity(p, "email", "identity")
    \/ CheckIdentity(p)
    \/ ReadIgnore(p) \/ TruncateIgnore(p) \/ WriteIgnore(p)
    \/ Stage(p) \/ CheckStaged(p) \/ Commit(p) \/ ReadCommit(p)
    \/ RecordKeys(p) \/ FinalCheck(p)

Environment ==
    EditMemory \/ UserCommit \/ AddRemote \/ \E v \in Version : Extract(v)

Next ==
    \/ \E p \in Proc :
          \/ \E mode \in Mode, named \in BOOLEAN : Launch(p, mode, named)
          \/ Step(p) \/ Misread(p) \/ Abort(p)
    \/ Environment

Spec == Init /\ [][Next]_vars

-----------------------------------------------------------------------------
(* Properties.                                                             *)

(* A run of init_workspace.py never changes what an earlier one recorded:  *)
(* neither the mode, the version and the initial commit, nor, once there   *)
(* is a commit, HEAD. GIT_WORKFLOW.md: the mode cannot be changed          *)
(* implicitly by running the initialiser again.                            *)
KeepsRecorded ==
    /\ config.initialized => config'.initialized
    /\ config.mode # "unset" => config'.mode = config.mode
    /\ config.version # "unset" => config'.version = config.version
    /\ config.commit # 0 => config'.commit = config.commit
    /\ made >= 1 => made' = made

(* Every git rev-parse so far has found what is there. *)
Sure == count.misreads = 0

(* A run that misreads Git takes the directory for a fresh one. If its     *)
(* memory has been used, the runtime validator still stops that run before *)
(* it writes anything; in a directory that is as released, nothing does.   *)
RecordedStays == [][Sure' \/ files.memory = "used" => KeepsRecorded]_vars

(* Whichever runs exit with 0, they report one mode and one version, as    *)
(* long as none misread Git.                                               *)
ReportsAgree == Sure => \A r1, r2 \in reported : r1 = r2

(* What new_matter.py, start_session.py and finish_session.py ask for. *)
Ready == repo = "own" /\ config.initialized /\ config.mode \in Mode

(* When the other scripts accept the workspace, the root commit is the one *)
(* init_workspace.py made, unless a run took a foreign history for none.   *)
ReadyIsCommitted == Sure /\ Ready => first.by = "init"

(* The recorded mode is the one the root commit was made for: untracked    *)
(* mode keeps the memory out of Git, then and later, and the other modes   *)
(* track it. A release extracted again may break this, since the index     *)
(* keeps what an interrupted run has staged, and so may a run that misreads *)
(* Git.                                                                    *)
ModeMatchesHistory ==
    Sure /\ count.extracts = 0 =>
        /\ config.mode = "untracked" =>
              first.tree.memory = "absent" /\ head.memory = "absent"
        /\ config.mode \in Blocks =>
              first.tree.ignore = config.mode /\ first.tree.memory = "shipped"

(* "Existing Git history was not created by init_workspace.py."            *)
RefusalIsTruthful ==
    \A p \in Proc : pc[p] = "existing" /\ ~ config.initialized => first.by # "init"

-----------------------------------------------------------------------------
(* Inductive strengthenings of the type invariant and, for exclusive use   *)
(* and as long as Git is not misread, of the four other properties.        *)

Fresh == {"validate", "init", "remote", "name", "email", "identity", "ignore",
          "truncate", "block", "stage", "safety", "commit"}

Recording == {"read", "initialized", "mode", "version", "initial", "final"}

(* A running script has arguments, and a block to write has a mode.        *)
JobInv ==
    \A p \in Running :
        /\ job[p].mode \in Mode /\ job[p].version \in Version
        /\ pc[p] \in {"ignore", "truncate", "block"} => job[p].mode \in Blocks

OneRuns == \A p, q \in Running : p = q

(* Nobody gets past the runtime validator with a memory that was used.     *)
UsedInv ==
    files.memory = "used" =>
        \A p \in Running : pc[p] \in {"root", "head", "existing", "check", "validate"}

(* Nothing is recorded before the root commit, and only init_workspace.py  *)
(* records anything.                                                       *)
UnbornInv ==
    /\ commits = 0 <=> head = NoTree
    /\ commits = 0 => made = 0 /\ config = NoConfig /\ first.by = "nobody"
    /\ repo # "own" => commits = 0
    /\ made \in {0, 1}
    /\ made = 1 => first.by = "init"
    /\ config.initialized => made = 1

Placed(p) ==
    /\ job[p].existing \/ pc[p] \in (Fresh \cup Recording) \ {"validate", "init"} =>
          repo = "own"
    /\ pc[p] \in Fresh => head = NoTree
    /\ pc[p] \in Recording => made = 1

(* How far the configuration has been written.                             *)
Recorded(p) ==
    /\ pc[p] \in {"read", "initialized"} => config = NoConfig
    /\ pc[p] = "mode" => config.mode = "unset"
    /\ pc[p] \in {"mode", "version"} => config.version = "unset"
    /\ pc[p] \in {"mode", "version", "initial"} => config.commit = 0
    /\ pc[p] \in {"version", "initial", "final"} => config.mode = job[p].mode
    /\ pc[p] \in {"initial", "final"} => config.version = job[p].version

RunInv == \A p \in Running : Placed(p) /\ Recorded(p)

ReportInv == \A r \in reported : r.mode = config.mode /\ r.version = config.version

InitInv == OneRuns /\ UnbornInv /\ RunInv /\ ReportInv

(* The root commit fits the mode; in untracked mode the memory is neither  *)
(* tracked nor about to be.                                                *)
Fits(mode) ==
    IF mode = "untracked"
    THEN /\ first.tree.memory = "absent" /\ head.memory = "absent"
         /\ staged.memory = "absent" /\ files.ignore = "shipped"
    ELSE first.tree.ignore = mode /\ first.tree.memory = "shipped"

(* What the steps before the commit have made of the directory.            *)
Prepared(p) ==
    /\ pc[p] \in {"init", "remote", "name", "email", "identity"} =>
          files.ignore = "shipped" /\ files.memory = "shipped"
    /\ pc[p] \in {"ignore", "truncate", "block"} =>
          files.memory = "shipped"
    /\ pc[p] \in {"stage", "safety", "commit"} =>
          IF job[p].mode = "untracked" THEN files.ignore = "shipped"
          ELSE files.ignore = job[p].mode /\ files.memory = "shipped"
    /\ pc[p] \in {"safety", "commit"} =>
          IF job[p].mode = "untracked" THEN staged.memory = "absent"
          ELSE staged.ignore = job[p].mode /\ staged.memory = "shipped"

ModeInv ==
    count.extracts = 0 =>
        /\ head = NoTree /\ staged.memory # "absent" => files.ignore # "shipped"
        /\ config.mode # "unset" => Fits(config.mode)
        /\ \A p \in Running : Prepared(p) /\ (pc[p] \in Recording => Fits(job[p].mode))

(* A root commit of init_workspace.py whose configuration does not say so  *)
(* yet belongs to the run that is about to say it, until a run was killed. *)
UnrecordedInv ==
    count.faults = 0 /\ first.by = "init" /\ ~ config.initialized =>
        \E p \in Proc : pc[p] \in {"read", "initialized"}

===============================================================================
