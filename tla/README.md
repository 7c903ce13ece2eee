# Formal models of the minius_codex_lab tooling

`minius_codex_lab` ships a workspace in which a lawyer and the Codex agent work on
matters. Around the prose (skills, roles, templates) there are about 7600 lines of Python
and workflow code: scripts that keep the workspace's memory files and Git state, a probe of
the Codex runtime, a release builder, a publication workflow, a document builder and two
checkers. This directory models that code in TLA+, checks the models with TLC on small
instances, and proves the main safety properties with TLAPS for all instances.

Paths below are relative to the repository. `scripts/` of the workspace means
`workspace-template/scripts/`.

## 1. Inventory

**Workspace memory lifecycle** (`new_matter.py`, `start_session.py`, `finish_session.py`).
State: `memory/index.yaml` (active matter, active sessions), `memory/CURRENT.md` (a
snapshot in sections), `memory/sessions/<id>.md` (one note per session), `matters/<id>/`,
and the Git branches and worktrees. Operations: create a matter from the template and
activate it; start a session, optionally on a new branch or in a new worktree; close one
with a handoff. Each script is a process of its own. They interact only through the files
and Git, hold no lock, and rewrite whole files. Hard: several chats run them at once (the
docs encourage parallel sessions), a process may die between truncating a file and writing
it, ids have a resolution of a second, a session's record is removed by a substring test,
and one of the three files may be written while the next one fails. Correct if: the three
kinds of file agree about which sessions are open, what they name exists, a reported
matter is not lost, no branch is reset or checked out twice, and a new worktree starts
from everything its source held.

**Workspace initialiser** (`init_workspace.py`). State: the Git repository (index, HEAD,
local configuration) and `.gitignore`. One operation: turn an extracted release into a
repository with one commit, recording the memory mode in four configuration keys; a second
run recognises the result. Hard: it can stop between any two of about twenty commands, and
is then run again, maybe with another mode. Correct if: there is at most one initial
commit, a recorded mode never changes, what the mode keeps out of Git stays out, and a
workspace it made is never mistaken for a foreign one.

**Runtime probe** (`scripts/codex_runtime_probe.py`). A JSON-RPC client over a child
process: reader threads feed a queue, requests have deadlines, `close()` escalates from
waiting to terminate to kill. Twelve required checks go from NOT_RUN to PASS or FAIL.
Hard: an answer that races the deadline, the child's death while a request waits, answers
to other requests in between. Correct if: PASS is reported only when every check passed,
every answer is matched to its own request, and the child does not outlive the probe.

**Release publication** (`.github/workflows/release.yml`). State: the GitHub release and
its assets. The job creates or repairs a draft, uploads, verifies, publishes, and verifies
again; it may be cancelled or fail anywhere and be rerun. Correct if: what is public was
verified and has exactly the expected assets, and a published release is never edited.

**Release build** (`scripts/build_release.py`). Maps an allowlist of sources to a payload,
writes archive, checksum and SBOM through temporary files, and in reproducible mode builds
twice and compares. Correct if: what lies in the output directory belongs together.

**Verifiable documents** (`tools/verifiable_document/`). State: the source files, the source
objects made of them, the specification of a document, and five output files: HTML, DOCX, the
validation report, the build report and the report of `validate.py`. `ingest.py` turns a source
into units with digests, an author pastes them into the specification and writes claims about
them, `validate.py` reports findings, `build.py` builds unless findings block it. Hard: the
sources and the specification change while any of them runs, `ingest.py` reads a source twice,
a build writes its reports and documents one after another over those of the build before, and
may fail between any two. Correct if: a document on disk never cites what does not exist or is
not verified, every text it quotes is its source's, and a build that reports success leaves
documents and reports of one specification.

**Repository safety scanner** (`scripts/check_repo_safety.py`). Keeps no state: it lists and reads
the index, the worktree and the remote with one Git or `gh` command after another, and gates
commits, CI, the initialiser and the release build. Hard: what it looks at changes between any
two commands, and each of them may fail. Correct if: a scan that passes has seen every path as
the profile allows it, and the remote it vouches for is the one the profile asks for.

**Workspace validator** (`scripts/validate_workspace.py`): a read-only comparison of files with
tables of what they must contain. **Hooks, the synthetic end-to-end script, CI, skills and
roles** keep no state, or are prose.

The hazards this code has, each at its line and with the properties that look for it, are
in `PROJECT.json` under `hazards`.

## 2. Plan

In the order of what a mistake costs the user of the workspace:

1. **Memory lifecycle** (`MemoryFiles`, then `WorkspaceMemory`): the heart of the product,
   where lost work is silent.
2. **Initialiser** (`WorkspaceInit`): the state every other script starts from.
3. **Runtime probe** (`JsonLineClient` composed into `RuntimeProbe`): the one part with
   threads, deadlines and a child process.
4. **Release publication** (`ReleasePublish` implementing the abstract `ReleaseContract`).
5. **Release build** (`ReleaseBuild`).
6. **Verifiable documents** (`DocumentSpec`, `EvidenceIngest`, composed into
   `VerifiableDocument`): ingest, author and builds over the same files.
7. **Scanner** (`SafetyScan`): the gate of every commit, against a repository that changes.

All seven are modelled, checked and proved about. The workspace validator was to follow the
scanner, and does not: it reads each file once, keeps nothing, waits for nothing, and what it
decides is a table; section 8 says more. A composition of initialiser and lifecycle is not a
module of its own either: `WorkspaceMemory` starts in the state that `ReadyIsCommitted`
describes, and the scripts refuse any other.

Modules, the module each one uses, and the module of its theorems:

| module | uses | theorems in |
|---|---|---|
| `MemoryFiles` | – | – |
| `WorkspaceMemory` | extends `MemoryFiles` | `WorkspaceMemoryProofs`, `WorkspaceMemorySafety` |
| `WorkspaceInit` | – | `WorkspaceInitProofs` |
| `JsonLineClient` | – | (through `RuntimeProbe`) |
| `RuntimeProbe` | extends `JsonLineClient` | `RuntimeProbeProofs` |
| `ReleaseContract` | – | – |
| `ReleasePublish` | instantiates `ReleaseContract` | `ReleasePublishProofs` |
| `ReleaseBuild` | – | `ReleaseBuildProofs` |
| `DocumentSpec` | – | (through `VerifiableDocument`) |
| `EvidenceIngest` | extends `DocumentSpec` | (through `VerifiableDocument`) |
| `VerifiableDocument` | extends `EvidenceIngest` | `VerifiableDocumentProofs` |
| `SafetyScan` | – | `SafetyScanProofs` |
| `MC…` | extend the module they are named after | – |

No module declares a `RECURSIVE` operator, so each can be proved about.

## 3. Modules and code

In each model a process is a program counter `pc` whose values name the *next* step. A step
is what nobody else can interleave with: one system call on shared state (an `open` that
truncates, a write, a read, one Git or `gh` command) with the computation up to the next
one. `Path.write_text` is therefore two steps, and a kill may fall between them. The `map`
in `PROJECT.json` gives the lines of every definition.

### `MemoryFiles`: what is written in the memory files

The texts of `index.yaml` (`IndexText`: active matter and a set of entries), `CURRENT.md`
(`CurrentText`: sections with the entries they show) and the session note, with the text
transformations of the scripts. An `Entry` has a session id, a branch and a matter; a
`SessionId` is a second and a slug. Conversions are modelled by what they do:
`RemoveActiveSession` drops every line in which the id occurs as a *substring*
(`Mentions`, with `PrefixOf` saying which slugs are prefixes of which), `PruneBranches` and
`ReplaceHandoff` follow the regular expressions of `finish_session.py`, and a text that was
read between truncation and write is `EmptyIndex` or `EmptyCurrent`, from which the
rewriting functions start as the code's would.

### `WorkspaceMemory`: the three scripts

State: `index`, `current`, `logs`, `matters` per worktree; `present`, `head`, `branches`,
`committed` for Git; `pc` and `job` (the locals of `main`) per process, with the texts it has
read; `acked` records the matters whose script exited with 0.

| script | actions |
|---|---|
| `new_matter.py` | `NewMatter`, `MakeMatter`, `FillMatter`, `ReadIndex` … `WriteCurrent`, `Rollback` (`MatterOsError`) |
| `start_session.py` | `StartSession`, `CheckClean`, `CheckTracked`, `CheckBranch`, `CheckTarget`, `SwitchBranch`, `AddWorktree`, `RecordBranch`, `OpenNote`, `WriteTemplate`, `ReadLog`, `OpenLog`, `WriteLog`, `ReadIndex` … `WriteCurrent` |
| `finish_session.py` | `FinishSession`, `ReadLog`, `OpenLog`, `WriteLog`, `ReadIndex` … `WriteCurrent` |
| environment | `Abort` (kill or I/O error at any step), `Commit` (the user's), `Tick` |

`Exclusive` says whether scripts may run at the same time in one worktree.

### `WorkspaceInit`: the initialiser

State: `repo` (which repository Git finds), `files`, `staged`, `head` and `first` (trees of
code version, memory and `.gitignore`), `config` (the four `minius.*` keys), `identity`,
`remote`, `reported`. The actions follow `main` in order: `Launch`, `CheckRoot`,
`CheckHead`, then either `CheckExisting` and `CheckRecorded` (an earlier run's repository)
or `Validate`, `GitInit`, `CheckRemote`, `SetIdentity`, `CheckIdentity`, `ReadIgnore`,
`TruncateIgnore`, `WriteIgnore`, `Stage`, `CheckStaged`, `Commit`, `ReadCommit`, four
`Record`s, `FinalCheck`. `Misread` is a `git rev-parse` that fails, which `_git_root` and
`_has_head` take for no repository or no HEAD. `Abort` ends a run at any step. The environment edits
the memory,
commits, adds a remote, and extracts a release over the directory.

### `JsonLineClient` and `RuntimeProbe`: the probe

`JsonLineClient` has the child (`child`, `signal`), the pipes (`stdin`, `stdout`), the
reading thread, its queue, the clock of a request's deadline, and `nextId`. A line is a
result with an id, a notification or junk. The child may close its stdout or its stdin and run on:
then `ReadEof` or `SendFails` happens while it is alive. `RuntimeProbe` extends it with the main thread:
`checks`, `verdict`, `answers` (ids of the results that requests returned), `failure` (the
exception that unwinds the `with`), `home` (the temporary Codex home), `workspace` and
`snapshot`. `Request`, `CheckDeadline`, `Get`, `GetTimesOut` and `Returned` are the loop of
`request()`; `Close`, `Terminate`, `Kill`, `GiveUp` and `ChildEnded` are `close()` with its
three waits; the validators are one action each, in the order of `run_probe`, and pass or
fail freely; `UnexpectedError` is an exception that no `except` of `run_probe` names.

### `ReleaseContract` and `ReleasePublish`: the workflow

`ReleaseContract` has two variables: what is attested, and what is public. It allows one
publication, of a complete attested build, for ever. `ReleasePublish` has the release of a
tag (`state` and `body`: the assets, the title and notes, foreign assets), the job's `pc` and
locals, and `succeeded`. Each `gh` call that writes is an action, an upload one for each asset, with
`--clobber` deleting before it uploads (`Clobber`); the calls of `verify_release` are two, its five
views (`VerifyViews`) and its download (`Compare`). A tag that has a release already may get a
second one (`SecondRelease`): GitHub refuses it, or the job uploads to a new draft, and `gh` shows
either that or the old one from then on. Calls whose failure `set -e` does *not*
see (the `if`, the command substitution in `[[ … ]]`, the process substitution) are actions
of their own: `ViewFails`, `IsDraftFails`, `PruneFails`. `Stop` is a failure or
cancellation anywhere, `Rerun` the workflow started again with any build, `Maintain` a
maintainer's edit of a draft.

### `ReleaseBuild`: the builder

State: `source` (a version number per source file: an edit brings a content the file has not
had before), `out` (archive, checksum and SBOM in the output directory and in the two
temporary ones), `run` (the locals of a build), `verified` (payloads whose archive passed
`_extract_and_check`), `middle` (a ghost: the repository between the two builds). A build
reads its sources one by one (`ReadSource`), writes, checks, reads the requirements a second
time for the SBOM (`ReadRequirements`), and in reproducible mode runs twice, compares and
copies file by file. `Fail` and `Edit` can come between any two steps.

### `DocumentSpec`, `EvidenceIngest` and `VerifiableDocument`: the document tools

`DocumentSpec` is what the tools compute: a `Specification` (the author's outline with its claims,
and the sources with their units and their `local_path`, which may be missing or name a directory),
the findings of `validate_spec` one operator each, the
documents `build_html` and `build_docx` render (`Rendered`, with the anchors they define and the
links they contain), and `Sound`, what a reader relies on. A content stands for its digest.

`EvidenceIngest` is `ingest.py` as a process: `Extract` reads the file for its text, `Digest` reads
it again for its digest, `OpenObject` and `WriteObject` write the source object. `EditSource` may
come between any two; the history `mixed` holds the units that were written under the digest of a
content their file took after it was read.

`VerifiableDocument` adds the author (`WriteOutline`, `Paste`, `Verify`, `Reword`, and `Relocate`,
which changes a `local_path`), and a process that is `validate.py` or `build.py`: `Launch` reads the
specification, `ReadSource` looks for one source after another (`Found`: it hashes a file, reports
one that is not there, and passes over a source without a `local_path` or with a directory), then
`OpenReview` and `WriteReview`, or `Refuse`, or `OpenValidation`,
`WriteValidation`, for each format `OpenOutput`, `WriteOutput` and `CheckOutput` (which reads the
file back for its links and its digest), `OpenReport` and `WriteReport`. `StopRun` and `StopIngest`
end a process anywhere and leave its files as they are. `since` is history: what each source has
held since the run began.

### `SafetyScan`: the scanner

State: `file` (what each path is in HEAD, in the index and in the worktree), `origin`, `host` (what
GitHub answers about each repository), and one `scan` with what it has listed, read and found.
`FindRoot`, then `ListStaged`, or `ListCached` and `ListOthers`, or a `Walk` when Git does not
answer; `ReadIndex` and `ReadTree` for a path of the index, `ReadOther` for any other; then the
remote: `RemoteRoot`, `ListRemotes`, `GetFetchUrls`, `GetPushUrls`, `GetLogin`, `View`. Each may
fail. The environment writes, stages, unstages and commits, sets origin, and changes the
repositories on GitHub. `entries`, `origins` and `answers` are histories of the three since the
scan began; the properties say what a scan that passes proves about them.

## 4. Runs

| run | shows | bounds |
|---|---|---|
| `memory_sequential` | scripts one after another, at two seconds of one day and one of the next, in an `untracked` workspace, with one kill or I/O error: `OpenIsListed`, `ListedIsOpen`, `MattersExist`, `AckedMatterStays` | 1 process, 1 matter, 2 slugs (one a prefix of the other), 3 seconds over 2 days, 5 launches, 1 fault; 3.9 million states |
| `memory_worktrees` | two worktrees with a script in each and the user's commits: `OpenIsListed` in both, `NewWorktreeComplete`, and `OwnBranchesApart` for the behaviours in which every session has a branch | 2 processes, 5 launches, no fault; 1.1 million, without symmetry, since `OwnBranchesApart` is a temporal implication |
| `memory_parallel` | scripts at once in one worktree: what still holds (`ListedHasNote`, `HeadsDiffer`, `BranchOnlyAdvances`) | 2 processes, 2 worktrees, 3 launches; 1.6 million |
| `memory_lost_update` | *violation* of `OpenIsFound`: two `start_session.py` at once, and no other script beside them; both exit with 0, and one open session is in neither `index.yaml` nor `CURRENT.md` | 2 processes, 1 worktree; the constraint `OnlyStartsOverlap` |
| `memory_shared_note` | *violation*: two sessions of one second and slug share a note | 1 process |
| `init_rerun` | the initialiser interrupted and launched again, with another mode, version or after the user's own commits, where a `git rev-parse` may fail: `ReportsAgree`, `ReadyIsCommitted`, `ModeMatchesHistory`, `RecordedStays` | 3 launches, 2 faults, 1 failed `rev-parse`, 2 versions, 1 extraction, 1 user commit; 715 thousand |
| `init_refusal` | *violation*: after a kill between commit and configuration, every later run blames a foreign history | 2 launches, 1 fault |
| `runtime_probe` | the probe against a server that writes any line in any order, closes its pipes, ends or stays, and may ignore SIGTERM: the safety properties, that the probe goes forward (`ProbeGoesOn`), and that probe and child end | five requests, deadlines of 2 ticks, waits of 1, one unread line in pipe and queue; 280 thousand |
| `release_publish` | failures, reruns and edits of drafts: success means public, the contract is implemented, a job goes forward (`JobGoesOn`), the release is published in the end | 2 builds, 3 faults, 2 edits; 22 thousand |
| `release_build` | builds of both modes, edits and failures between any two steps | 3 sources, 3 launches, 2 edits; 174 thousand |
| `documents` | ingest, author, checks and builds, failing anywhere, over a source that changes and a `local_path` the author may change: `OutputIsSound`, `CitedIsInSource`, `PassedIsCurrent` | 1 source file with 2 contents, 3 outlines, builds of both formats, 1 ingest, 1 edit, 2 runs, 3 writes of the author; 2.1 million |
| `safety_scan` | a scan in each profile, staged, full or by walking, with and without the remote, while everything changes: `SafeWasClean`, `RemoteWasVerified` | 2 paths that begin in 2 ways, 3 settings of origin, 3 answers about 2 repositories, 2 changes; 2.5 million |

Why these bounds are enough to be interesting:

- *Memory.* The hazards are pairwise: a record lost by one script to another, a note shared
  by two sessions, a substring met by a second id. Two processes, two slugs and two worktrees
  produce each pair. Five launches are a matter, two sessions, the end of one and one more
  step, so that a session that was finished and one that was not are both there.
- *Initialiser.* Three launches are two interrupted ones and one that has to cope with what
  both left. The versions are symmetric.
- *Probe.* Five requests are the code's number. With a deadline of two ticks an answer comes
  before, at and after it; with one unread line in the pipe and one in the queue,
  writing, reading and taking interleave in every order. The code's queue has no limit, and
  the number of lines over a run has none in the model.
- *Publication.* Two builds are what a rerun needs to have other bytes. Three faults break
  the first job, the repair and the repair's verification.
- *Build.* One source is `requirements.txt`, which is read twice, and two edits can change
  what the first build has read and what the second has not.
- *Documents.* Three writes are a source object pasted, an outline for it and one more change; two
  runs are a build and another over its outputs, or a check before a build. One ingest and one
  edit produce the mixed object, and the stale one. The outlines are a claim that either content
  supports, one with counterevidence that only the old content has, and one that does not render.
- *Scanner.* One path is ordinary, one is ignored, below a skipped directory and not for the public.
  Two changes can hide and show again one path, or touch two steps of the remote check; the two
  repositories are the user's and one of the same name.

`CHECK_DEADLOCK FALSE` stands in the runs where the system may really stop: launches are
finite and nobody has to run another script, the probe and a scan end, and the counters of
ingests, builds, writes and edits run out. `release_publish` checks deadlock, since a job can
always be run again.

Bounds that sit in guards are named: `LastSecond`, `MaxLaunches`, `MaxFaults`, `MaxMisreads`,
`MaxExtracts`, `MaxCommits`, `MaxEdits`, `MaxLines`, `MaxIngests`, `MaxRuns`, `MaxWrites`,
`MaxSources`, `MaxChanges`. The clock of the probe is bounded by the deadline itself. One run has a
`CONSTRAINT`, `memory_lost_update`: it keeps to behaviours in which no other script runs beside
another, so that what TLC finds is due to two `start_session.py`.

### What the violated runs say

- `memory_lost_update`: `start_session.py` and its siblings read a file, compute, and write
  the whole file back without a lock. In TLC's trace a matter is made first, alone. Then two
  sessions of it start: the second reads `index.yaml` while the first has truncated it, and
  `CURRENT.md` before the first has written it, and writes both after the first has exited. Both
  exit with 0, and the first session has a note but is in neither file. `memory/README.md` calls the
  memory a layer between *parallel* sessions, and
  `GIT_WORKFLOW.md` sends the sessions of an untracked workspace to one directory.
- `memory_shared_note`: the id of a session is a second and a slug, and the note is written
  without looking whether it exists. `memory/README.md` promises one file per session.
- `init_refusal`: `git commit` and `git config minius.initialized` are two steps. A kill
  between them leaves a history that the script later calls "not created by
  init_workspace.py" although it was, and the workspace cannot be initialised any more.

## 5. Fairness

Only two specifications have fairness; the others promise nothing that must happen.

- `RuntimeProbe!FairSpec`: the main thread is scheduled, time passes, and the operating system
  ends a process it was told to kill. Nothing is asked of the app-server or of the thread
  that reads it: the server may be silent for ever, and `EverythingEnds` then rests on
  the deadlines and on the escalation of `close()`. This is what the code relies on:
  `queue.get(timeout=…)` and `wait(timeout=…)` return when their time is over.
- `ReleasePublish!FairSpec`: a job that was started goes on (`WF(JobStep)`; a GitHub runner
  executes the next command), and the workflow is run again after it failed (`WF(Rerun)`, an
  assumption about the maintainer: "updates the single release" in `docs/RELEASING.md:60` and
  the workflow's branch that repairs a draft are there for such runs). Failures and edits are
  bounded in number, so
  `EventuallyPublic` says that no combination of leftovers can make the job fail for ever.

## 6. What is proved

Every theorem is checked by `tlapm` to the last leaf and holds for all values of the constants
that satisfy the named assumptions: `FilesAssumption` and `MemoryAssumption`,
`InitAssumption`, `ClientAssumption`, `StatusAssumption` and `RequestsAssumption` (the
requests are the code's five), `PublishAssumption`, `BuildAssumption` (the allowlist is a
sequence of sources), `SpecAssumption`, `IngestAssumption` and `DocumentAssumption`, and
`ScanAssumption` (among the repositories of a user, one at most has a given name). They are
typing conditions, and TLC evaluates them in every run.

**Memory.** `TypeCorrect`, `ListedAlwaysNoted`, `HeadsAlwaysDiffer`, `BranchesOnlyAdvance` and
`WorkPresentInvariant` hold for any number of scripts at once and any faults.
`ListedHasNote` is not inductive, since a script writes a text that it read long ago, and a
worktree is populated from a commit. `NoteInv` adds that what every *pending* text and every
*committed* tree lists has its note too (`TextsNoted`, `TreesNoted`), that a script's own note
exists from its first write (`OwnNote`), and that notes are never deleted; lemmas in
`WorkspaceMemorySafety` show that each text transformation adds at most the script's own
entry. `HeadInv` ties each head to an existing branch, so that `git worktree add -b` and
`git switch -c`, which refuse existing branches, give fresh ones.

`MadeOnceStays` holds for them as well, under the one hypothesis `[]OneMaker`: no two
`new_matter.py` make one matter in one worktree at once. Then the only one at work on a matter
is the one that made its directory (`MakerInv`), hence its rollback removes its own; the race
that section 7 names is all that can lose a reported matter. `AckedMattersStay` is the
corollary for `Exclusive`, which gives `OneMaker`.

`OwnBranchesStayApart` is about the way `workspace-template/docs/GIT_WORKFLOW.md:25` recommends, one
branch per
session: under `[]OnOwnBranch` (every session is started with `--create-branch` or
`--worktree`) no `start_session.py` opens a note that exists, and no two sessions on record
share a branch or a note, in any interleaving of any scripts and with any faults. Nothing in
the scripts compares ids; the argument is that a branch is named after the day and the slug,
that Git refuses to create it twice, and that the note is opened only by the script whose
branch was new. `OwnInv` carries it: every entry in a file, in a commit, in a text a script
holds or about to be written (`OnRecord`) has the branch of its id, and that branch exists;
different entries have different branches, so do different scripts past their Git step
(`StartsApart`); and a note anywhere means its branch exists (`NotesOwn`). It assumes that
session branches are not deleted while their notes are kept; the scripts never delete one.
`OwnBranchOwnNote` draws the conclusion that `memory_shared_note` refutes for sessions without
a branch: one note per session.

`MattersAlwaysExist`, `OpenAlwaysListed`, `ListedAlwaysOpen` and `NewWorktreesComplete` need
`Exclusive` too. The first three speak of behaviours without faults, and their invariants are
implications from `faults = 0`. For `MattersExist`, `ExistInv` adds that the pending texts and the
commits name only matters that are there, that no commit holds half a copied one, and that a
matter being copied has its `new_matter.py`. For the two others, `Settled` relates the entries
of the index, the sessions `CURRENT.md` shows and the session notes, but for the session a script
is at work on (`own`) and its entry that the index already has (`late`). `SettledInv` says that it
holds of every commit, of every worktree no script writes to, and elsewhere of what the files
will be once the text the script holds is written (`Entries`, `Shown`): so emptying a file and
writing it back are no steps at all. Lemmas about `AddTo`, `PruneBranches` and `ReplaceHandoff` in
`WorkspaceMemoryProofs` show that `CURRENT.md` keeps exactly one section of branches with another
one after it, without which the scripts' patterns would miss it (`OneBranches`); `SettledRemoves`
is the case of a session that is dropped because its slug has the closed one's as a prefix.
`CleanInv` carries the clean check from `git status` to `git worktree add`: nobody writes to the
worktree or commits its branch in between.

**Initialiser.** Types hold for any number of runs at once; the other five theorems need
`Exclusive`, and three of them that no run has misread Git (`Sure`): a run whose `git rev-parse`
failed takes the directory for a fresh one, and in one that is as released it makes a second initial
commit and records its own mode. `RecordedAlwaysStays` says how far this goes: once the memory has
been used, the runtime validator stops such a run before it writes anything (`UsedInv`). `InitInv`
says where HEAD, the configuration and the history stand at each step
(`RunInv`: how far the keys are written; `UnbornInv`: nothing is recorded before the root
commit). `ModeInv` is the argument for the memory mode: before the commit `.gitignore` fits
the mode of the run, and what was staged by an interrupted one does not break it, as long as
no release is extracted again in between. `RefusedTruthfullyUnlessKilled` bounds the finding of
`init_refusal`: as long as no run was killed or failed in a command (`count.faults = 0`), the
script refuses as foreign only what somebody else committed. `UnrecordedInv` says that a root
commit of the script without its record belongs to a run that is about to write it.

**Probe.** `ProbeInv`: each check is judged at its own step and stays so (`ChecksInv`), the
verdict is given once and from the checks (`VerdictInv`), the number of answers follows the
main thread (`RequestInv`), the child lives inside the `with` unless it was killed
(`ChildInv`), and the last snapshot is taken when no child runs (`SnapshotInv`).

`ProbeAlwaysGoesOn` is the part of `EverythingEnds` that needs no fairness: its well-founded
measure. `TimeLeft` is the clock, a `Timeout` for each request not yet sent and a `Grace` for
each of the three waits of `close()` not yet begun. No step makes it grow, whatever the server
writes or ignores, and every tick of the clock lowers it, so that the probe can wait
5 × `Timeout` + 3 × `Grace` at most. Every step of the main thread sends the next request or goes
forward in the program (`Place`), except when it skips a notification: it does so while the
deadline lasts, and that deadline was set before the loop. A loop that set a new deadline for
every line it skips would violate it.

**Publication.** `SuccessAlwaysPublic` needs no exclusive use. `PublishImplementsContract` is
the refinement proof (initial states map to initial states, each step to a step of
`ReleaseContract` or a stutter) under `Exclusive`: no maintainer edits the draft between its
verification and its publication ("The workflow is the publication owner",
`docs/RELEASING.md:64`). `VerifiedInv` is the part
that an edit would break. `PublishedAlwaysStays` needs no exclusive use: nothing a job does,
however it came there, and no edit of a draft changes a public release. `JobsAlwaysGoOn` is the
measure behind `EventuallyPublic`: every command lowers `EffortLeft`, a natural number, and
nobody else raises it while the job runs. A job has 17 commands at most, and one more for each
edit of the draft meanwhile; a verification that fails ends it and never starts another repair.

**Build.** `BuildInv` has `FilesInv` (what lies in each directory at each step) and `ReadInv`,
the argument for `ReproducibleIsSnapshot`: each source read by the first build is at most as
new as in `middle`, each read by the second at least as new; when both builds agree, all
sources had the content of `middle`. This needs that an edit does not restore an earlier
content: an undo or a `git checkout` between the two builds could give them equal archives of a
payload that the repository never held at one moment. `AlwaysAgreedBeforeCopied` has no run of its
own: that the output directory is left
alone until two builds agree is a part of what the other theorems say.

**Documents.** `OutputsAlwaysSound` rests on `AcceptedIsSound` (a specification without errors is
`Sound`, finding by finding) and on `AcceptedLinksResolve`: what `build.py` writes is rendered from
the specification it validated, so a kill or a failure leaves the document of this build, the one
of an earlier, or a partial file. `Provenance` carries `CitedAlwaysInSource`: every unit in an
object, in the specification and in a document is its source's text, or is in `mixed`, or has a
text that its own digest does not match, which `validate_spec` refuses. For `PassedAlwaysCurrent`,
`Building` says what a build has read, checked and written at each of its steps. The theorem speaks
of the sources that `validate_spec` compares: those whose `local_path` led to a regular file when it
was looked for. A source without one, or with a directory, is never compared, no finding says so,
and the build exits with 0 even without `--allow-warnings`.

**Scanner.** `Learnt` says at each step of the remote check that what it has found so far was so at a
moment of the scan: the fetch URLs are those of an origin of the history, and the repository it
goes on with was the target of both kinds of URL, unless there is a finding. `FilesRead` is the
counterpart for paths: every path that is not still to be read was fine at a moment of the scan,
or there is a finding. A path is looked for in two listings taken at two moments, so the proof is
by cases on what it was at each of them; the one case that is in neither is `slipped`.

The theorems are listed in `PROJECT.json`. The invariants were first checked with TLC.

## 7. What is only model-checked

- Liveness: `EverythingEnds`, `EventuallyPublic`. Fairness needs `ENABLED`, which is beyond the
  prover. What is proved of each is the measure that every step lowers (`ProbeAlwaysGoesOn`,
  `JobsAlwaysGoOn`); that a step can always be taken, and that the measures add up to an end, is
  left to TLC.
- The three violations of section 4.

What is deliberately not claimed, since the code does not do it:

- `OpenIsListed`, `ListedIsOpen` and `MattersExist` after a kill or an I/O error. An error after
  `index.yaml` was written leaves an active matter whose directory the rollback removed. A script
  that dies between truncating `CURRENT.md` and writing it leaves an empty file: the next
  `start_session.py` appends its section at the end, the one after that appends another, and
  `finish_session.py`, whose pattern looks for a section with another one after it, prunes neither.
- The three of them, and `NewWorktreeComplete`, when scripts run at once in one worktree. Besides the
  lost record of `memory_lost_update`, `finish_session.py` may close a session whose
  `start_session.py` has written the note's template and no record yet: it finds no record to remove,
  and the record appears after it. A worktree made while a script writes in its source starts from
  what was committed, not from what that script is about to write.
- `AckedMatterStays` when two `new_matter.py` run at once for one matter in one worktree (the loser of
  the race removes the winner's directory).
- That a `start_session.py` that dies can be run again: the branch it made stays, and the same command
  is refused for the rest of the day, since branch names have the day and the slug.
- The initialiser's properties when two of it run at once, or somebody edits the directory between
  its validation and its commit.

## 8. What is not modelled

- **Memory**: users that check out branches by hand or commit a part of the files; the
  worktree path in an entry of `CURRENT.md`; `finish_session.py` called with a fragment of an
  id rather than a path (it resolves to one note, or refuses); `rmtree` as a single step;
  files that are not UTF-8.
- **Initialiser**: the name of the main branch (HEAD stays on one branch, so that the
  `git symbolic-ref` after a misread HEAD changes nothing), and the two checkers it runs, which are a
  comparison of versions and a free choice to block.
- **Probe**: the contents of answers, error codes, messages and their sanitising. Requests are
  far smaller than a pipe's buffer, so that sending never blocks. The promise is that Git prints
  the same status before and after: a file that was modified before the probe and is modified
  again while it runs shows no difference (`codex_runtime_probe.py:989`).
- **Publication**: of the drafts of a tag only the one that `gh` shows is in the model. It is assumed
  that `gh` goes on showing the same one, prefers a published release to any draft, and that a
  maintainer who deletes drafts deletes all of them; the others have no effect on the job. Builds
  of one tag differ in their bytes only; the five views of `verify_release` are read at once.
- **Build**: an edit that brings back an earlier content (section 6); the tables of allowed paths
  and the archive's checks, which pass or fail; two
  builders at once on one output directory; the temporary file of the archive, which nobody
  else reads.
- **Documents**: digests are taken to be injective. Shared outputs have one writer
  (`ARCHITECTURE.md:76`), so one validate or build runs at a time, and all builds have one
  basename. An author who changes a unit's text *and* its digest is not detected by the code and is
  left out. Not claimed, since the code does not do it: that a refused or failed build removes
  what an earlier one left. A build of HTML only leaves the older DOCX, and a build that fails
  leaves its `validation.json` beside an older `build.json`; only one that exits with 0 has
  `PassedIsCurrent`. Units are pasted as whole source objects. A unit of an ingest that raced an
  edit (`mixed`) shows a text that its source
  no longer has, under the new digest.
- **Scanner**: one scan, since it keeps nothing. Findings are judged when a candidate is read. A
  path that enters the index between the two listings is in neither (`slipped`), and a full scan
  whose `git rev-parse` fails walks the directory and reads no index, so that it passes whatever the
  index holds; both are in the properties as exceptions. Blobs are immutable, directories can be
  listed, origin is the only remote, and the
  authenticated user stays the same.
- **Workspace validator**: it compares files with tables, one after another, and writes nothing. It
  has one client that acts on it, the initialiser, where it is a step that passes or blocks; what it
  accepts is the tables themselves, and a model of them would repeat them.
- **Hooks** print memory files and the Git status. The **synthetic end-to-end script** calls the
  document tools one after another in a directory of its own, which is one behaviour of
  `VerifiableDocument`. **CI** is a list of commands. **Skills and roles** are prose for a language
  model.
