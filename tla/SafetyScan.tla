------------------------------- MODULE SafetyScan -------------------------------
(***************************************************************************)
(* scripts/check_repo_safety.py: one scan of a repository, and of its      *)
(* remote when asked, while its user goes on working. The scan takes its   *)
(* lists and contents from Git commands and file reads one after another;  *)
(* files, the index, commits, origin and the repository on GitHub may      *)
(* change between any two of them, and any command may fail or time out.   *)
(* A scan keeps nothing, so one scan is all there is to model.             *)
(***************************************************************************)
EXTENDS Naturals

CONSTANTS
    Path,           \* paths of the repository
    Barred,         \* paths no profile allows
    NotPublic,      \* paths upstream-public does not allow
    PolicyText,     \* paths whose text may speak of classification
    Odd,            \* paths with "..", a backslash or the like
    Ignored,        \* paths that .gitignore names
    Skipped,        \* paths below .git, .venv, caches and the like
    Repo,           \* repositories on GitHub
    Own, Named,     \* those of the authenticated user, and those with the
                    \* name minius_codex_lab
    Origins,        \* what origin may be set to
    Entries,        \* what a path may be when the scan begins
    Hosts,          \* what GitHub may answer about the repositories
    Absent,         \* no file, entry, remote or repository
    MaxChanges      \* bound

(* Text without a finding, text with a classification marker, and all that *)
(* is refused wherever it lies: secrets, personal data, large, binary or   *)
(* LFS files, links and special files, and unmerged index entries.         *)
Content == {"plain", "marked", "opaque"}

(* What a path is in HEAD, in the index and in the worktree. *)
Entry == [head : Content \cup {Absent}, index : Content \cup {Absent},
          tree : Content \cup {Absent}]

Profile == {"upstream-public", "workspace-local", "workspace-private"}

(* The repository a URL identifies, Absent when it is no GitHub URL, and   *)
(* whether it carries credentials or parameters.                           *)
Url == [repo : Repo \cup {Absent}, plain : BOOLEAN]

Origin == [fetch : SUBSET Url, push : SUBSET Url]

Visibility == {"PUBLIC", "PRIVATE", "INTERNAL"}

(* The repository that GitHub answers with, another one after a rename or  *)
(* a transfer.                                                             *)
Metadata == [repo : Repo, visibility : Visibility]

ASSUME ScanAssumption ==
    /\ Barred \cup NotPublic \cup PolicyText \cup Odd \cup Ignored \cup Skipped \subseteq Path
    /\ Own \cup Named \subseteq Repo /\ \A r, s \in Own \cap Named : r = s
    /\ Origins \subseteq {o \in Origin : o.fetch # {} /\ o.push # {}}
    /\ Entries \subseteq Entry /\ Hosts \subseteq [Repo -> Metadata \cup {Absent}]
    /\ Absent \notin Content \cup Repo \cup Origin \cup Metadata
    /\ MaxChanges \in Nat

VARIABLES
    file,       \* the entry of each path
    origin,     \* the remote of that name
    host,       \* what GitHub answers about each repository
    pc,         \* the next step of the scan, or how it ended
    scan,       \* its arguments, and what it has read and found
    entries, origins, answers,  \* history: the values of file, origin and
                                \* host since the scan began
    slipped,    \* history: paths that entered the index between the listings
    changes     \* counter

vars == <<file, origin, host, pc, scan, entries, origins, answers, slipped, changes>>

world == <<file, origin, host, entries, origins, answers, changes>>

-----------------------------------------------------------------------------

(* "indexed" are the paths to be read from the index, "todo" the ones not  *)
(* read yet, "at" the one whose worktree file is next. Findings are known  *)
(* by the part of the scan that made them.                                 *)
Scan == [profile : Profile, staged : BOOLEAN, remote : BOOLEAN, inGit : BOOLEAN,
         walk : BOOLEAN, indexed : SUBSET Path, todo : SUBSET Path,
         at : Path \cup {Absent}, fetch : SUBSET Url, repo : Repo \cup {Absent},
         findings : SUBSET {"file", "remote"}, verified : BOOLEAN]

FileSteps == {"root", "diff", "cached", "others", "files", "tree"}

RemoteSteps == {"remoteRoot", "remotes", "fetch", "push", "login", "view"}

(* Everything has its type, and what a step needs has been read. *)
TypeOK ==
    /\ file \in [Path -> Entry]
    /\ origin \in Origins \cup {Absent}
    /\ host \in Hosts
    /\ pc \in FileSteps \cup RemoteSteps \cup {"safe", "blocked"}
    /\ scan \in Scan
    /\ entries \in [Path -> SUBSET Entry] /\ \A p \in Path : file[p] \in entries[p]
    /\ origins \subseteq Origins \cup {Absent} /\ origin \in origins
    /\ answers \in [Repo -> SUBSET (Metadata \cup {Absent})]
    /\ \A r \in Repo : host[r] \in answers[r]
    /\ slipped \subseteq Path
    /\ changes \in 0..MaxChanges
    /\ pc = "tree" => scan.at \in scan.indexed \ scan.todo
    /\ pc \in RemoteSteps \cup {"safe"} => scan.todo = {}
    /\ pc = "safe" => scan.findings = {}
    /\ pc \in {"login", "view"} => scan.repo \in Repo

(* main checks the remote of workspace-private unasked. *)
Effective(profile, asked) == asked \/ profile = "workspace-private"

Init ==
    /\ file \in [Path -> Entries]
    /\ origin \in Origins \cup {Absent}
    /\ host \in Hosts
    /\ pc = "root"
    /\ \E profile \in Profile, staged \in BOOLEAN, asked \in BOOLEAN, inGit \in BOOLEAN :
           scan = [profile |-> profile, staged |-> staged,
                   remote |-> Effective(profile, asked), inGit |-> inGit,
                   walk |-> FALSE, indexed |-> {}, todo |-> {}, at |-> Absent,
                   fetch |-> {}, repo |-> Absent, findings |-> {}, verified |-> FALSE]
    /\ entries = [p \in Path |-> {file[p]}]
    /\ origins = {origin}
    /\ answers = [r \in Repo |-> {host[r]}]
    /\ slipped = {}
    /\ changes = 0
-----------------------------------------------------------------------------
(* Findings. They are computed when all candidates have been read; here    *)
(* each is found when its candidate is, which comes to the same.           *)

PathFinding(p) ==
    p \in Barred \/ (scan.profile = "upstream-public" /\ p \in NotPublic)

(* Absent is a candidate that could not be read. *)
ContentFinding(p, content) ==
    content \in {Absent, "opaque"} \/ (content = "marked" /\ p \notin PolicyText)

Accepted(p, content) == ~PathFinding(p) /\ ~ContentFinding(p, content)

FileFinding(p, content) == IF Accepted(p, content) THEN {} ELSE {"file"}

If(condition, finding) == IF condition THEN {finding} ELSE {}

(* The result is safe when nothing was found. *)
Verdict(findings) == IF findings = {} THEN "safe" ELSE "blocked"

AfterFiles == IF scan.remote THEN "remoteRoot" ELSE Verdict(scan.findings)

-----------------------------------------------------------------------------
(* The files. *)

(* git rev-parse --show-toplevel. When it fails, or says that the root is  *)
(* no worktree of its own, a full scan walks the file system, and a staged *)
(* one is refused.                                                         *)
FindRoot ==
    /\ pc = "root"
    /\ \E ok \in BOOLEAN :
        IF ok /\ scan.inGit
        THEN /\ pc' = IF scan.staged THEN "diff" ELSE "cached"
             /\ UNCHANGED scan
        ELSE /\ pc' = "files"
             /\ scan' = IF scan.staged THEN [scan EXCEPT !.findings = @ \cup {"file"}]
                        ELSE [scan EXCEPT !.walk = TRUE, !.todo = Path \ Skipped]
    /\ UNCHANGED <<world, slipped>>

Staged(e) == e.index \notin {Absent, e.head}

(* What a listing names is read, but for odd paths, which are findings. *)
Listed(paths) == [scan EXCEPT !.todo = paths \ Odd,
                              !.findings = @ \cup If(paths \cap Odd # {}, "file")]

(* git diff --cached --name-only, without deletions. *)
ListStaged ==
    /\ pc = "diff"
    /\ \E ok \in BOOLEAN :
        LET staged == {p \in Path : ok /\ Staged(file[p])}
        IN  scan' = [Listed(staged) EXCEPT !.indexed = staged,
                                           !.findings = @ \cup If(~ok, "file")]
    /\ pc' = "files"
    /\ UNCHANGED <<world, slipped>>

(* git ls-files --cached. *)
ListCached ==
    /\ pc = "cached"
    /\ pc' = "others"
    /\ \E ok \in BOOLEAN :
        scan' = [scan EXCEPT !.indexed = {p \in Path : ok /\ file[p].index # Absent},
                             !.findings = @ \cup If(~ok, "file")]
    /\ UNCHANGED <<world, slipped>>

(* git ls-files --others --exclude-standard. *)
ListOthers ==
    /\ pc = "others"
    /\ pc' = "files"
    /\ \E ok \in BOOLEAN :
        LET others == {p \in Path \ Ignored :
                           ok /\ file[p].index = Absent /\ file[p].tree # Absent}
            listed == Listed(scan.indexed \cup others)
        IN  scan' = [listed EXCEPT !.findings = @ \cup If(~ok, "file")]
    /\ slipped' = {p \in Path : p \notin scan.indexed /\ file[p].index # Absent}
    /\ UNCHANGED world

(* A mutant: the path stays on the list. *)
ReadAgain(p) ==
    /\ pc = "files"
    /\ p \in scan.todo \cap scan.indexed
    /\ \E content \in {file[p].index, Absent} :
        scan' = [scan EXCEPT !.at = p, !.findings = @ \cup FileFinding(p, content)]
    /\ pc' = IF scan.staged THEN "files" ELSE "tree"
    /\ UNCHANGED <<world, slipped>>

(* A mutant: the worktree file of a tracked path is not read. *)
ReadBlob(p) ==
    /\ pc = "files"
    /\ p \in scan.todo \cap scan.indexed
    /\ \E content \in {file[p].index, Absent} :
        scan' = [scan EXCEPT !.todo = @ \ {p}, !.at = p,
                             !.findings = @ \cup FileFinding(p, content)]
    /\ UNCHANGED <<world, pc, slipped>>

(* git ls-files --stage and git cat-file. Blobs do not change: the entry   *)
(* is read when its object id is. The worktree file is read next, but not  *)
(* by a staged scan.                                                       *)
ReadIndex(p) ==
    /\ pc = "files"
    /\ p \in scan.todo \cap scan.indexed
    /\ \E content \in {file[p].index, Absent} :
        scan' = [scan EXCEPT !.todo = @ \ {p}, !.at = p,
                             !.findings = @ \cup FileFinding(p, content)]
    /\ pc' = IF scan.staged THEN "files" ELSE "tree"
    /\ UNCHANGED <<world, slipped>>

(* The file may be unreadable, or another one by the time it is opened. *)
ReadTree ==
    /\ pc = "tree"
    /\ pc' = "files"
    /\ \E content \in {file[scan.at].tree, Absent} :
        scan' = [scan EXCEPT !.findings = @ \cup FileFinding(scan.at, content)]
    /\ UNCHANGED <<world, slipped>>

ReadOther(p) ==
    /\ pc = "files"
    /\ p \in scan.todo \ scan.indexed
    /\ ~scan.walk
    /\ \E content \in {file[p].tree, Absent} :
        scan' = [scan EXCEPT !.todo = @ \ {p}, !.findings = @ \cup FileFinding(p, content)]
    /\ UNCHANGED <<world, pc, slipped>>

(* The walk reads what it meets. *)
Walk(p) ==
    /\ pc = "files"
    /\ p \in scan.todo
    /\ scan.walk
    /\ \/ file[p].tree = Absent /\ scan' = [scan EXCEPT !.todo = @ \ {p}]
       \/ \E content \in {file[p].tree, Absent} :
              scan' = [scan EXCEPT !.todo = @ \ {p},
                                   !.findings = @ \cup FileFinding(p, content)]
    /\ UNCHANGED <<world, pc, slipped>>

EndFiles ==
    /\ pc = "files"
    /\ scan.todo = {}
    /\ pc' = AfterFiles
    /\ UNCHANGED <<world, scan, slipped>>

ScanFiles ==
    \/ FindRoot \/ ListStaged \/ ListCached \/ ListOthers
    \/ \E p \in Path : ReadIndex(p) \/ ReadOther(p) \/ Walk(p)
    \/ ReadTree \/ EndFiles
-----------------------------------------------------------------------------
(* The remote. *)

(* The remote check returns, with what it has found last. *)
Return(finding) ==
    LET findings == scan.findings \cup finding
    IN  /\ scan' = [scan EXCEPT !.findings = findings]
        /\ pc' = Verdict(findings)

RemoteRoot ==
    /\ pc = "remoteRoot"
    /\ \E ok \in BOOLEAN :
        IF ok /\ scan.inGit THEN pc' = "remotes" /\ UNCHANGED scan ELSE Return({"remote"})
    /\ UNCHANGED <<world, slipped>>

(* git remote. Only workspace-local may have no origin. *)
ListRemotes ==
    /\ pc = "remotes"
    /\ \E ok \in BOOLEAN :
        IF ok /\ origin # Absent
        THEN pc' = "fetch" /\ UNCHANGED scan
        ELSE Return(If(~ok \/ scan.profile # "workspace-local", "remote"))
    /\ UNCHANGED <<world, slipped>>

(* git remote get-url --all origin, which fails when there is none. *)
GetFetchUrls ==
    /\ pc = "fetch"
    /\ pc' = "push"
    /\ \E ok \in BOOLEAN :
        scan' = [scan EXCEPT !.fetch = IF ok /\ origin # Absent THEN origin.fetch ELSE {}]
    /\ UNCHANGED <<world, slipped>>

(* A mutant: where origin is pushed to does not matter. *)
IdentifyFetch(fetch, push, r) ==
    fetch # {} /\ push # {} /\ \A url \in fetch : url.repo = r

(* Every fetch and push URL identifies the one repository r. *)
Identify(fetch, push, r) ==
    fetch # {} /\ push # {} /\ \A url \in fetch \cup push : url.repo = r

(* git remote get-url --push --all origin, and the comparison of the URLs. *)
GetPushUrls ==
    /\ pc = "push"
    /\ \E ok \in BOOLEAN :
        LET push == IF ok /\ origin # Absent THEN origin.push ELSE {}
            finding == If(\E url \in scan.fetch \cup push : ~url.plain, "remote")
        IN  \/ \E r \in Repo :
                   /\ Identify(scan.fetch, push, r)
                   /\ pc' = IF scan.profile = "upstream-public" THEN "login" ELSE "view"
                   /\ scan' = [scan EXCEPT !.repo = r, !.findings = @ \cup finding]
            \/ /\ \A r \in Repo : ~Identify(scan.fetch, push, r)
               /\ Return({"remote"})
    /\ UNCHANGED <<world, slipped>>

(* gh api user. A wrong owner or name is a finding, and the check goes on. *)
GetLogin ==
    /\ pc = "login"
    /\ \/ /\ pc' = "view"
          /\ scan' = [scan EXCEPT !.findings =
                 @ \cup If(scan.repo \notin Own \cap Named, "remote")]
       \/ Return({"remote"})
    /\ UNCHANGED <<world, slipped>>

Wanted == [p \in Profile |-> IF p = "upstream-public" THEN {"PUBLIC"}
                             ELSE IF p = "workspace-private" THEN {"PRIVATE"}
                             ELSE Visibility]

(* For upstream-public the user's minius_codex_lab, else what origin names. *)
Expected == IF scan.profile = "upstream-public" THEN Own \cap Named ELSE {scan.repo}

(* gh repo view. *)
View ==
    /\ pc = "view"
    /\ \/ /\ host[scan.repo] # Absent
          /\ LET answer == host[scan.repo]
                 findings == scan.findings
                     \cup If(answer.repo \notin Expected, "remote")
                     \cup If(answer.visibility \notin Wanted[scan.profile], "remote")
             IN  /\ scan' = [scan EXCEPT !.findings = findings,
                                         !.verified = "remote" \notin findings]
                 /\ pc' = Verdict(findings)
       \/ Return({"remote"})
    /\ UNCHANGED <<world, slipped>>

CheckRemote ==
    RemoteRoot \/ ListRemotes \/ GetFetchUrls \/ GetPushUrls \/ GetLogin \/ View

-----------------------------------------------------------------------------
(* The user and GitHub. *)

Running == pc \in FileSteps \cup RemoteSteps

Change ==
    /\ Running
    /\ changes < MaxChanges
    /\ changes' = changes + 1
    /\ UNCHANGED <<pc, scan, slipped>>

SetFiles(files) ==
    /\ file' = files
    /\ entries' = [p \in Path |-> entries[p] \cup {files[p]}]
    /\ UNCHANGED <<origin, host, origins, answers>>

(* A file is written or removed, git add, git restore --staged, git rm     *)
(* --cached, git commit.                                                   *)
EditFiles ==
    \/ \E p \in Path :
        \/ \E content \in Content \cup {Absent} : SetFiles([file EXCEPT ![p].tree = content])
        \/ SetFiles([file EXCEPT ![p].index = file[p].tree])
        \/ SetFiles([file EXCEPT ![p].index = file[p].head])
        \/ SetFiles([file EXCEPT ![p].index = Absent])
    \/ SetFiles([p \in Path |-> [file[p] EXCEPT !.head = file[p].index]])

EditOrigin ==
    \E o \in Origins \cup {Absent} :
        /\ origin' = o
        /\ origins' = origins \cup {o}
        /\ UNCHANGED <<file, host, entries, answers>>

(* A repository is created, deleted, renamed, or changes its visibility. *)
EditHost ==
    \E now \in Hosts :
        /\ host' = now
        /\ answers' = [r \in Repo |-> answers[r] \cup {now[r]}]
        /\ UNCHANGED <<file, origin, entries, origins>>

Next ==
    \/ ScanFiles
    \/ CheckRemote
    \/ Change /\ (EditFiles \/ EditOrigin \/ EditHost)

Spec == Init /\ [][Next]_vars

-----------------------------------------------------------------------------

(* What a path must have been at some moment for a scan to let it pass: a  *)
(* blob that is staged, one in the index, a file that is tracked or not    *)
(* ignored, and a file that a walk does not skip.                          *)
StagedFine(p) == \E e \in entries[p] : ~Staged(e) \/ Accepted(p, e.index)

IndexFine(p) == \E e \in entries[p] : e.index = Absent \/ Accepted(p, e.index)

TreeFine(p) ==
    \E e \in entries[p] :
        (e.index = Absent /\ (e.tree = Absent \/ p \in Ignored)) \/ Accepted(p, e.tree)

WalkFine(p) == p \in Skipped \/ \E e \in entries[p] : e.tree = Absent \/ Accepted(p, e.tree)

(* When a scan passes, every path was as the profile allows it at some     *)
(* moment of the scan, whatever was edited, staged or committed meanwhile: *)
(* in the index when what is staged is scanned, in the index and in the    *)
(* worktree in a full scan, and in the worktree alone when git rev-parse   *)
(* failed and the directory is walked: such a scan has not looked at the   *)
(* index and its success says nothing of it. A path that enters the index  *)
(* between git ls-files --cached and git ls-files --others is in neither   *)
(* listing and is an exception.                                            *)
SafeWasClean ==
    pc = "safe" => \A p \in Path \ slipped :
        IF scan.staged THEN StagedFine(p)
        ELSE IF scan.walk THEN WalkFine(p)
        ELSE IndexFine(p) /\ TreeFine(p)

(* The reports that stand for a remote. *)
Vouched ==
    \/ scan.verified
    \/ pc = "safe" /\ scan.profile = "workspace-private"
    \/ /\ pc = "safe" /\ scan.remote
       /\ scan.profile = "workspace-local" => Absent \notin origins

PlainlyName(urls, r) == \A url \in urls : url.repo = r /\ url.plain

(* The remote behind a report that calls it verified, and behind every     *)
(* scan of workspace-private that passes, is one repository: all that      *)
(* origin fetched from and all that it pushed to at a moment of the scan   *)
(* is plain and names it, and GitHub answered with it and the visibility   *)
(* that the profile asks for. For upstream-public it is the user's         *)
(* minius_codex_lab.                                                       *)
RemoteWasVerified ==
    Vouched => \E r \in Repo :
        /\ \E o \in origins \ {Absent} : PlainlyName(o.fetch, r)
        /\ \E o \in origins \ {Absent} : PlainlyName(o.push, r)
        /\ \E answer \in answers[r] \ {Absent} :
               answer.repo = r /\ answer.visibility \in Wanted[scan.profile]
        /\ scan.profile = "upstream-public" => r \in Own \cap Named
=============================================================================
