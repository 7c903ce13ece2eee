---------------------------- MODULE WorkspaceMemory ----------------------------
(***************************************************************************)
(* The workspace's operational memory under the three lifecycle scripts    *)
(* scripts/new_matter.py, start_session.py and finish_session.py.          *)
(*                                                                         *)
(* Each script is one short-lived operating-system process. It holds no    *)
(* lock: it reads a memory file, computes the new text, opens the file for *)
(* writing (which empties it) and writes the text. Several scripts may run *)
(* at once, in one Git worktree or in several, and each of these steps is  *)
(* an action here, as is each Git command a script waits for.              *)
(***************************************************************************)
EXTENDS MemoryFiles

CONSTANTS
    Proc,       \* slots for running scripts
    Worktree,   \* directories that are or may become worktrees
    Root,       \* the worktree init_workspace.py initialised
    Mode,       \* minius.memoryMode
    Exclusive,  \* TRUE: users run one script at a time in a worktree
    MaxLaunches,  \* bound: scripts launched in a behaviour
    MaxFaults   \* bound: kills and I/O errors in a behaviour

ASSUME MemoryAssumption ==
    /\ Root \in Worktree
    /\ Mode \in {"untracked", "local-git", "private-approved"}
    /\ Exclusive \in BOOLEAN
    /\ MaxLaunches \in Nat
    /\ MaxFaults \in Nat

VARIABLES
    clock,        \* the current second
    launches,     \* scripts launched so far
    faults,       \* kills and I/O errors so far
    present,      \* worktrees that exist
    head,         \* the branch each worktree has checked out
    branches,     \* local branches
    committed,    \* the memory tree committed on each branch
    index,        \* memory/index.yaml of each worktree
    current,      \* memory/CURRENT.md of each worktree
    logs,         \* memory/sessions/<id>.md of each worktree
    matters,      \* matters/<id>/ of each worktree
    acked,        \* history: matters whose new_matter.py has exited with 0
    pc,           \* the next step of each script
    job,          \* its arguments and local variables
    indexText,    \* the text it is about to write to index.yaml,
    currentText,  \* to CURRENT.md
    logText       \* and to the session note

gitVars == <<present, head, branches, committed>>
fileVars == <<index, current, logs, matters>>
textVars == <<indexText, currentText, logText>>
vars == <<clock, launches, faults, gitVars, fileVars, acked, pc, job, textVars>>

-----------------------------------------------------------------------------
(* Steps of a script, in the order it takes them.                          *)

MatterSteps == {"mkdir", "fill", "rollback"}
GitSteps == {"clean", "tracked", "branch", "target", "switch", "addWorktree",
             "currentBranch"}
NoteSteps == {"noteOpen", "noteTemplate", "logRead", "logOpen", "logWrite"}
IndexSteps == {"indexRead", "indexOpen", "indexWrite"}
CurrentSteps == {"currentRead", "currentOpen", "currentWrite"}
Steps == MatterSteps \cup GitSteps \cup NoteSteps \cup IndexSteps \cup CurrentSteps

MatterOptions == {"activate", "noActivate"}
StartOptions  == {"plain", "createBranch", "worktree"}
FinishOptions == {"currentUpdate", "noCurrentUpdate"}

(* "root" is the worktree the script lies in, "work" the one it writes to. *)
Job == [cmd : {"new", "start", "finish"},
        option : MatterOptions \cup StartOptions \cup FinishOptions,
        root : Worktree, work : Worktree, matter : Matter,
        id : SessionId, branch : Branch, ids : SUBSET SessionId]

WithBranch(j, branch) == [j EXCEPT !.branch = branch]

WithIds(j, ids) == [j EXCEPT !.ids = ids]

NoJob == CHOOSE j \in Job : j.cmd = "new" /\ j.root = Root /\ j.work = Root

Tree(w) == [index |-> index[w], current |-> current[w],
            logs |-> logs[w], matters |-> matters[w]]

MatterState == {"absent", "copying", "ready"}

TreeType == [index : IndexText, current : CurrentText,
             logs : [SessionId -> NoteText], matters : [Matter -> MatterState]]

ShippedTree ==
    [index |-> ShippedIndex, current |-> ShippedCurrent,
     logs |-> [id \in SessionId |-> "absent"],
     matters |-> [m \in Matter |-> "absent"]]

TypeOK ==
    /\ clock \in Second
    /\ launches \in Nat
    /\ faults \in Nat
    /\ present \subseteq Worktree
    /\ head \in [Worktree -> Branch]
    /\ branches \subseteq Branch
    /\ committed \in [Branch -> TreeType]
    /\ index \in [Worktree -> IndexText]
    /\ current \in [Worktree -> CurrentText]
    /\ logs \in [Worktree -> [SessionId -> NoteText]]
    /\ matters \in [Worktree -> [Matter -> MatterState]]
    /\ acked \in [Worktree -> SUBSET Matter]
    /\ pc \in [Proc -> Steps \cup {"idle"}]
    /\ job \in [Proc -> Job]
    /\ indexText \in [Proc -> IndexText]
    /\ currentText \in [Proc -> CurrentText]
    /\ logText \in [Proc -> NoteText]

(* A workspace as init_workspace.py leaves it: one worktree, clean, on the *)
(* main branch, with the shipped memory files.                             *)
Init ==
    /\ clock = 0
    /\ launches = 0
    /\ faults = 0
    /\ present = {Root}
    /\ head = [w \in Worktree |-> Main]
    /\ branches = {Main}
    /\ committed = [b \in Branch |-> ShippedTree]
    /\ index = [w \in Worktree |-> ShippedIndex]
    /\ current = [w \in Worktree |-> ShippedCurrent]
    /\ logs = [w \in Worktree |-> ShippedTree.logs]
    /\ matters = [w \in Worktree |-> ShippedTree.matters]
    /\ acked = [w \in Worktree |-> {}]
    /\ pc = [p \in Proc |-> "idle"]
    /\ job = [p \in Proc |-> NoJob]
    /\ indexText = [p \in Proc |-> EmptyIndex]
    /\ currentText = [p \in Proc |-> EmptyCurrent]
    /\ logText = [p \in Proc |-> "absent"]

-----------------------------------------------------------------------------

Goto(p, step) == pc' = [pc EXCEPT ![p] = step]

(* The process is gone, and its local variables with it. *)
Exit(p) ==
    /\ pc' = [pc EXCEPT ![p] = "idle"]
    /\ job' = [job EXCEPT ![p] = NoJob]
    /\ indexText' = [indexText EXCEPT ![p] = EmptyIndex]
    /\ currentText' = [currentText EXCEPT ![p] = EmptyCurrent]
    /\ logText' = [logText EXCEPT ![p] = "absent"]

Refuse(p) == Exit(p) /\ UNCHANGED <<clock, launches, faults, gitVars, fileVars, acked>>

Uses(p, w) == pc[p] # "idle" /\ w \in {job[p].root, job[p].work}

Quiet(w) == \A p \in Proc : ~ Uses(p, w)

(* Memory is ignored by Git in untracked mode, so it never shows as dirt.  *)
Dirty(w) == Mode # "untracked" /\ Tree(w) # committed[head[w]]

-----------------------------------------------------------------------------
(* A user launches a script: everything main() validates before its first  *)
(* effect. A launch that is refused here changes nothing, so it is left    *)
(* out.                                                                    *)

Launch(p, j, first) ==
    /\ pc[p] = "idle"
    /\ launches < MaxLaunches
    /\ j.root \in present
    /\ Exclusive => Quiet(j.root) /\ Quiet(j.work)
    /\ pc' = [pc EXCEPT ![p] = first]
    /\ job' = [job EXCEPT ![p] = j]
    /\ launches' = launches + 1
    /\ UNCHANGED <<clock, faults, gitVars, fileVars, acked, textVars>>

(* Mutant: no check that the matter is new. *)
NewMatterAnyway(p, w, m, option) ==
    Launch(p, [NoJob EXCEPT !.cmd = "new", !.option = option,
                            !.root = w, !.work = w, !.matter = m],
           "mkdir")

NewMatter(p, w, m, option) ==
    /\ matters[w][m] = "absent"
    /\ Launch(p, [NoJob EXCEPT !.cmd = "new", !.option = option,
                               !.root = w, !.work = w, !.matter = m],
              "mkdir")

(* MATTER.md is a file as soon as copytree has got that far. *)
StartSession(p, w, target, slug, m, option) ==
    /\ matters[w][m] # "absent"
    /\ option = "worktree" => Mode # "untracked"
    /\ option # "worktree" => target = w
    /\ Launch(p, [NoJob EXCEPT !.cmd = "start", !.option = option,
                               !.root = w, !.work = target, !.matter = m,
                               !.id = [at |-> clock, slug |-> slug],
                               !.branch = SessionBranch(clock, slug)],
              IF option = "plain" THEN "currentBranch" ELSE "clean")

(* The query resolves to one note that exists: a path names any of them.   *)
FinishSession(p, w, id, option) ==
    /\ logs[w][id] # "absent"
    /\ Launch(p, [NoJob EXCEPT !.cmd = "finish", !.option = option,
                               !.root = w, !.work = w, !.id = id],
              "logRead")

-----------------------------------------------------------------------------
(* new_matter.py: the matter directory.                                    *)

SetMatter(p, state) ==
    matters' = [matters EXCEPT ![job[p].work][job[p].matter] = state]

(* copytree creates the directory, and fails if another process just did.  *)
MakeMatter(p) ==
    /\ pc[p] = "mkdir"
    /\ IF matters[job[p].work][job[p].matter] = "absent"
       THEN SetMatter(p, "copying") /\ Goto(p, "fill")
       ELSE UNCHANGED matters /\ Goto(p, "rollback")
    /\ UNCHANGED <<clock, launches, faults, gitVars, index, current, logs, acked, job, textVars>>

(* The rest of copytree and the placeholders. When another process has     *)
(* removed the directory meanwhile, copying fails, and replacing           *)
(* placeholders finds no file and goes on.                                 *)
FillMatter(p) ==
    LET there == matters[job[p].work][job[p].matter] # "absent" IN
    /\ pc[p] = "fill"
    /\ \/ /\ job[p].option = "activate"
          /\ IF there THEN SetMatter(p, "ready") ELSE UNCHANGED matters
          /\ Goto(p, "indexRead")
          /\ UNCHANGED <<acked, job, textVars>>
       \/ /\ job[p].option = "noActivate"
          /\ IF there THEN SetMatter(p, "ready") ELSE UNCHANGED matters
          /\ acked' = [acked EXCEPT ![job[p].work] = @ \cup {job[p].matter}]
          /\ Exit(p)
       \/ /\ ~ there
          /\ Goto(p, "rollback")
          /\ UNCHANGED <<matters, acked, job, textVars>>
    /\ UNCHANGED <<clock, launches, faults, gitVars, index, current, logs>>

(* except OSError: rmtree whatever is at the target, exit 2. *)
Rollback(p) ==
    /\ pc[p] = "rollback"
    /\ SetMatter(p, "absent")
    /\ Exit(p)
    /\ UNCHANGED <<clock, launches, faults, gitVars, index, current, logs, acked>>

-----------------------------------------------------------------------------
(* start_session.py: the Git state.                                        *)

Pass(p, step) ==
    /\ Goto(p, step)
    /\ UNCHANGED <<clock, launches, faults, gitVars, fileVars, acked, job, textVars>>

(* Mutant: a worktree may be made from a dirty one. *)
SkipClean(p) ==
    /\ pc[p] = "clean"
    /\ IF Dirty(job[p].root) /\ job[p].option # "worktree" THEN Refuse(p)
       ELSE Pass(p, IF job[p].option = "worktree" THEN "tracked" ELSE "branch")

CheckClean(p) ==
    /\ pc[p] = "clean"
    /\ IF Dirty(job[p].root) THEN Refuse(p)
       ELSE Pass(p, IF job[p].option = "worktree" THEN "tracked" ELSE "branch")

(* git ls-files knows MATTER.md once the commit caught a copied directory. *)
CheckTracked(p) ==
    LET state == committed[head[job[p].root]].matters[job[p].matter] IN
    /\ pc[p] = "tracked"
    /\ \/ state # "absent" /\ Pass(p, "branch")
       \/ state # "ready"  /\ Refuse(p)

CheckBranch(p) ==
    /\ pc[p] = "branch"
    /\ IF job[p].branch \in branches THEN Refuse(p)
       ELSE Pass(p, IF job[p].option = "worktree" THEN "target" ELSE "switch")

CheckTarget(p) ==
    /\ pc[p] = "target"
    /\ IF job[p].work \in present THEN Refuse(p) ELSE Pass(p, "addWorktree")

(* Mutant: git switch -C, which resets a branch that exists. *)
SwitchReset(p) ==
    LET w == job[p].root  b == job[p].branch IN
    /\ pc[p] = "switch"
    /\ branches' = branches \cup {b}
    /\ committed' = [committed EXCEPT ![b] = committed[head[w]]]
    /\ head' = [head EXCEPT ![w] = b]
    /\ Goto(p, "noteOpen")
    /\ UNCHANGED <<clock, launches, faults, present, fileVars, acked, job, textVars>>

(* git switch -c: Git itself refuses a branch that exists. *)
SwitchBranch(p) ==
    LET w == job[p].root  b == job[p].branch IN
    /\ pc[p] = "switch"
    /\ \/ b \in branches /\ Refuse(p)
       \/ /\ b \notin branches
          /\ branches' = branches \cup {b}
          /\ committed' = [committed EXCEPT ![b] = committed[head[w]]]
          /\ head' = [head EXCEPT ![w] = b]
          /\ Goto(p, "noteOpen")
          /\ UNCHANGED <<clock, launches, faults, present, fileVars, acked, job, textVars>>

(* Mutant: git worktree add --force, with a branch that may exist. *)
AddWorktreeForced(p) ==
    LET w == job[p].work  b == job[p].branch
        tree == committed[head[job[p].root]] IN
    /\ pc[p] = "addWorktree"
    /\ w \notin present
    /\ branches' = branches \cup {b}
    /\ committed' = [committed EXCEPT ![b] = tree]
    /\ present' = present \cup {w}
    /\ head' = [head EXCEPT ![w] = b]
    /\ index' = [index EXCEPT ![w] = tree.index]
    /\ current' = [current EXCEPT ![w] = tree.current]
    /\ logs' = [logs EXCEPT ![w] = tree.logs]
    /\ matters' = [matters EXCEPT ![w] = tree.matters]
    /\ Goto(p, "noteOpen")
    /\ UNCHANGED <<clock, launches, faults, acked, job, textVars>>

(* git worktree add -b: a new directory with what HEAD has committed. *)
AddWorktree(p) ==
    LET w == job[p].work  b == job[p].branch
        tree == committed[head[job[p].root]] IN
    /\ pc[p] = "addWorktree"
    /\ \/ (b \in branches \/ w \in present) /\ Refuse(p)
       \/ /\ b \notin branches /\ w \notin present
          /\ branches' = branches \cup {b}
          /\ committed' = [committed EXCEPT ![b] = tree]
          /\ present' = present \cup {w}
          /\ head' = [head EXCEPT ![w] = b]
          /\ index' = [index EXCEPT ![w] = tree.index]
          /\ current' = [current EXCEPT ![w] = tree.current]
          /\ logs' = [logs EXCEPT ![w] = tree.logs]
          /\ matters' = [matters EXCEPT ![w] = tree.matters]
          /\ Goto(p, "noteOpen")
          /\ UNCHANGED <<clock, launches, faults, acked, job, textVars>>

(* Mutant: the session is registered without a note. *)
RecordBranchOnly(p) ==
    /\ pc[p] = "currentBranch"
    /\ job' = [job EXCEPT ![p] = WithBranch(@, head[job[p].root])]
    /\ Goto(p, "indexRead")
    /\ UNCHANGED <<clock, launches, faults, gitVars, fileVars, acked, textVars>>

(* Without --create-branch and --worktree: whatever is checked out. *)
RecordBranch(p) ==
    /\ pc[p] = "currentBranch"
    /\ job' = [job EXCEPT ![p] = WithBranch(@, head[job[p].root])]
    /\ Goto(p, "noteOpen")
    /\ UNCHANGED <<clock, launches, faults, gitVars, fileVars, acked, textVars>>

-----------------------------------------------------------------------------
(* The session note: start_session.py copies the template and then fills   *)
(* it in, finish_session.py writes the handoff into it.                    *)

SetLog(p, note) == logs' = [logs EXCEPT ![job[p].work][job[p].id] = note]

OpenNote(p) ==
    /\ pc[p] = "noteOpen"
    /\ SetLog(p, "empty")
    /\ Goto(p, "noteTemplate")
    /\ UNCHANGED <<clock, launches, faults, gitVars, index, current, matters, acked, job, textVars>>

WriteTemplate(p) ==
    /\ pc[p] = "noteTemplate"
    /\ SetLog(p, "template")
    /\ Goto(p, "logRead")
    /\ UNCHANGED <<clock, launches, faults, gitVars, index, current, matters, acked, job, textVars>>

ReadLog(p) ==
    LET note == logs[job[p].work][job[p].id] IN
    /\ pc[p] = "logRead"
    /\ \/ /\ job[p].cmd = "start"
          /\ logText' = [logText EXCEPT ![p] = ReplaceTemplate(note)]
          /\ UNCHANGED job
       \/ /\ job[p].cmd = "finish"
          /\ logText' = [logText EXCEPT ![p] = WriteHandoff(note)]
          /\ job' = [job EXCEPT ![p] = WithIds(@, HeaderIds(note, job[p].id))]
    /\ Goto(p, "logOpen")
    /\ UNCHANGED <<clock, launches, faults, gitVars, fileVars, acked, indexText, currentText>>

OpenLog(p) ==
    /\ pc[p] = "logOpen"
    /\ SetLog(p, "empty")
    /\ Goto(p, "logWrite")
    /\ UNCHANGED <<clock, launches, faults, gitVars, index, current, matters, acked, job, textVars>>

WriteLog(p) ==
    /\ pc[p] = "logWrite"
    /\ SetLog(p, logText[p])
    /\ logText' = [logText EXCEPT ![p] = "absent"]
    /\ Goto(p, "indexRead")
    /\ UNCHANGED <<clock, launches, faults, gitVars, index, current, matters, acked, job,
                   indexText, currentText>>

-----------------------------------------------------------------------------
(* memory/index.yaml, rewritten by all three scripts.                      *)

EntryOf(p) == [id |-> job[p].id, branch |-> job[p].branch, matter |-> job[p].matter]

NewIndexText(p) ==
    LET text == index[job[p].work] IN
    CASE job[p].cmd = "new"    -> UpdateIndex(text, job[p].matter)
      [] job[p].cmd = "start"  -> AddActiveSession(text, EntryOf(p))
      [] job[p].cmd = "finish" -> RemoveActiveSession(text, job[p].ids)

ReadIndex(p) ==
    /\ pc[p] = "indexRead"
    /\ indexText' = [indexText EXCEPT ![p] = NewIndexText(p)]
    /\ Goto(p, "indexOpen")
    /\ UNCHANGED <<clock, launches, faults, gitVars, fileVars, acked, job, currentText, logText>>

OpenIndex(p) ==
    /\ pc[p] = "indexOpen"
    /\ index' = [index EXCEPT ![job[p].work] = EmptyIndex]
    /\ Goto(p, "indexWrite")
    /\ UNCHANGED <<clock, launches, faults, gitVars, current, logs, matters, acked, job, textVars>>

WriteIndex(p) ==
    /\ pc[p] = "indexWrite"
    /\ index' = [index EXCEPT ![job[p].work] = indexText[p]]
    /\ \/ /\ job[p].option = "noCurrentUpdate"
          /\ Exit(p)
       \/ /\ job[p].option # "noCurrentUpdate"
          /\ indexText' = [indexText EXCEPT ![p] = EmptyIndex]
          /\ Goto(p, "currentRead")
          /\ UNCHANGED <<job, currentText, logText>>
    /\ UNCHANGED <<clock, launches, faults, gitVars, current, logs, matters, acked>>

-----------------------------------------------------------------------------
(* memory/CURRENT.md, the last file each script rewrites.                  *)

NewCurrentText(p) ==
    LET text == current[job[p].work] IN
    CASE job[p].cmd = "new"    -> UpdateCurrentMatter(text, job[p].matter)
      [] job[p].cmd = "start"  -> AddCurrentSession(text, EntryOf(p))
      [] job[p].cmd = "finish" -> UpdateCurrentHandoff(text, job[p].ids)

ReadCurrent(p) ==
    /\ pc[p] = "currentRead"
    /\ currentText' = [currentText EXCEPT ![p] = NewCurrentText(p)]
    /\ Goto(p, "currentOpen")
    /\ UNCHANGED <<clock, launches, faults, gitVars, fileVars, acked, job, indexText, logText>>

OpenCurrent(p) ==
    /\ pc[p] = "currentOpen"
    /\ current' = [current EXCEPT ![job[p].work] = EmptyCurrent]
    /\ Goto(p, "currentWrite")
    /\ UNCHANGED <<clock, launches, faults, gitVars, index, logs, matters, acked, job, textVars>>

WriteCurrent(p) ==
    /\ pc[p] = "currentWrite"
    /\ current' = [current EXCEPT ![job[p].work] = currentText[p]]
    /\ acked' = IF job[p].cmd = "new"
                THEN [acked EXCEPT ![job[p].work] = @ \cup {job[p].matter}]
                ELSE acked
    /\ Exit(p)
    /\ UNCHANGED <<clock, launches, faults, gitVars, index, logs, matters>>

-----------------------------------------------------------------------------
(* Faults.                                                                 *)

(* A script is killed at any point; or start_session.py or                 *)
(* finish_session.py meets an OSError, which neither undoes anything for.  *)
Abort(p) ==
    /\ pc[p] # "idle"
    /\ faults < MaxFaults
    /\ faults' = faults + 1
    /\ Exit(p)
    /\ UNCHANGED <<clock, launches, gitVars, fileVars, acked>>

(* new_matter.py meets an OSError in its try block. *)
MatterOsError(p) ==
    /\ job[p].cmd = "new"
    /\ pc[p] \notin {"idle", "rollback"}
    /\ faults < MaxFaults
    /\ faults' = faults + 1
    /\ Goto(p, "rollback")
    /\ UNCHANGED <<clock, launches, gitVars, fileVars, acked, job, textVars>>

-----------------------------------------------------------------------------
(* The environment: time, and the user's commits. The scripts never commit. *)

Tick ==
    /\ clock < LastSecond
    /\ clock' = clock + 1
    /\ UNCHANGED <<launches, faults, gitVars, fileVars, acked, pc, job, textVars>>

Commit(w) ==
    /\ Mode # "untracked"
    /\ w \in present
    /\ Exclusive => Quiet(w)
    /\ committed' = [committed EXCEPT ![head[w]] = Tree(w)]
    /\ UNCHANGED <<clock, launches, faults, present, head, branches, fileVars, acked, pc, job, textVars>>

Launches(p) ==
    \E w \in Worktree :
        \/ \E m \in Matter, option \in MatterOptions : NewMatter(p, w, m, option)
        \/ \E m \in Matter, target \in Worktree, slug \in Slug, option \in StartOptions :
              StartSession(p, w, target, slug, m, option)
        \/ \E id \in SessionId, option \in FinishOptions :
              FinishSession(p, w, id, option)

Step(p) ==
    \/ MakeMatter(p) \/ FillMatter(p) \/ Rollback(p)
    \/ CheckClean(p) \/ CheckTracked(p) \/ CheckBranch(p) \/ CheckTarget(p)
    \/ SwitchBranch(p) \/ AddWorktree(p) \/ RecordBranch(p)
    \/ OpenNote(p) \/ WriteTemplate(p) \/ ReadLog(p) \/ OpenLog(p) \/ WriteLog(p)
    \/ ReadIndex(p) \/ OpenIndex(p) \/ WriteIndex(p)
    \/ ReadCurrent(p) \/ OpenCurrent(p) \/ WriteCurrent(p)

Next ==
    \/ \E p \in Proc : Launches(p) \/ Step(p) \/ Abort(p) \/ MatterOsError(p)
    \/ \E w \in Worktree : Commit(w)
    \/ Tick

Spec == Init /\ [][Next]_vars

-----------------------------------------------------------------------------
(* Properties.                                                             *)

Sessions(indexed, shown) == indexed.active \cup CurrentSessions(shown)

Listed(w) == Sessions(index[w], current[w])

(* A session that the index or CURRENT.md names has its note: the record   *)
(* is written after the note and notes are never deleted, and that holds   *)
(* through any interleaving of stale reads and writes, kills and I/O       *)
(* errors, and for a worktree populated from a commit.                     *)
ListedHasNote ==
    \A w \in Worktree : \A entry \in Listed(w) : logs[w][entry.id] # "absent"

(* No two worktrees have the same branch checked out, however the branch   *)
(* checks of several start_session.py processes interleave.                *)
HeadsDiffer ==
    \A v, w \in present : head[v] = head[w] => v = w

(* A branch only ever moves by a commit made in a worktree that has it     *)
(* checked out: starting a session never resets an existing branch.        *)
MovesByCommit ==
    \A b \in branches : committed'[b] # committed[b] =>
        \E w \in present : head[w] = b /\ committed'[b] = Tree(w)

BranchOnlyAdvances == [][MovesByCommit]_vars

(* An open session is not lost: between scripts, index.yaml and CURRENT.md *)
(* both name every session whose note is open. The exception is a session  *)
(* of the same second whose slug is a prefix: finish_session.py looks for  *)
(* its id as a substring and drops both.                                   *)
Covered(id, notes) ==
    \E other \in SessionId :
        other # id /\ notes[other] # "absent" /\ Mentions([id |-> id], {other})

OpenIsListed ==
    \A w \in present : Quiet(w) /\ faults = 0 =>
        \A id \in SessionId : logs[w][id] = "open" =>
            \/ Covered(id, logs[w])
            \/ /\ \E entry \in index[w].active : entry.id = id
               /\ \E entry \in CurrentSessions(current[w]) : entry.id = id

(* memory/README.md promises less: parallel sessions find one another in    *)
(* the memory. An open session is then at least in one of the two files.   *)
OpenIsFound ==
    \A w \in present : Quiet(w) /\ faults = 0 =>
        \A id \in SessionId : logs[w][id] = "open" =>
            Covered(id, logs[w]) \/ \E entry \in Listed(w) : entry.id = id

(* A finished session is not left behind: between scripts, every session   *)
(* of index.yaml is open and CURRENT.md shows it too.                      *)
ListedIsOpen ==
    \A w \in present : Quiet(w) /\ faults = 0 =>
        \A entry \in index[w].active :
            logs[w][entry.id] = "open" /\ entry \in CurrentSessions(current[w])

(* A matter whose new_matter.py exited with 0 stays: neither the rollback  *)
(* of a later attempt nor a killed script takes its directory away.        *)
AckedMatterStays ==
    \A w \in Worktree : \A m \in acked[w] : matters[w][m] = "ready"

(* active_matter and every listed session point at a matter that is there, *)
(* as long as no I/O error interrupts new_matter.py.                       *)
MattersExist ==
    faults = 0 =>
        \A w \in Worktree :
            /\ index[w].matter \in Matter => matters[w][index[w].matter] = "ready"
            /\ \A entry \in Listed(w) : matters[w][entry.matter] = "ready"

(* A new worktree omits nothing of the one it was made from: the clean     *)
(* check of start_session.py still holds when git worktree add runs.       *)
NewWorktreeComplete ==
    [][\A w \in present' \ present : \E v \in present :
          /\ head'[v] = head[v]
          /\ \E p \in Proc : job[p].root = v /\ job[p].work = w /\ pc[p] = "addWorktree"
          /\ index'[w] = index[v] /\ current'[w] = current[v]
          /\ logs'[w] = logs[v] /\ matters'[w] = matters[v]]_vars

(* One handoff file per session: no two sessions of the index share a note. *)
OneNotePerSession ==
    \A w \in present : \A e1, e2 \in index[w].active : e1.id = e2.id => e1 = e2

(* One branch per session, docs/GIT_WORKFLOW.md says: as long as sessions  *)
(* are started with --create-branch or --worktree only,                    *)
OnOwnBranch ==
    \A p \in Proc : pc[p] # "idle" /\ job[p].cmd = "start" => job[p].option # "plain"

(* no start_session.py opens a note that exists, in whatever worktree,     *)
NoteIsNew ==
    \A p \in Proc : pc[p] = "noteOpen" /\ job[p].cmd = "start" =>
        \A w \in Worktree : logs[w][job[p].id] = "absent"

(* and no two sessions on record, in one worktree or in two, have the same *)
(* branch or the same note, however the scripts interleave and wherever    *)
(* they are killed.                                                        *)
SessionsApart ==
    \A v, w \in Worktree : \A e \in Listed(v), f \in Listed(w) :
        e.id = f.id \/ e.branch = f.branch => e = f

OwnBranchesApart == []OnOwnBranch => [](NoteIsNew /\ SessionsApart)

-----------------------------------------------------------------------------
(* Inductive strengthenings of ListedHasNote, HeadsDiffer and              *)
(* AckedMatterStays.                                                       *)

Noted(entry, notes) == entry \in Entry /\ notes[entry.id] # "absent"

AllNoted(entries, notes) == \A entry \in entries : Noted(entry, notes)

(* Only start_session.py --worktree ever runs for a directory that is not  *)
(* a worktree yet, and until git worktree add it has read no memory file.  *)
WorkPresent ==
    /\ Root \in present
    /\ \A p \in Proc :
          /\ job[p].root \in present
          /\ \/ job[p].work \in present
             \/ /\ pc[p] \in {"clean", "tracked", "branch", "target", "addWorktree"}
                /\ job[p].cmd = "start" /\ job[p].option = "worktree"
          /\ pc[p] \in {"idle"} \cup GitSteps =>
                indexText[p] = EmptyIndex /\ currentText[p] = EmptyCurrent

(* The note of a running session command exists from its first write on.   *)
OwnNote ==
    \A p \in Proc :
        /\ job[p].cmd # "new" /\ pc[p] \notin GitSteps \cup {"idle", "noteOpen"} =>
              logs[job[p].work][job[p].id] # "absent"
        /\ pc[p] \in GitSteps \cup NoteSteps => job[p].cmd # "new"
        /\ pc[p] \in {"logOpen", "logWrite"} => logText[p] # "absent"

(* What is listed has a note: in the worktrees, in the commits a worktree  *)
(* may be made from, and in the texts that are about to be written.        *)
FilesNoted == \A w \in Worktree : AllNoted(Listed(w), logs[w])

TreesNoted ==
    \A b \in Branch :
        AllNoted(Sessions(committed[b].index, committed[b].current), committed[b].logs)

TextsNoted ==
    \A p \in Proc : AllNoted(Sessions(indexText[p], currentText[p]), logs[job[p].work])

NoteInv == WorkPresent /\ OwnNote /\ FilesNoted /\ TreesNoted /\ TextsNoted

HeadInv == /\ \A w \in present : head[w] \in branches
           /\ HeadsDiffer

(* Exclusive use of worktrees. It is more than AckedMatterStays needs:     *)
(* that no two new_matter.py are at work on the same matter directory.     *)
ExclusiveUse ==
    \A p, q \in Proc : \A w \in Worktree : Uses(p, w) /\ Uses(q, w) => p = q

OneMaker ==
    \A p, q \in Proc :
        /\ pc[p] # "idle" /\ job[p].cmd = "new"
        /\ pc[q] # "idle" /\ job[q].cmd = "new"
        /\ job[p].work = job[q].work /\ job[p].matter = job[q].matter
        => p = q

OwnMatter ==
    \A p \in Proc : pc[p] # "idle" /\ job[p].cmd = "new" =>
        LET state == matters[job[p].work][job[p].matter] IN
        /\ pc[p] \notin GitSteps \cup NoteSteps
        /\ job[p].matter \notin acked[job[p].work]
        /\ pc[p] = "mkdir" => state = "absent"
        /\ pc[p] = "fill" => state = "copying"
        /\ pc[p] \in IndexSteps \cup CurrentSteps => state = "ready"

MakerInv ==
    /\ WorkPresent
    /\ OwnMatter
    /\ \A p \in Proc : pc[p] \in MatterSteps => job[p].cmd = "new"
    /\ \A w \in Worktree : w \notin present => acked[w] = {}
    /\ AckedMatterStays

MatterInv == ExclusiveUse /\ MakerInv

-----------------------------------------------------------------------------
(* Inductive strengthening of MattersExist: it also holds of what is about *)
(* to be written and of what is committed, no commit has half a matter,    *)
(* and the matter of a new session is there when the session is recorded.  *)

InMatter(entry, dirs) == entry \in Entry /\ dirs[entry.matter] = "ready"

IndexInMatters(text, dirs) ==
    /\ text.matter \in Matter => dirs[text.matter] = "ready"
    /\ \A entry \in text.active : InMatter(entry, dirs)

ShownInMatters(text, dirs) == \A entry \in CurrentSessions(text) : InMatter(entry, dirs)

FilesInMatters ==
    \A w \in Worktree :
        IndexInMatters(index[w], matters[w]) /\ ShownInMatters(current[w], matters[w])

TextsInMatters ==
    \A p \in Proc : LET dirs == matters[job[p].work] IN
        IndexInMatters(indexText[p], dirs) /\ ShownInMatters(currentText[p], dirs)

WholeTree(tree) ==
    /\ IndexInMatters(tree.index, tree.matters)
    /\ ShownInMatters(tree.current, tree.matters)
    /\ \A m \in Matter : tree.matters[m] # "copying"

CopyingIsFilled ==
    \A w \in Worktree, m \in Matter : matters[w][m] = "copying" =>
        \E p \in Proc : pc[p] = "fill" /\ job[p].work = w /\ job[p].matter = m

StartsInMatter ==
    \A p \in Proc : pc[p] # "idle" /\ job[p].cmd = "start" =>
        LET m == job[p].matter IN
        /\ job[p].option # "worktree" => job[p].work = job[p].root
        /\ pc[p] \in {"currentBranch", "switch"} => job[p].option # "worktree"
        /\ pc[p] \in {"target", "addWorktree"} => job[p].option = "worktree"
        /\ pc[p] \in GitSteps => matters[job[p].root][m] = "ready"
        /\ pc[p] \notin GitSteps => matters[job[p].work][m] = "ready"
        /\ pc[p] \in {"branch", "target", "addWorktree"} /\ job[p].option = "worktree" =>
              committed[head[job[p].root]].matters[m] = "ready"

AllInMatters ==
    /\ FilesInMatters /\ TextsInMatters
    /\ \A b \in Branch : WholeTree(committed[b])
    /\ CopyingIsFilled
    /\ StartsInMatter
    /\ \A p \in Proc : pc[p] # "rollback"

ExistInv == faults = 0 => AllInMatters

-----------------------------------------------------------------------------
(* Inductive strengthening of OpenIsListed and ListedIsOpen. They hold of  *)
(* the commits and of every worktree that no script writes to; where one   *)
(* does, of what the files will be when it has written the text it holds,  *)
(* but for its own session.                                                *)

OneBranches(text) ==
    \E i \in DOMAIN text : Sections(text, "branches") = {i} /\ i < Len(text)

HasId(entries, id) == \E entry \in entries : entry.id = id

(* "own" are the ids of the session being written, "late" its entry when   *)
(* the index has it and CURRENT.md has not.                                *)
Settled(entries, text, notes, own, late) ==
    /\ OneBranches(text)
    /\ entries \subseteq CurrentSessions(text) \cup late
    /\ \A entry \in entries : entry.id \in own \/ notes[entry.id] = "open"
    /\ \A id \in SessionId \ own :
          /\ notes[id] \in {"absent", "open", "ended"}
          /\ notes[id] = "open" =>
                \/ Covered(id, notes)
                \/ HasId(entries, id) /\ HasId(CurrentSessions(text), id)

SettledTree(tree) == Settled(tree.index.active, tree.current, tree.logs, {}, {})

Busy(p) == pc[p] \notin GitSteps \cup {"idle"}

IndexDone == {"indexOpen", "indexWrite"} \cup CurrentSteps

(* index.yaml and CURRENT.md with the text that is being written. *)
Entries(p) ==
    IF pc[p] \in {"indexOpen", "indexWrite"} THEN indexText[p].active
    ELSE index[job[p].work].active

Shown(p) ==
    IF pc[p] \in {"currentOpen", "currentWrite"} THEN currentText[p]
    ELSE current[job[p].work]

Own(p) == IF job[p].cmd = "new" THEN {} ELSE {job[p].id}

Late(p) ==
    IF job[p].cmd = "start" /\ pc[p] \in IndexDone \ {"currentOpen", "currentWrite"}
    THEN {EntryOf(p)} ELSE {}

StartSettles(p) ==
    LET note == logs[job[p].work][job[p].id] IN
    /\ pc[p] = "logRead" => note = "template"
    /\ pc[p] \in {"logOpen", "logWrite"} => logText[p] = "open"
    /\ pc[p] \in IndexSteps \cup CurrentSteps => note = "open"
    /\ pc[p] \in IndexDone => EntryOf(p) \in Entries(p)
    /\ pc[p] \in {"currentOpen", "currentWrite"} => EntryOf(p) \in CurrentSessions(Shown(p))

FinishSettles(p) ==
    LET note == logs[job[p].work][job[p].id] IN
    /\ pc[p] \notin {"noteOpen", "noteTemplate"}
    /\ pc[p] = "logRead" => note \in {"open", "ended"}
    /\ pc[p] \in {"logOpen", "logWrite"} => logText[p] = "ended"
    /\ pc[p] # "logRead" => job[p].ids = {job[p].id}
    /\ pc[p] \in IndexSteps \cup CurrentSteps => note = "ended"
    /\ pc[p] \in IndexDone => \A entry \in Entries(p) : ~ Mentions(entry, {job[p].id})

Settling(p) ==
    /\ Settled(Entries(p), Shown(p), logs[job[p].work], Own(p), Late(p))
    /\ job[p].cmd = "start" => StartSettles(p)
    /\ job[p].cmd = "finish" => FinishSettles(p)

AllSettled ==
    /\ \A p \in Proc : Busy(p) => Settling(p)
    /\ \A p \in Proc : pc[p] # "idle" =>
          /\ pc[p] \in GitSteps => job[p].cmd = "start"
          /\ job[p].option = "noCurrentUpdate" => job[p].cmd = "finish"
    /\ \A w \in present :
          (\A p \in Proc : Busy(p) => job[p].work # w) => SettledTree(Tree(w))
    /\ \A b \in Branch : SettledTree(committed[b])

SettledInv == faults = 0 => AllSettled

-----------------------------------------------------------------------------
(* Inductive strengthening of NewWorktreeComplete: once start_session.py   *)
(* --worktree has found its worktree clean, it stays so.                   *)

CleanInv ==
    \A p \in Proc : pc[p] # "idle" /\ job[p].cmd = "start" /\ job[p].option = "worktree" =>
        /\ Mode # "untracked"
        /\ pc[p] \in {"tracked", "branch", "target", "addWorktree"} => ~ Dirty(job[p].root)

-----------------------------------------------------------------------------
(* Inductive strengthening of OwnBranchesApart: a branch that was made for *)
(* a session has been on record for that session only, wherever its record *)
(* is kept, and every note there is belongs to a branch that was made.     *)

Started(p) == job[p].cmd = "start" /\ pc[p] \notin GitSteps \cup {"idle"}

FileRecords(e) == \E w \in Worktree : e \in Listed(w)

TreeRecords(e) ==
    \E b \in Branch : e \in Sessions(committed[b].index, committed[b].current)

ScriptRecords(p, e) ==
    \/ e \in Sessions(indexText[p], currentText[p])
    \/ Started(p) /\ e = EntryOf(p)

OnRecord(e) == FileRecords(e) \/ TreeRecords(e) \/ \E p \in Proc : ScriptRecords(p, e)

HasNote(id) ==
    \/ \E w \in Worktree : logs[w][id] # "absent"
    \/ \E b \in Branch : committed[b].logs[id] # "absent"

BranchOf(id) == SessionBranch(id.at, id.slug)

StartsOwn(p) ==
    /\ pc[p] # "currentBranch"
    /\ pc[p] \in GitSteps \cup {"noteOpen", "noteTemplate"} => job[p].cmd = "start"
    /\ job[p].cmd = "start" /\ pc[p] # "idle" => job[p].branch = BranchOf(job[p].id)

RecordsOwn ==
    /\ \A e \in Entry : OnRecord(e) => e.branch = BranchOf(e.id) /\ e.branch \in branches
    /\ \A e, f \in Entry : OnRecord(e) /\ OnRecord(f) /\ e.branch = f.branch => e = f

StartsApart ==
    \A p, q \in Proc :
        Started(p) /\ Started(q) /\ job[p].branch = job[q].branch => p = q

NotesOwn ==
    /\ \A id \in SessionId : HasNote(id) => BranchOf(id) \in branches
    /\ \A p \in Proc : Started(p) /\ pc[p] = "noteOpen" => ~ HasNote(job[p].id)

OwnInv == (\A p \in Proc : StartsOwn(p)) /\ RecordsOwn /\ StartsApart /\ NotesOwn

=============================================================================
