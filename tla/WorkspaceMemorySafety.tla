------------------------- MODULE WorkspaceMemorySafety -------------------------
(***************************************************************************)
(* Safety of WorkspaceMemory, for every set of processes, worktrees,       *)
(* matters and slugs, every memory mode and every bound.                   *)
(***************************************************************************)
EXTENDS WorkspaceMemoryProofs

-----------------------------------------------------------------------------
(* Branches. Only git switch and git worktree add move a HEAD, and only    *)
(* they and the user's commits write to a branch.                          *)

(* What main() has validated when a script starts: NEW is a matter to be,  *)
(* a session to open or a note to close.                                   *)
Launched(j, first) ==
    \/ /\ j.cmd = "new" /\ first = "mkdir" /\ j.work = j.root
       /\ matters[j.work][j.matter] = "absent"
       /\ j.option \in MatterOptions
    \/ /\ j.cmd = "start" /\ first \in {"clean", "currentBranch"}
       /\ j.option \in StartOptions
       /\ j.option # "worktree" => j.work = j.root
       /\ first = "currentBranch" => j.option # "worktree"
       /\ j.option = "worktree" => Mode # "untracked"
       /\ matters[j.root][j.matter] # "absent"
    \/ /\ j.cmd = "finish" /\ first = "logRead" /\ j.work = j.root
       /\ logs[j.work][j.id] # "absent"

LEMMA LaunchesShape ==
    ASSUME TypeOK, NEW p \in Proc, Launches(p)
    PROVE  \E j \in Job, first \in Steps : Launch(p, j, first) /\ Launched(j, first)
<1>1. PICK w \in Worktree :
         \/ \E m \in Matter, o \in MatterOptions : NewMatter(p, w, m, o)
         \/ \E m \in Matter, t \in Worktree, slug \in Slug, o \in StartOptions :
               StartSession(p, w, t, slug, m, o)
         \/ \E id \in SessionId, o \in FinishOptions : FinishSession(p, w, id, o)
  BY DEF Launches
<1>2. {"mkdir", "currentBranch", "clean", "logRead"} \subseteq Steps
  BY DEF Steps, MatterSteps, GitSteps, NoteSteps
<1>3. ASSUME NEW m \in Matter, NEW o \in MatterOptions, NewMatter(p, w, m, o)
      PROVE  \E j \in Job, first \in Steps : Launch(p, j, first) /\ Launched(j, first)
  <2>. DEFINE j == [NoJob EXCEPT !.cmd = "new", !.option = o, !.root = w, !.work = w,
                                 !.matter = m]
  <2>1. Launch(p, j, "mkdir") /\ matters[w][m] = "absent"
    BY <1>3 DEF NewMatter
  <2>2. j \in Job
    BY LaunchedJob
  <2>3. j.cmd = "new" /\ j.root = w /\ j.work = w /\ j.matter = m /\ j.option = o
    BY NoJobType DEF Job
  <2>. HIDE DEF j
  <2>. QED BY <1>2, <2>1, <2>2, <2>3 DEF Launched
<1>4. ASSUME NEW m \in Matter, NEW t \in Worktree, NEW slug \in Slug, NEW o \in StartOptions,
             StartSession(p, w, t, slug, m, o)
      PROVE  \E j \in Job, first \in Steps : Launch(p, j, first) /\ Launched(j, first)
  <2>. DEFINE j == [NoJob EXCEPT !.cmd = "start", !.option = o, !.root = w, !.work = t,
                                 !.matter = m, !.id = [at |-> clock, slug |-> slug],
                                 !.branch = SessionBranch(clock, slug)]
              first == IF o = "plain" THEN "currentBranch" ELSE "clean"
  <2>1. /\ Launch(p, j, first) /\ (o # "worktree" => t = w) /\ matters[w][m] # "absent"
        /\ o = "worktree" => Mode # "untracked"
    BY <1>4 DEF StartSession
  <2>2. [at |-> clock, slug |-> slug] \in SessionId /\ SessionBranch(clock, slug) \in Branch
    BY FilesAssumption DEF TypeOK, SessionId, SessionBranch, Branch
  <2>3. j \in Job
    BY <2>2, LaunchedJob
  <2>4. j.cmd = "start" /\ j.root = w /\ j.work = t /\ j.option = o /\ j.matter = m
    BY NoJobType DEF Job
  <2>. HIDE DEF j
  <2>. QED BY <1>2, <2>1, <2>3, <2>4 DEF Launched
<1>5. ASSUME NEW id \in SessionId, NEW o \in FinishOptions, FinishSession(p, w, id, o)
      PROVE  \E j \in Job, first \in Steps : Launch(p, j, first) /\ Launched(j, first)
  <2>. DEFINE j == [NoJob EXCEPT !.cmd = "finish", !.option = o, !.root = w, !.work = w,
                                 !.id = id]
  <2>1. Launch(p, j, "logRead") /\ logs[w][id] # "absent"
    BY <1>5 DEF FinishSession
  <2>2. j \in Job
    BY LaunchedJob
  <2>3. j.cmd = "finish" /\ j.root = w /\ j.work = w /\ j.id = id
    BY NoJobType DEF Job
  <2>. HIDE DEF j
  <2>. QED BY <1>2, <2>1, <2>2, <2>3 DEF Launched
<1>. QED BY <1>1, <1>3, <1>4, <1>5

LEMMA LaunchesFrame ==
    ASSUME TypeOK, NEW p \in Proc, Launches(p)
    PROVE  UNCHANGED <<gitVars, fileVars, acked, textVars>>
BY LaunchesShape DEF Launch

LEMMA StepGitFrame ==
    ASSUME NEW p \in Proc, Step(p)
    PROVE  UNCHANGED gitVars \/ SwitchBranch(p) \/ AddWorktree(p)
<1>1. CASE MakeMatter(p) \/ FillMatter(p) \/ Rollback(p)
  BY <1>1 DEF MakeMatter, FillMatter, Rollback
<1>2. CASE CheckClean(p) \/ CheckTracked(p) \/ CheckBranch(p) \/ CheckTarget(p) \/ RecordBranch(p)
  BY <1>2 DEF CheckClean, CheckTracked, CheckBranch, CheckTarget, RecordBranch, Pass, Refuse
<1>3. CASE OpenNote(p) \/ WriteTemplate(p) \/ ReadLog(p) \/ OpenLog(p) \/ WriteLog(p)
  BY <1>3 DEF OpenNote, WriteTemplate, ReadLog, OpenLog, WriteLog
<1>4. CASE ReadIndex(p) \/ OpenIndex(p) \/ WriteIndex(p)
  BY <1>4 DEF ReadIndex, OpenIndex, WriteIndex
<1>5. CASE ReadCurrent(p) \/ OpenCurrent(p) \/ WriteCurrent(p)
  BY <1>5 DEF ReadCurrent, OpenCurrent, WriteCurrent
<1>. QED BY <1>1, <1>2, <1>3, <1>4, <1>5 DEF Step

(* What the two commands that create a branch do when they succeed. *)
BranchMade(w, b) ==
    /\ b \notin branches
    /\ branches' = branches \cup {b}
    /\ head' = [head EXCEPT ![w] = b]
    /\ present' = present \cup {w}
    /\ \E tree : committed' = [committed EXCEPT ![b] = tree]

LEMMA BranchSteps ==
    ASSUME TypeOK, WorkPresent, NEW p \in Proc, SwitchBranch(p) \/ AddWorktree(p)
    PROVE  \/ UNCHANGED gitVars
           \/ \E w \in Worktree, b \in Branch : BranchMade(w, b)
<1>1. job[p].root \in present /\ job[p].work \in Worktree /\ job[p].branch \in Branch
  BY DEF TypeOK, WorkPresent, Job
<1>2. CASE Refuse(p)
  BY <1>2 DEF Refuse
<1>3. CASE SwitchBranch(p) /\ ~ Refuse(p)
  <2>1. BranchMade(job[p].root, job[p].branch)
    BY <1>1, <1>3 DEF SwitchBranch, BranchMade
  <2>. QED BY <1>1, <2>1 DEF TypeOK
<1>4. CASE AddWorktree(p) /\ ~ Refuse(p)
  <2>1. BranchMade(job[p].work, job[p].branch)
    BY <1>4 DEF AddWorktree, BranchMade
  <2>. QED BY <1>1, <2>1
<1>. QED BY <1>2, <1>3, <1>4

(* Every step leaves Git alone, makes a branch, or is a user's commit. *)
LEMMA GitMoves ==
    ASSUME TypeOK, WorkPresent, [Next]_vars
    PROVE  \/ UNCHANGED gitVars
           \/ \E w \in Worktree, b \in Branch : BranchMade(w, b)
           \/ \E w \in Worktree : Commit(w)
<1>1. CASE \E p \in Proc : Launches(p)
  BY <1>1, LaunchesFrame
<1>2. CASE \E p \in Proc : Step(p)
  BY <1>2, StepGitFrame, BranchSteps
<1>3. CASE \E p \in Proc : Abort(p) \/ MatterOsError(p)
  BY <1>3 DEF Abort, MatterOsError
<1>4. CASE Tick \/ UNCHANGED vars
  BY <1>4 DEF Tick, vars
<1>. QED BY <1>1, <1>2, <1>3, <1>4 DEF Next

-----------------------------------------------------------------------------
(* Where scripts work: WorkPresent is inductive.                           *)

LEMMA WorkPresentInit == Init => WorkPresent
BY NoJobType DEF Init, WorkPresent

(* A script that exits, and one that goes on without touching its job. *)
LEMMA WorkPresentExit ==
    ASSUME TypeOK, WorkPresent, NEW p \in Proc, Exit(p), UNCHANGED present
    PROVE  WorkPresent'
BY NoJobType DEF TypeOK, WorkPresent, Exit

(* The text a script holds is empty until it has a directory to work in. *)
NoTexts(p) == indexText[p] = EmptyIndex /\ currentText[p] = EmptyCurrent

AddsWorktree(j) == j.cmd = "start" /\ j.option = "worktree"

WorkOf(p) ==
    /\ job[p].root \in present
    /\ \/ job[p].work \in present
       \/ /\ pc[p] \in {"clean", "tracked", "branch", "target", "addWorktree"}
          /\ AddsWorktree(job[p])
    /\ pc[p] \in {"idle"} \cup GitSteps => NoTexts(p)

LEMMA WorkPresentParts == WorkPresent <=> Root \in present /\ \A p \in Proc : WorkOf(p)
BY DEF WorkPresent, WorkOf, NoTexts, AddsWorktree

LEMMA WorkPresentGoto ==
    ASSUME TypeOK, WorkPresent, NEW p \in Proc, NEW step \in Steps, Goto(p, step),
           UNCHANGED <<job, textVars>>, present \subseteq present',
           \/ job[p].work \in present'
           \/ step \in {"tracked", "branch", "target", "addWorktree"} /\ AddsWorktree(job[p]),
           step \in GitSteps => pc[p] \in GitSteps
    PROVE  WorkPresent'
<1>1. ASSUME NEW q \in Proc PROVE WorkOf(q)'
  <2>1. WorkOf(q)
    BY WorkPresentParts
  <2>2. CASE q = p
    <3>1. step # "idle" /\ pc'[p] = step
      BY DEF TypeOK, Goto, Steps, MatterSteps, GitSteps, NoteSteps, IndexSteps, CurrentSteps
    <3>2. step \in {"tracked", "branch", "target", "addWorktree"} =>
             step \in {"clean", "tracked", "branch", "target", "addWorktree"}
      OBVIOUS
    <3>3. UNCHANGED <<job, indexText, currentText>>
      BY DEF textVars
    <3>. QED BY <2>1, <2>2, <3>1, <3>2, <3>3 DEF WorkOf, NoTexts, AddsWorktree
  <2>3. CASE q # p
    BY <2>1, <2>3 DEF TypeOK, WorkOf, NoTexts, AddsWorktree, Goto, textVars
  <2>. QED BY <2>2, <2>3
<1>. QED BY <1>1, WorkPresentParts DEF WorkPresent, WorkOf, NoTexts, AddsWorktree

(* Recording a branch or an id in the job leaves its directories alone. *)
LEMMA WorkPresentJob ==
    ASSUME TypeOK, WorkPresent, NEW p \in Proc, NEW step \in Steps \ GitSteps, Goto(p, step),
           pc[p] \notin {"clean", "tracked", "branch", "target", "addWorktree"},
           NEW j, j.root = job[p].root, j.work = job[p].work,
           job' = [job EXCEPT ![p] = j], UNCHANGED <<present, indexText, currentText>>
    PROVE  WorkPresent'
<1>1. job[p].root \in present /\ job[p].work \in present
  BY DEF WorkPresent
<1>2. pc' \in [Proc -> Steps \cup {"idle"}] /\ pc' = [pc EXCEPT ![p] = step] /\ step # "idle"
  BY DEF TypeOK, Goto, Steps, MatterSteps, GitSteps, NoteSteps, IndexSteps, CurrentSteps
<1>3. ASSUME NEW q \in Proc PROVE WorkOf(q)'
  <2>1. WorkOf(q)
    BY WorkPresentParts
  <2>2. CASE q = p
    BY <1>1, <1>2, <2>2 DEF TypeOK, WorkOf, AddsWorktree
  <2>3. CASE q # p
    BY <1>2, <2>1, <2>3 DEF TypeOK, WorkOf, NoTexts, AddsWorktree
  <2>. QED BY <2>2, <2>3
<1>. QED BY <1>3, WorkPresentParts DEF WorkPresent, WorkOf, NoTexts, AddsWorktree

LEMMA WorkPresentKept ==
    ASSUME TypeOK, WorkPresent, UNCHANGED <<present, job, indexText, currentText, pc>>
    PROVE  WorkPresent'
BY DEF WorkPresent

LEMMA WorkPresentLaunch ==
    ASSUME TypeOK, WorkPresent, NEW p \in Proc, Launches(p)
    PROVE  WorkPresent'
<1>1. PICK j \in Job, first \in Steps : Launch(p, j, first) /\ Launched(j, first)
  BY LaunchesShape
<1>2. /\ pc[p] = "idle" /\ j.root \in present
      /\ pc' = [pc EXCEPT ![p] = first] /\ job' = [job EXCEPT ![p] = j]
      /\ UNCHANGED <<present, indexText, currentText>>
  BY <1>1 DEF Launch, gitVars, textVars
<1>3. ASSUME NEW q \in Proc PROVE WorkOf(q)'
  <2>1. WorkOf(q)
    BY WorkPresentParts
  <2>2. CASE q = p
    BY <1>1, <1>2, <2>1, <2>2 DEF TypeOK, WorkOf, NoTexts, Launched, AddsWorktree
  <2>3. CASE q # p
    BY <1>2, <2>1, <2>3 DEF TypeOK, WorkOf, NoTexts, AddsWorktree
  <2>. QED BY <2>2, <2>3
<1>. QED BY <1>2, <1>3, WorkPresentParts DEF WorkPresent, WorkOf, NoTexts, AddsWorktree

(* A script that has got past the Git commands works in a worktree. *)
LEMMA WorkIsPresent ==
    ASSUME WorkPresent, NEW p \in Proc, pc[p] \notin {"clean", "tracked", "branch", "target", "addWorktree"}
    PROVE  job[p].work \in present
BY DEF WorkPresent

LEMMA WorkPresentStep ==
    ASSUME TypeOK, WorkPresent, NEW p \in Proc, Step(p)
    PROVE  WorkPresent'
<1>. {"fill", "rollback", "indexRead", "noteOpen", "noteTemplate", "logRead", "logOpen",
      "logWrite", "indexOpen", "indexWrite", "currentRead", "currentOpen", "currentWrite",
      "tracked", "branch", "target", "switch", "addWorktree"} \subseteq Steps
  BY DEF Steps, MatterSteps, GitSteps, NoteSteps, IndexSteps, CurrentSteps
<1>. {"fill", "rollback", "indexRead", "noteOpen", "noteTemplate", "logRead", "logOpen",
      "logWrite", "indexOpen", "indexWrite", "currentRead", "currentOpen", "currentWrite"}
         \cap GitSteps = {}
  BY DEF GitSteps
<1>1. CASE MakeMatter(p)
  BY <1>1, WorkIsPresent, WorkPresentGoto DEF MakeMatter, gitVars, textVars
<1>2. CASE FillMatter(p)
  <2>1. CASE Exit(p)
    BY <1>2, <2>1, WorkPresentExit DEF FillMatter, gitVars
  <2>2. CASE ~ Exit(p)
    BY <1>2, <2>2, WorkIsPresent, WorkPresentGoto DEF FillMatter, gitVars, textVars
  <2>. QED BY <2>1, <2>2
<1>3. CASE Rollback(p)
  BY <1>3, WorkPresentExit DEF Rollback, gitVars
<1>4. CASE Refuse(p)
  BY <1>4, WorkPresentExit DEF Refuse, gitVars
<1>5. CASE CheckClean(p) /\ ~ Refuse(p)
  <2>1. CASE job[p].option = "worktree"
    <3>1. Pass(p, "tracked") /\ pc[p] = "clean"
      BY <1>5, <2>1 DEF CheckClean
    <3>2. job[p].work \in present \/ AddsWorktree(job[p])
      BY DEF WorkPresent, AddsWorktree
    <3>. QED BY <3>1, <3>2, WorkPresentGoto DEF Pass, gitVars, textVars, GitSteps
  <2>2. CASE job[p].option # "worktree"
    <3>1. Pass(p, "branch") /\ pc[p] = "clean" /\ job[p].work \in present
      BY <1>5, <2>2 DEF CheckClean, WorkPresent
    <3>. QED BY <3>1, WorkPresentGoto DEF Pass, gitVars, textVars, GitSteps
  <2>. QED BY <2>1, <2>2
<1>6. CASE CheckTracked(p) /\ ~ Refuse(p)
  <2>1. Pass(p, "branch") /\ pc[p] = "tracked"
    BY <1>6 DEF CheckTracked
  <2>2. job[p].work \in present \/ AddsWorktree(job[p])
    BY DEF WorkPresent, AddsWorktree
  <2>. QED BY <2>1, <2>2, WorkPresentGoto DEF Pass, gitVars, textVars, GitSteps
<1>7. CASE CheckBranch(p) /\ ~ Refuse(p)
  <2>1. CASE job[p].option = "worktree"
    <3>1. Pass(p, "target") /\ pc[p] = "branch"
      BY <1>7, <2>1 DEF CheckBranch
    <3>2. job[p].work \in present \/ AddsWorktree(job[p])
      BY DEF WorkPresent, AddsWorktree
    <3>. QED BY <3>1, <3>2, WorkPresentGoto DEF Pass, gitVars, textVars, GitSteps
  <2>2. CASE job[p].option # "worktree"
    <3>1. Pass(p, "switch") /\ pc[p] = "branch" /\ job[p].work \in present
      BY <1>7, <2>2 DEF CheckBranch, WorkPresent
    <3>. QED BY <3>1, WorkPresentGoto DEF Pass, gitVars, textVars, GitSteps
  <2>. QED BY <2>1, <2>2
<1>8. CASE CheckTarget(p) /\ ~ Refuse(p)
  <2>1. Pass(p, "addWorktree") /\ pc[p] = "target"
    BY <1>8 DEF CheckTarget
  <2>2. job[p].work \in present \/ AddsWorktree(job[p])
    BY DEF WorkPresent, AddsWorktree
  <2>. QED BY <2>1, <2>2, WorkPresentGoto DEF Pass, gitVars, textVars, GitSteps
<1>9. CASE SwitchBranch(p) /\ ~ Refuse(p)
  <2>1. pc[p] = "switch" /\ Goto(p, "noteOpen") /\ UNCHANGED <<present, job, textVars>>
    BY <1>9 DEF SwitchBranch
  <2>. QED BY <2>1, WorkIsPresent, WorkPresentGoto DEF GitSteps
<1>10. CASE AddWorktree(p) /\ ~ Refuse(p)
  <2>1. /\ present' = present \cup {job[p].work} /\ Goto(p, "noteOpen")
        /\ UNCHANGED <<job, textVars>>
    BY <1>10 DEF AddWorktree
  <2>. QED BY <2>1, WorkPresentGoto DEF GitSteps
<1>11. CASE RecordBranch(p)
  <2>1. /\ pc[p] = "currentBranch" /\ Goto(p, "noteOpen")
        /\ job' = [job EXCEPT ![p] = WithBranch(job[p], head[job[p].root])]
        /\ UNCHANGED <<present, indexText, currentText>>
    BY <1>11 DEF RecordBranch, gitVars, textVars
  <2>2. WithBranch(job[p], head[job[p].root]).work = job[p].work
        /\ WithBranch(job[p], head[job[p].root]).root = job[p].root
    <3>1. job[p] \in Job /\ head[job[p].root] \in Branch
      BY DEF TypeOK, Job
    <3>. QED BY <3>1, JobFields
  <2>. QED BY <2>1, <2>2, WorkPresentJob
<1>12. CASE OpenNote(p)
  BY <1>12, WorkIsPresent, WorkPresentGoto DEF OpenNote, gitVars
<1>13. CASE WriteTemplate(p)
  BY <1>13, WorkIsPresent, WorkPresentGoto DEF WriteTemplate, gitVars
<1>14. CASE OpenLog(p)
  BY <1>14, WorkIsPresent, WorkPresentGoto DEF OpenLog, gitVars
<1>15. CASE OpenIndex(p)
  BY <1>15, WorkIsPresent, WorkPresentGoto DEF OpenIndex, gitVars
<1>16. CASE OpenCurrent(p)
  BY <1>16, WorkIsPresent, WorkPresentGoto DEF OpenCurrent, gitVars
<1>17. CASE ReadLog(p)
  <2>. DEFINE ids == HeaderIds(logs[job[p].work][job[p].id], job[p].id)
  <2>1. /\ pc[p] = "logRead" /\ Goto(p, "logOpen")
        /\ job' = [job EXCEPT ![p] = job[p]] \/ job' = [job EXCEPT ![p] = WithIds(job[p], ids)]
        /\ UNCHANGED <<present, indexText, currentText>>
    BY <1>17 DEF TypeOK, ReadLog, gitVars
  <2>2. WithIds(job[p], ids).work = job[p].work /\ WithIds(job[p], ids).root = job[p].root
    <3>1. job[p] \in Job /\ ids \in SUBSET SessionId
      BY DEF TypeOK, Job, HeaderIds
    <3>. QED BY <3>1, JobFields
  <2>. HIDE DEF ids
  <2>. QED BY <2>1, <2>2, WorkPresentJob
<1>18. CASE WriteLog(p)
  <2>1. /\ pc[p] = "logWrite" /\ pc' = [pc EXCEPT ![p] = "indexRead"]
        /\ UNCHANGED <<present, job, indexText, currentText>>
    BY <1>18 DEF WriteLog, Goto, gitVars
  <2>. QED BY <2>1 DEF TypeOK, WorkPresent, GitSteps
<1>19. CASE ReadIndex(p)
  <2>1. /\ pc[p] = "indexRead" /\ pc' = [pc EXCEPT ![p] = "indexOpen"]
        /\ indexText' = [indexText EXCEPT ![p] = NewIndexText(p)]
        /\ UNCHANGED <<present, job, currentText>>
    BY <1>19 DEF ReadIndex, Goto, gitVars
  <2>. QED BY <2>1 DEF TypeOK, WorkPresent, GitSteps
<1>20. CASE WriteIndex(p)
  <2>1. CASE Exit(p)
    BY <1>20, <2>1, WorkPresentExit DEF WriteIndex, gitVars
  <2>2. CASE ~ Exit(p)
    <3>1. /\ pc[p] = "indexWrite" /\ pc' = [pc EXCEPT ![p] = "currentRead"]
          /\ indexText' = [indexText EXCEPT ![p] = EmptyIndex]
          /\ UNCHANGED <<present, job, currentText>>
      BY <1>20, <2>2 DEF WriteIndex, Goto, gitVars
    <3>. QED BY <3>1 DEF TypeOK, WorkPresent, GitSteps
  <2>. QED BY <2>1, <2>2
<1>21. CASE ReadCurrent(p)
  <2>1. /\ pc[p] = "currentRead" /\ pc' = [pc EXCEPT ![p] = "currentOpen"]
        /\ currentText' = [currentText EXCEPT ![p] = NewCurrentText(p)]
        /\ UNCHANGED <<present, job, indexText>>
    BY <1>21 DEF ReadCurrent, Goto, gitVars
  <2>. QED BY <2>1 DEF TypeOK, WorkPresent, GitSteps
<1>22. CASE WriteCurrent(p)
  BY <1>22, WorkPresentExit DEF WriteCurrent, gitVars
<1>. QED BY <1>1, <1>2, <1>3, <1>4, <1>5, <1>6, <1>7, <1>8, <1>9, <1>10, <1>11, <1>12, <1>13,
            <1>14, <1>15, <1>16, <1>17, <1>18, <1>19, <1>20, <1>21, <1>22 DEF Step

THEOREM WorkPresentInvariant == Spec => []WorkPresent
<1>1. ASSUME TypeOK, WorkPresent, [Next]_vars PROVE WorkPresent'
  <2>1. CASE \E p \in Proc : Launches(p)
    BY <1>1, <2>1, WorkPresentLaunch
  <2>2. CASE \E p \in Proc : Step(p)
    BY <1>1, <2>2, WorkPresentStep
  <2>3. CASE \E p \in Proc : Abort(p)
    BY <1>1, <2>3, WorkPresentExit DEF Abort, gitVars
  <2>4. ASSUME NEW p \in Proc, MatterOsError(p) PROVE WorkPresent'
    <3>1. "rollback" \in Steps \ GitSteps
      BY DEF Steps, MatterSteps, GitSteps
    <3>2. Goto(p, "rollback") /\ UNCHANGED <<present, job, textVars>>
      BY <2>4 DEF MatterOsError, gitVars
    <3>3. job[p].work \in present
      BY <1>1, <2>4 DEF MatterOsError, WorkPresent, AddsWorktree
    <3>. QED BY <1>1, <3>1, <3>2, <3>3, WorkPresentGoto
  <2>5. CASE (\E w \in Worktree : Commit(w)) \/ Tick \/ UNCHANGED vars
    BY <1>1, <2>5, WorkPresentKept DEF Commit, Tick, vars, gitVars, textVars
  <2>. QED BY <1>1, <2>1, <2>2, <2>3, <2>4, <2>5 DEF Next
<1>. QED BY <1>1, WorkPresentInit, TypeCorrect, PTL DEF Spec

-----------------------------------------------------------------------------
(* What is checked out is a branch, which git switch -c and git worktree   *)
(* add -b do not make a second time.                                       *)
LEMMA HeadInvInvariant == Spec => []HeadInv
<1>1. Init => HeadInv
  BY MemoryAssumption DEF Init, HeadInv, HeadsDiffer
<1>2. ASSUME TypeOK, WorkPresent, HeadInv, [Next]_vars PROVE HeadInv'
  <2>1. CASE UNCHANGED gitVars
    BY <1>2, <2>1 DEF HeadInv, HeadsDiffer, gitVars
  <2>2. ASSUME NEW w \in Worktree, NEW b \in Branch, BranchMade(w, b) PROVE HeadInv'
    <3>1. head'[w] = b /\ b \notin branches /\ b \in branches'
      BY <1>2, <2>2 DEF TypeOK, BranchMade
    <3>2. \A v \in present' : v # w => /\ v \in present /\ head'[v] = head[v]
                                     /\ head[v] \in branches
      BY <1>2, <2>2 DEF TypeOK, BranchMade, HeadInv
    <3>3. branches \subseteq branches'
      BY <2>2 DEF BranchMade
    <3>4. \A v \in present' : head'[v] \in branches'
      BY <3>1, <3>2, <3>3
    <3>5. HeadsDiffer'
      BY <1>2, <3>1, <3>2 DEF HeadInv, HeadsDiffer
    <3>. QED BY <3>4, <3>5 DEF HeadInv
  <2>3. CASE \E w \in Worktree : Commit(w)
    BY <1>2, <2>3 DEF HeadInv, HeadsDiffer, Commit
  <2>. QED BY <1>2, <2>1, <2>2, <2>3, GitMoves
<1>. QED BY <1>1, <1>2, TypeCorrect, WorkPresentInvariant, PTL DEF Spec

(* However the branch checks of several scripts interleave, no branch is   *)
(* ever checked out in two worktrees.                                      *)
THEOREM HeadsAlwaysDiffer == Spec => []HeadsDiffer
<1>1. HeadInv => HeadsDiffer
  BY DEF HeadInv
<1>. QED BY <1>1, HeadInvInvariant, PTL

(* A branch moves only by a commit in a worktree that has it checked out.  *)
THEOREM BranchesOnlyAdvance == Spec => BranchOnlyAdvances
<1>1. ASSUME TypeOK, WorkPresent, [Next]_vars,
             NEW b \in branches, committed'[b] # committed[b]
      PROVE  \E w \in present : head[w] = b /\ committed'[b] = Tree(w)
  <2>1. b \in Branch
    BY <1>1 DEF TypeOK
  <2>2. ~ UNCHANGED gitVars
    BY <1>1 DEF gitVars
  <2>3. ASSUME NEW w \in Worktree, NEW c \in Branch, BranchMade(w, c) PROVE FALSE
    <3>1. PICK tree : committed' = [committed EXCEPT ![c] = tree]
      BY <2>3 DEF BranchMade
    <3>. QED BY <1>1, <2>1, <2>3, <3>1 DEF TypeOK, BranchMade
  <2>4. ASSUME NEW w \in Worktree, Commit(w)
        PROVE  \E v \in present : head[v] = b /\ committed'[b] = Tree(v)
    BY <1>1, <2>1, <2>4 DEF TypeOK, Commit
  <2>. QED BY <1>1, <2>2, <2>3, <2>4, GitMoves
<1>2. ASSUME TypeOK, WorkPresent, [Next]_vars PROVE [MovesByCommit]_vars
  BY <1>1, <1>2 DEF MovesByCommit
<1>. QED BY <1>2, TypeCorrect, WorkPresentInvariant, PTL DEF Spec, BranchOnlyAdvances

-----------------------------------------------------------------------------
(* A step of one script leaves the local variables of the others alone.    *)

OthersUntouched(p) ==
    \A q \in Proc \ {p} :
        /\ pc'[q] = pc[q] /\ job'[q] = job[q]
        /\ indexText'[q] = indexText[q] /\ currentText'[q] = currentText[q]
        /\ logText'[q] = logText[q]

LEMMA ExitUntouched ==
    ASSUME TypeOK, NEW p \in Proc, Exit(p)
    PROVE  /\ OthersUntouched(p)
           /\ pc'[p] = "idle" /\ job'[p] = NoJob
           /\ indexText'[p] = EmptyIndex /\ currentText'[p] = EmptyCurrent
BY DEF TypeOK, Exit, OthersUntouched

LEMMA StepUntouched ==
    ASSUME TypeOK, NEW p \in Proc, Step(p)
    PROVE  OthersUntouched(p)
<1>1. CASE Exit(p)
  BY <1>1, ExitUntouched
<1>. SUFFICES ASSUME ~ Exit(p) PROVE OthersUntouched(p)
  BY <1>1
<1>2. CASE MakeMatter(p) \/ FillMatter(p) \/ Rollback(p)
  BY <1>2 DEF TypeOK, OthersUntouched, MakeMatter, FillMatter, Rollback, Goto, textVars
<1>3. CASE CheckClean(p) \/ CheckTracked(p) \/ CheckBranch(p) \/ CheckTarget(p)
  <2>1. \E step : Pass(p, step)
    BY <1>3 DEF CheckClean, CheckTracked, CheckBranch, CheckTarget, Refuse
  <2>. QED BY <2>1 DEF TypeOK, OthersUntouched, Pass, Goto, textVars
<1>4. CASE SwitchBranch(p) \/ AddWorktree(p)
  BY <1>4 DEF TypeOK, OthersUntouched, SwitchBranch, AddWorktree, Refuse, Goto, textVars
<1>5. CASE RecordBranch(p)
  BY <1>5 DEF TypeOK, OthersUntouched, RecordBranch, Goto, textVars
<1>6. CASE OpenNote(p) \/ WriteTemplate(p) \/ OpenLog(p) \/ WriteLog(p)
  BY <1>6 DEF TypeOK, OthersUntouched, OpenNote, WriteTemplate, OpenLog, WriteLog, Goto, textVars
<1>7. CASE ReadLog(p)
  BY <1>7 DEF TypeOK, OthersUntouched, ReadLog, Goto
<1>8. CASE ReadIndex(p) \/ OpenIndex(p) \/ WriteIndex(p)
  BY <1>8 DEF TypeOK, OthersUntouched, ReadIndex, OpenIndex, WriteIndex, Goto, textVars
<1>9. CASE ReadCurrent(p) \/ OpenCurrent(p) \/ WriteCurrent(p)
  BY <1>9 DEF TypeOK, OthersUntouched, ReadCurrent, OpenCurrent, WriteCurrent, Goto, textVars
<1>. QED BY <1>2, <1>3, <1>4, <1>5, <1>6, <1>7, <1>8, <1>9 DEF Step

-----------------------------------------------------------------------------
(* Every listed session has its note.                                      *)

LEMMA NotedUnion ==
    ASSUME NEW indexed, NEW shown, NEW notes
    PROVE  AllNoted(Sessions(indexed, shown), notes)
             <=> AllNoted(indexed.active, notes) /\ AllNoted(CurrentSessions(shown), notes)
BY DEF AllNoted, Sessions

LEMMA NotedGrow ==
    ASSUME NEW entries, NEW more, NEW notes, AllNoted(entries, notes),
           more \subseteq entries
    PROVE  AllNoted(more, notes)
BY DEF AllNoted

LEMMA NotedLonger ==
    ASSUME NEW entries, NEW notes, NEW later, AllNoted(entries, notes),
           \A id \in SessionId : notes[id] # "absent" => later[id] # "absent"
    PROVE  AllNoted(entries, later)
BY EntryType DEF AllNoted, Noted

LEMMA NothingListed ==
    /\ EmptyIndex.active = {} /\ ShippedIndex.active = {}
    /\ CurrentSessions(EmptyCurrent) = {}
    /\ CurrentSessions(ShippedCurrent) = {}
<1>1. CurrentSessions(EmptyCurrent) = {}
  BY DEF EmptyCurrent, CurrentSessions, Sections
<1>2. \A i \in DOMAIN ShippedCurrent : ShippedCurrent[i].body = {}
  BY DEF ShippedCurrent
<1>3. CurrentSessions(ShippedCurrent) = {}
  BY <1>2 DEF CurrentSessions, Sections
<1>. QED BY <1>1, <1>3 DEF EmptyIndex, ShippedIndex

LEMMA EmptyNoted ==
    ASSUME NEW notes
    PROVE  /\ AllNoted(Sessions(EmptyIndex, EmptyCurrent), notes)
           /\ AllNoted(Sessions(ShippedIndex, ShippedCurrent), notes)
           /\ AllNoted(EmptyIndex.active, notes) /\ AllNoted(CurrentSessions(EmptyCurrent), notes)
BY NothingListed DEF AllNoted, Sessions

(* What a script is about to list beyond what it has read: its own session.*)
Added(p) == IF job[p].cmd = "start" THEN {EntryOf(p)} ELSE {}

LEMMA NewTexts ==
    ASSUME TypeOK, NEW p \in Proc
    PROVE  /\ NewIndexText(p).active \subseteq index[job[p].work].active \cup Added(p)
           /\ CurrentSessions(NewCurrentText(p))
                 \subseteq CurrentSessions(current[job[p].work]) \cup Added(p)
<1>. DEFINE i == index[job[p].work]
            c == current[job[p].work]
<1>1. /\ job[p].cmd \in {"new", "start", "finish"} /\ job[p].matter \in Matter
      /\ job[p].id \in SessionId /\ job[p].branch \in Branch /\ job[p].ids \in SUBSET SessionId
      /\ i \in IndexText /\ c \in CurrentText
  BY DEF TypeOK, Job
<1>2. EntryOf(p) \in Entry
  BY <1>1 DEF EntryOf, Entry
<1>3. CASE job[p].cmd = "new"
  <2>1. NewIndexText(p).active = i.active
    BY <1>1, <1>3 DEF NewIndexText, UpdateIndex, IndexText
  <2>2. NewCurrentText(p) = AddTo(c, "matters", job[p].matter)
    BY <1>3 DEF NewCurrentText, UpdateCurrentMatter
  <2>. HIDE DEF i, c
  <2>3. CurrentSessions(AddTo(c, "matters", job[p].matter)) \subseteq CurrentSessions(c)
    BY <1>1, SessionsOfAddTo
  <2>. QED BY <2>1, <2>2, <2>3 DEF i, c
<1>4. CASE job[p].cmd = "start"
  <2>1. NewIndexText(p).active = i.active \cup {EntryOf(p)}
    BY <1>1, <1>4 DEF NewIndexText, AddActiveSession, IndexText
  <2>2. NewCurrentText(p) = AddTo(c, "branches", EntryOf(p))
    BY <1>4 DEF NewCurrentText, AddCurrentSession
  <2>. HIDE DEF i, c
  <2>3. CurrentSessions(AddTo(c, "branches", EntryOf(p))) \subseteq CurrentSessions(c) \cup {EntryOf(p)}
    BY <1>1, <1>2, SessionsOfAddTo
  <2>. QED BY <1>4, <2>1, <2>2, <2>3 DEF i, c, Added
<1>5. CASE job[p].cmd = "finish"
  <2>1. NewIndexText(p).active \subseteq i.active
    BY <1>1, <1>5 DEF NewIndexText, RemoveActiveSession, Without, IndexText
  <2>2. NewCurrentText(p) = UpdateCurrentHandoff(c, job[p].ids)
    BY <1>5 DEF NewCurrentText
  <2>. HIDE DEF i, c
  <2>3. CurrentSessions(UpdateCurrentHandoff(c, job[p].ids)) \subseteq CurrentSessions(c)
    BY <1>1, SessionsOfHandoff
  <2>. QED BY <2>1, <2>2, <2>3 DEF i, c
<1>. QED BY <1>1, <1>3, <1>4, <1>5

(* OwnNote and TextsNoted, for one script. *)
OwnNoteOf(p) ==
    /\ job[p].cmd # "new" /\ pc[p] \notin GitSteps \cup {"idle", "noteOpen"} =>
          logs[job[p].work][job[p].id] # "absent"
    /\ pc[p] \in GitSteps \cup NoteSteps => job[p].cmd # "new"
    /\ pc[p] \in {"logOpen", "logWrite"} => logText[p] # "absent"

TextNotedOf(p) ==
    /\ AllNoted(indexText[p].active, logs[job[p].work])
    /\ AllNoted(CurrentSessions(currentText[p]), logs[job[p].work])

LEMMA NoteInvParts ==
    /\ OwnNote <=> \A p \in Proc : OwnNoteOf(p)
    /\ TextsNoted <=> \A p \in Proc : TextNotedOf(p)
BY NotedUnion DEF OwnNote, OwnNoteOf, TextsNoted, TextNotedOf

(* No note of a worktree disappears. *)
NotesKept ==
    \A w \in Worktree : \A id \in SessionId : logs[w][id] # "absent" => logs'[w][id] # "absent"

LEMMA OthersNoted ==
    ASSUME TypeOK, NoteInv, NEW p \in Proc, OthersUntouched(p), NotesKept,
           OwnNoteOf(p)', TextNotedOf(p)'
    PROVE  OwnNote' /\ TextsNoted'
<1>1. ASSUME NEW q \in Proc, q # p PROVE OwnNoteOf(q)' /\ TextNotedOf(q)'
  <2>1. OwnNoteOf(q) /\ TextNotedOf(q)
    BY NoteInvParts DEF NoteInv
  <2>2. /\ pc'[q] = pc[q] /\ job'[q] = job[q] /\ indexText'[q] = indexText[q]
        /\ currentText'[q] = currentText[q] /\ logText'[q] = logText[q]
        /\ job[q].work \in Worktree /\ job[q].id \in SessionId
    BY <1>1 DEF OthersUntouched, TypeOK, Job
  <2>3. \A id \in SessionId : logs[job[q].work][id] # "absent" => logs'[job[q].work][id] # "absent"
    BY <2>2 DEF NotesKept
  <2>4. OwnNoteOf(q)'
    BY <2>1, <2>2, <2>3 DEF OwnNoteOf
  <2>5. TextNotedOf(q)'
    <3>1. AllNoted(indexText[q].active, logs'[job[q].work])
      BY <2>1, <2>3, NotedLonger DEF TextNotedOf
    <3>2. AllNoted(CurrentSessions(currentText[q]), logs'[job[q].work])
      BY <2>1, <2>3, NotedLonger DEF TextNotedOf
    <3>. QED BY <2>2, <3>1, <3>2 DEF TextNotedOf
  <2>. QED BY <2>4, <2>5
<1>2. \A q \in Proc : OwnNoteOf(q)' /\ TextNotedOf(q)'
  BY <1>1
<1>. QED BY <1>2, NoteInvParts DEF OwnNote, OwnNoteOf, TextsNoted, TextNotedOf, AllNoted, Sessions

LEMMA FilesStayNoted ==
    ASSUME TypeOK, NoteInv, NotesKept, UNCHANGED <<index, current, committed>>
    PROVE  FilesNoted' /\ TreesNoted'
<1>1. ASSUME NEW w \in Worktree PROVE AllNoted(Listed(w), logs'[w])
  BY NotedLonger DEF NoteInv, FilesNoted, NotesKept
<1>. QED BY <1>1 DEF NoteInv, FilesNoted, TreesNoted, Listed

LEMMA SetLogKept ==
    ASSUME TypeOK, NEW p \in Proc, NEW note, note # "absent", SetLog(p, note)
    PROVE  NotesKept /\ logs'[job[p].work][job[p].id] = note
BY DEF TypeOK, SetLog, NotesKept, Job

(* What a script that has exited still claims: nothing. *)
LEMMA ExitNoted ==
    ASSUME TypeOK, NEW p \in Proc, Exit(p)
    PROVE  OwnNoteOf(p)' /\ TextNotedOf(p)'
<1>1. /\ pc'[p] = "idle" /\ indexText'[p] = EmptyIndex /\ currentText'[p] = EmptyCurrent
  BY ExitUntouched
<1>2. OwnNoteOf(p)'
  BY <1>1 DEF OwnNoteOf, GitSteps, NoteSteps
<1>3. TextNotedOf(p)'
  BY <1>1, EmptyNoted DEF TextNotedOf
<1>. QED BY <1>2, <1>3

(* A script that goes on, its texts as they were. *)
LEMMA GotoNoted ==
    ASSUME TypeOK, NoteInv, NotesKept, NEW p \in Proc, NEW step \in Steps, Goto(p, step),
           job'[p].cmd = job[p].cmd, job'[p].work = job[p].work, job'[p].id = job[p].id,
           UNCHANGED <<indexText, currentText>>,
           \/ step \in GitSteps \cup {"noteOpen"}
           \/ job[p].cmd = "new"
           \/ pc[p] \notin GitSteps \cup {"idle", "noteOpen"}
           \/ logs'[job[p].work][job[p].id] # "absent",
           step \in GitSteps \cup NoteSteps => job[p].cmd # "new",
           step \in {"logOpen", "logWrite"} => logText'[p] # "absent"
    PROVE  OwnNoteOf(p)' /\ TextNotedOf(p)'
<1>1. pc'[p] = step /\ job[p].work \in Worktree /\ job[p].id \in SessionId
  BY DEF TypeOK, Goto, Job
<1>2. OwnNoteOf(p) /\ TextNotedOf(p)
  BY NoteInvParts DEF NoteInv
<1>3. \A id \in SessionId : logs[job[p].work][id] # "absent" => logs'[job[p].work][id] # "absent"
  BY <1>1 DEF NotesKept
<1>4. OwnNoteOf(p)'
  BY <1>1, <1>2, <1>3 DEF OwnNoteOf
<1>5. AllNoted(indexText[p].active, logs'[job[p].work])
  BY <1>2, <1>3, NotedLonger DEF TextNotedOf
<1>6. AllNoted(CurrentSessions(currentText[p]), logs'[job[p].work])
  BY <1>2, <1>3, NotedLonger DEF TextNotedOf
<1>. QED BY <1>4, <1>5, <1>6 DEF TextNotedOf

(* A step that reads and writes no memory file. *)
LEMMA NoFileNoted ==
    ASSUME TypeOK, NoteInv, NEW p \in Proc, Step(p),
           UNCHANGED <<index, current, logs, committed>>,
           OwnNoteOf(p)', TextNotedOf(p)'
    PROVE  NoteInv'
<1>1. NotesKept
  BY DEF NotesKept
<1>2. FilesNoted' /\ TreesNoted'
  BY <1>1, FilesStayNoted
<1>. QED BY <1>1, <1>2, StepUntouched, OthersNoted, WorkPresentStep DEF NoteInv

(* A step that only writes the session note. *)
LEMMA LogNoted ==
    ASSUME TypeOK, NoteInv, NEW p \in Proc, Step(p), NotesKept,
           UNCHANGED <<index, current, committed>>,
           OwnNoteOf(p)', TextNotedOf(p)'
    PROVE  NoteInv'
BY FilesStayNoted, StepUntouched, OthersNoted, WorkPresentStep DEF NoteInv

LEMMA NoteInvStep ==
    ASSUME TypeOK, NoteInv, NEW p \in Proc, Step(p)
    PROVE  NoteInv'
<1>. {"fill", "rollback", "indexRead", "noteOpen", "noteTemplate", "logRead", "logOpen",
      "logWrite", "indexOpen", "indexWrite", "currentRead", "currentOpen", "currentWrite",
      "tracked", "branch", "target", "switch", "addWorktree"} \subseteq Steps
  BY DEF Steps, MatterSteps, GitSteps, NoteSteps, IndexSteps, CurrentSteps
<1>0. /\ job[p] \in Job
      /\ job[p].root \in Worktree /\ job[p].work \in Worktree
      /\ job[p].matter \in Matter /\ job[p].id \in SessionId
      /\ job[p].branch \in Branch /\ job[p].ids \in SUBSET SessionId
  BY DEF TypeOK, Job
<1>1. OwnNoteOf(p) /\ TextNotedOf(p)
  BY NoteInvParts DEF NoteInv
<1>2. UNCHANGED logs => NotesKept
  BY DEF NotesKept
<1>3. CASE Exit(p) /\ UNCHANGED <<index, current, logs, committed>>
  BY <1>3, ExitNoted, NoFileNoted
<1>4. ASSUME NEW step \in {"fill", "rollback", "indexRead"}, Goto(p, step),
             pc[p] \notin GitSteps \cup {"idle", "noteOpen"},
             UNCHANGED <<index, current, logs, committed, job, indexText, currentText>>
      PROVE  NoteInv'
  <2>1. step \notin GitSteps \cup NoteSteps /\ step \notin {"logOpen", "logWrite"}
    BY DEF GitSteps, NoteSteps
  <2>. QED BY <1>2, <1>4, <2>1, GotoNoted, NoFileNoted
<1>5. CASE MakeMatter(p)
  <2>1. /\ pc[p] = "mkdir"
        /\ Goto(p, "fill") \/ Goto(p, "rollback")
        /\ UNCHANGED <<index, current, logs, committed, job, indexText, currentText>>
    BY <1>5 DEF MakeMatter, gitVars, textVars
  <2>. QED BY <1>4, <2>1 DEF GitSteps
<1>17. CASE FillMatter(p)
  <2>1. CASE Exit(p)
    BY <1>3, <1>17, <2>1 DEF FillMatter, gitVars
  <2>2. CASE ~ Exit(p)
    <3>1. /\ pc[p] = "fill"
          /\ Goto(p, "indexRead") \/ Goto(p, "rollback")
          /\ UNCHANGED <<index, current, logs, committed, job, indexText, currentText>>
      BY <1>17, <2>2 DEF FillMatter, gitVars, textVars
    <3>. QED BY <1>4, <3>1 DEF GitSteps
  <2>. QED BY <2>1, <2>2
<1>6. CASE Rollback(p)
  BY <1>3, <1>6 DEF Rollback, gitVars
<1>7. CASE Refuse(p)
  BY <1>3, <1>7 DEF Refuse, gitVars, fileVars
<1>8. ASSUME NEW step \in {"tracked", "branch", "target", "switch", "addWorktree"}, Pass(p, step),
             pc[p] \in GitSteps
      PROVE  NoteInv'
  <2>1. step \in GitSteps /\ step \notin {"logOpen", "logWrite"}
    BY DEF GitSteps
  <2>2. /\ Goto(p, step)
        /\ UNCHANGED <<index, current, logs, committed, job, indexText, currentText>>
    BY <1>8 DEF Pass, gitVars, fileVars, textVars
  <2>3. job[p].cmd # "new"
    BY <1>1, <1>8 DEF OwnNoteOf
  <2>. QED BY <1>2, <2>1, <2>2, <2>3, GotoNoted, NoFileNoted
<1>9. CASE CheckClean(p) \/ CheckTracked(p) \/ CheckBranch(p) \/ CheckTarget(p)
  <2>1. pc[p] \in GitSteps
    BY <1>9 DEF CheckClean, CheckTracked, CheckBranch, CheckTarget, GitSteps
  <2>. QED BY <1>7, <1>8, <1>9, <2>1 DEF CheckClean, CheckTracked, CheckBranch, CheckTarget
<1>10. CASE SwitchBranch(p) /\ ~ Refuse(p)
  <2>. DEFINE tree == committed[head[job[p].root]]
  <2>1. /\ pc[p] = "switch" /\ Goto(p, "noteOpen")
        /\ committed' = [committed EXCEPT ![job[p].branch] = tree]
        /\ UNCHANGED <<index, current, logs, job, indexText, currentText>>
    BY <1>10 DEF SwitchBranch, fileVars, textVars
  <2>2. AllNoted(Sessions(tree.index, tree.current), tree.logs)
    BY <1>0 DEF TypeOK, NoteInv, TreesNoted
  <2>. HIDE DEF tree
  <2>3. TreesNoted'
    BY <2>1, <2>2 DEF TypeOK, NoteInv, TreesNoted
  <2>4. FilesNoted'
    BY <2>1 DEF NoteInv, FilesNoted, Listed
  <2>5. job[p].cmd # "new"
    BY <1>1, <2>1 DEF OwnNoteOf, GitSteps
  <2>6. OwnNoteOf(p)' /\ TextNotedOf(p)'
    BY <1>2, <2>1, <2>5, GotoNoted
  <2>. QED BY <1>2, <2>1, <2>3, <2>4, <2>6, StepUntouched, OthersNoted, WorkPresentStep DEF NoteInv
<1>11. CASE AddWorktree(p) /\ ~ Refuse(p)
  <2>. DEFINE tree == committed[head[job[p].root]]
              w == job[p].work
  <2>1. /\ pc[p] = "addWorktree" /\ pc' = [pc EXCEPT ![p] = "noteOpen"] /\ w \notin present
        /\ committed' = [committed EXCEPT ![job[p].branch] = tree]
        /\ index' = [index EXCEPT ![w] = tree.index]
        /\ current' = [current EXCEPT ![w] = tree.current]
        /\ logs' = [logs EXCEPT ![w] = tree.logs]
        /\ UNCHANGED <<job, indexText, currentText, logText>>
    BY <1>11 DEF AddWorktree, Goto, textVars
  <2>2. AllNoted(Sessions(tree.index, tree.current), tree.logs)
    BY <1>0 DEF TypeOK, NoteInv, TreesNoted
  <2>3. w \in Worktree
    BY <1>0
  <2>. HIDE DEF tree, w
  <2>4. TreesNoted'
    BY <2>1, <2>2 DEF TypeOK, NoteInv, TreesNoted
  <2>5. FilesNoted'
    <3>1. ASSUME NEW v \in Worktree
          PROVE  AllNoted(Sessions(index'[v], current'[v]), logs'[v])
      <4>1. CASE v = w
        BY <2>1, <2>2, <2>3, <4>1 DEF TypeOK
      <4>2. CASE v # w
        BY <2>1, <4>2 DEF TypeOK, NoteInv, FilesNoted, Listed
      <4>. QED BY <4>1, <4>2
    <3>. QED BY <3>1 DEF FilesNoted, Listed
  <2>6. ASSUME NEW q \in Proc PROVE OwnNoteOf(q)' /\ TextNotedOf(q)'
    <3>1. OwnNoteOf(q) /\ TextNotedOf(q)
      BY NoteInvParts DEF NoteInv
    <3>2. job[q].work \in Worktree
      BY DEF TypeOK, Job
    <3>3. CASE job[q].work = w
      <4>1. pc[q] \in GitSteps
        BY <2>1, <3>3 DEF NoteInv, WorkPresent, GitSteps
      <4>2. indexText[q] = EmptyIndex /\ currentText[q] = EmptyCurrent
        BY <4>1 DEF NoteInv, WorkPresent
      <4>3. TextNotedOf(q)'
        BY <2>1, <4>2, EmptyNoted DEF TextNotedOf
      <4>4. pc'[q] = pc[q] \/ pc'[q] = "noteOpen"
        BY <2>1 DEF TypeOK
      <4>5. OwnNoteOf(q)'
        BY <2>1, <3>1, <4>1, <4>4 DEF OwnNoteOf, GitSteps
      <4>. QED BY <4>3, <4>5
    <3>4. CASE job[q].work # w
      <4>1. logs'[job[q].work] = logs[job[q].work] /\ q # p
        BY <2>1, <3>2, <3>4 DEF TypeOK, w
      <4>2. pc'[q] = pc[q]
        BY <2>1, <4>1 DEF TypeOK
      <4>. QED BY <2>1, <3>1, <4>1, <4>2 DEF OwnNoteOf, TextNotedOf
    <3>. QED BY <3>3, <3>4
  <2>7. \A q \in Proc : OwnNoteOf(q)' /\ TextNotedOf(q)'
    BY <2>6
  <2>8. OwnNote' /\ TextsNoted'
    BY <2>7, NoteInvParts DEF OwnNote, OwnNoteOf, TextsNoted, TextNotedOf, AllNoted, Sessions
  <2>. QED BY <2>4, <2>5, <2>8, WorkPresentStep DEF NoteInv
<1>12. CASE RecordBranch(p)
  <2>1. /\ pc[p] = "currentBranch" /\ Goto(p, "noteOpen")
        /\ job' = [job EXCEPT ![p] = WithBranch(job[p], head[job[p].root])]
        /\ UNCHANGED <<index, current, logs, committed, indexText, currentText>>
    BY <1>12 DEF RecordBranch, gitVars, fileVars, textVars
  <2>2. job'[p].cmd = job[p].cmd /\ job'[p].work = job[p].work /\ job'[p].id = job[p].id
    <3>1. head[job[p].root] \in Branch
      BY <1>0 DEF TypeOK
    <3>. QED BY <1>0, <2>1, <3>1, JobFields DEF TypeOK
  <2>3. job[p].cmd # "new"
    BY <1>1, <2>1 DEF OwnNoteOf, GitSteps
  <2>. QED BY <2>1, <2>2, <2>3, <1>2, GotoNoted, NoFileNoted
<1>13. CASE OpenNote(p)
  <2>1. /\ pc[p] = "noteOpen" /\ Goto(p, "noteTemplate") /\ SetLog(p, "empty")
        /\ UNCHANGED <<index, current, committed, job, indexText, currentText>>
    BY <1>13 DEF OpenNote, gitVars, textVars
  <2>2. NotesKept /\ logs'[job[p].work][job[p].id] = "empty"
    BY <2>1, SetLogKept
  <2>3. job[p].cmd # "new"
    BY <1>1, <2>1 DEF OwnNoteOf, NoteSteps
  <2>. QED BY <2>1, <2>2, <2>3, GotoNoted, LogNoted
<1>14. CASE WriteTemplate(p)
  <2>1. /\ pc[p] = "noteTemplate" /\ Goto(p, "logRead") /\ SetLog(p, "template")
        /\ UNCHANGED <<index, current, committed, job, indexText, currentText>>
    BY <1>14 DEF WriteTemplate, gitVars, textVars
  <2>2. NotesKept /\ logs'[job[p].work][job[p].id] = "template"
    BY <2>1, SetLogKept
  <2>3. job[p].cmd # "new"
    BY <1>1, <2>1 DEF OwnNoteOf, NoteSteps
  <2>. QED BY <2>1, <2>2, <2>3, GotoNoted, LogNoted
<1>15. CASE ReadLog(p)
  <2>. DEFINE note == logs[job[p].work][job[p].id]
              ids == HeaderIds(note, job[p].id)
  <2>1. /\ pc[p] = "logRead" /\ Goto(p, "logOpen")
        /\ job' = [job EXCEPT ![p] = job[p]] \/ job' = [job EXCEPT ![p] = WithIds(job[p], ids)]
        /\ UNCHANGED <<index, current, logs, committed, indexText, currentText>>
    BY <1>15 DEF TypeOK, ReadLog, gitVars, fileVars
  <2>2. job[p].cmd # "new"
    BY <1>1, <2>1 DEF OwnNoteOf, NoteSteps
  <2>3. note # "absent" /\ note \in NoteText
    BY <1>0, <1>1, <2>1, <2>2 DEF TypeOK, OwnNoteOf, GitSteps
  <2>4. logText' = [logText EXCEPT ![p] = ReplaceTemplate(note)]
        \/ logText' = [logText EXCEPT ![p] = WriteHandoff(note)]
    BY <1>15 DEF ReadLog
  <2>5. ReplaceTemplate(note) # "absent" /\ WriteHandoff(note) # "absent"
    BY <2>3, NoteOpsTyped
  <2>6. logText'[p] # "absent"
    BY <2>4, <2>5 DEF TypeOK
  <2>7. ids \in SUBSET SessionId
    BY <1>0 DEF HeaderIds
  <2>. HIDE DEF note, ids
  <2>8. job'[p].cmd = job[p].cmd /\ job'[p].work = job[p].work /\ job'[p].id = job[p].id
    <3>1. /\ WithIds(job[p], ids).cmd = job[p].cmd /\ WithIds(job[p], ids).work = job[p].work
          /\ WithIds(job[p], ids).id = job[p].id
      BY <1>0, <2>7, JobFields
    <3>2. job'[p] = job[p] \/ job'[p] = WithIds(job[p], ids)
      BY <2>1 DEF TypeOK
    <3>. QED BY <3>1, <3>2
  <2>9. OwnNoteOf(p)' /\ TextNotedOf(p)'
    BY <1>2, <2>1, <2>2, <2>6, <2>8, GotoNoted DEF GitSteps
  <2>. QED BY <2>1, <2>9, NoFileNoted
<1>16. CASE OpenLog(p)
  <2>1. /\ pc[p] = "logOpen" /\ Goto(p, "logWrite") /\ SetLog(p, "empty")
        /\ UNCHANGED <<index, current, committed, job, indexText, currentText, logText>>
    BY <1>16 DEF OpenLog, gitVars, textVars
  <2>2. NotesKept /\ logs'[job[p].work][job[p].id] = "empty"
    BY <2>1, SetLogKept
  <2>3. job[p].cmd # "new" /\ logText'[p] # "absent"
    BY <1>1, <2>1 DEF OwnNoteOf, NoteSteps
  <2>. QED BY <2>1, <2>2, <2>3, GotoNoted, LogNoted
<1>18. CASE WriteLog(p)
  <2>1. /\ pc[p] = "logWrite" /\ Goto(p, "indexRead") /\ SetLog(p, logText[p])
        /\ UNCHANGED <<index, current, committed, job, indexText, currentText>>
    BY <1>18 DEF WriteLog, gitVars
  <2>2. logText[p] # "absent"
    BY <1>1, <2>1 DEF OwnNoteOf
  <2>3. NotesKept /\ logs'[job[p].work][job[p].id] = logText[p]
    BY <2>1, <2>2, SetLogKept
  <2>4. "indexRead" \notin GitSteps \cup NoteSteps
    BY DEF GitSteps, NoteSteps
  <2>. QED BY <2>1, <2>2, <2>3, <2>4, GotoNoted, LogNoted
<1>19. CASE ReadIndex(p)
  <2>1. /\ pc[p] = "indexRead" /\ pc' = [pc EXCEPT ![p] = "indexOpen"]
        /\ indexText' = [indexText EXCEPT ![p] = NewIndexText(p)]
        /\ UNCHANGED <<index, current, logs, committed, job, currentText>>
    BY <1>19 DEF ReadIndex, Goto, gitVars, fileVars
  <2>2. OwnNoteOf(p)'
    BY <1>1, <2>1 DEF TypeOK, OwnNoteOf, GitSteps, NoteSteps
  <2>3. AllNoted(Added(p), logs[job[p].work])
    BY <1>0, <1>1, <2>1 DEF OwnNoteOf, Added, AllNoted, Noted, EntryOf, Entry, GitSteps
  <2>4. AllNoted(index[job[p].work].active, logs[job[p].work])
    BY <1>0, NotedUnion DEF NoteInv, FilesNoted, Listed
  <2>5. AllNoted(NewIndexText(p).active, logs[job[p].work])
    BY <2>3, <2>4, NewTexts DEF AllNoted
  <2>6. TextNotedOf(p)'
    BY <1>1, <2>1, <2>5 DEF TypeOK, TextNotedOf
  <2>. QED BY <2>1, <2>2, <2>6, NoFileNoted
<1>20. CASE ReadCurrent(p)
  <2>1. /\ pc[p] = "currentRead" /\ pc' = [pc EXCEPT ![p] = "currentOpen"]
        /\ currentText' = [currentText EXCEPT ![p] = NewCurrentText(p)]
        /\ UNCHANGED <<index, current, logs, committed, job, indexText>>
    BY <1>20 DEF ReadCurrent, Goto, gitVars, fileVars
  <2>2. OwnNoteOf(p)'
    BY <1>1, <2>1 DEF TypeOK, OwnNoteOf, GitSteps, NoteSteps
  <2>3. AllNoted(Added(p), logs[job[p].work])
    BY <1>0, <1>1, <2>1 DEF OwnNoteOf, Added, AllNoted, Noted, EntryOf, Entry, GitSteps
  <2>4. AllNoted(CurrentSessions(current[job[p].work]), logs[job[p].work])
    BY <1>0, NotedUnion DEF NoteInv, FilesNoted, Listed
  <2>5. AllNoted(CurrentSessions(NewCurrentText(p)), logs[job[p].work])
    BY <2>3, <2>4, NewTexts DEF AllNoted
  <2>6. TextNotedOf(p)'
    BY <1>1, <2>1, <2>5 DEF TypeOK, TextNotedOf
  <2>. QED BY <2>1, <2>2, <2>6, NoFileNoted
<1>21. ASSUME NEW text, AllNoted(text.active, logs[job[p].work]),
              index' = [index EXCEPT ![job[p].work] = text],
              UNCHANGED <<current, logs, committed>>, OwnNoteOf(p)', TextNotedOf(p)'
       PROVE  NoteInv'
  <2>1. ASSUME NEW w \in Worktree PROVE AllNoted(Sessions(index'[w], current[w]), logs[w])
    <3>1. /\ AllNoted(index[w].active, logs[w])
          /\ AllNoted(CurrentSessions(current[w]), logs[w])
      BY NotedUnion DEF NoteInv, FilesNoted, Listed
    <3>2. AllNoted(index'[w].active, logs[w])
      BY <1>0, <1>21, <3>1 DEF TypeOK
    <3>. QED BY <3>1, <3>2, NotedUnion
  <2>2. FilesNoted' /\ TreesNoted'
    BY <1>21, <2>1 DEF NoteInv, FilesNoted, TreesNoted, Listed
  <2>. QED BY <1>2, <1>21, <2>2, StepUntouched, OthersNoted, WorkPresentStep DEF NoteInv
<1>22. ASSUME NEW text, AllNoted(CurrentSessions(text), logs[job[p].work]),
              current' = [current EXCEPT ![job[p].work] = text],
              UNCHANGED <<index, logs, committed>>, OwnNoteOf(p)', TextNotedOf(p)'
       PROVE  NoteInv'
  <2>1. ASSUME NEW w \in Worktree PROVE AllNoted(Sessions(index[w], current'[w]), logs[w])
    <3>1. /\ AllNoted(index[w].active, logs[w])
          /\ AllNoted(CurrentSessions(current[w]), logs[w])
      BY NotedUnion DEF NoteInv, FilesNoted, Listed
    <3>2. AllNoted(CurrentSessions(current'[w]), logs[w])
      BY <1>0, <1>22, <3>1 DEF TypeOK
    <3>. QED BY <3>1, <3>2, NotedUnion
  <2>2. FilesNoted' /\ TreesNoted'
    BY <1>22, <2>1 DEF NoteInv, FilesNoted, TreesNoted, Listed
  <2>. QED BY <1>2, <1>22, <2>2, StepUntouched, OthersNoted, WorkPresentStep DEF NoteInv
<1>23. ASSUME NEW step \in {"indexWrite", "currentWrite"}, Goto(p, step),
              pc[p] \notin GitSteps \cup {"idle", "noteOpen"},
              UNCHANGED <<logs, job, indexText, currentText>>
       PROVE  OwnNoteOf(p)' /\ TextNotedOf(p)'
  <2>1. step \notin GitSteps \cup NoteSteps /\ step \notin {"logOpen", "logWrite"}
    BY DEF GitSteps, NoteSteps
  <2>. QED BY <1>2, <1>23, <2>1, GotoNoted
<1>24. CASE OpenIndex(p)
  <2>1. /\ pc[p] = "indexOpen" /\ Goto(p, "indexWrite")
        /\ index' = [index EXCEPT ![job[p].work] = EmptyIndex]
        /\ UNCHANGED <<current, logs, committed, job, indexText, currentText>>
    BY <1>24 DEF OpenIndex, gitVars, textVars
  <2>2. OwnNoteOf(p)' /\ TextNotedOf(p)'
    BY <1>23, <2>1 DEF GitSteps
  <2>. QED BY <1>21, <2>1, <2>2, EmptyNoted
<1>25. CASE OpenCurrent(p)
  <2>1. /\ pc[p] = "currentOpen" /\ Goto(p, "currentWrite")
        /\ current' = [current EXCEPT ![job[p].work] = EmptyCurrent]
        /\ UNCHANGED <<index, logs, committed, job, indexText, currentText>>
    BY <1>25 DEF OpenCurrent, gitVars, textVars
  <2>2. OwnNoteOf(p)' /\ TextNotedOf(p)'
    BY <1>23, <2>1 DEF GitSteps
  <2>. QED BY <1>22, <2>1, <2>2, EmptyNoted
<1>26. CASE WriteIndex(p)
  <2>1. /\ pc[p] = "indexWrite" /\ index' = [index EXCEPT ![job[p].work] = indexText[p]]
        /\ UNCHANGED <<current, logs, committed>>
    BY <1>26 DEF WriteIndex, gitVars
  <2>2. AllNoted(indexText[p].active, logs[job[p].work])
    BY <1>1 DEF TextNotedOf
  <2>3. CASE Exit(p)
    BY <1>21, <2>1, <2>2, <2>3, ExitNoted
  <2>4. CASE ~ Exit(p)
    <3>1. /\ pc' = [pc EXCEPT ![p] = "currentRead"]
          /\ indexText' = [indexText EXCEPT ![p] = EmptyIndex]
          /\ UNCHANGED <<job, currentText>>
      BY <1>26, <2>4 DEF WriteIndex, Goto
    <3>2. OwnNoteOf(p)'
      BY <1>1, <2>1, <3>1 DEF TypeOK, OwnNoteOf, GitSteps, NoteSteps
    <3>3. TextNotedOf(p)'
      BY <1>1, <2>1, <3>1, EmptyNoted DEF TypeOK, TextNotedOf
    <3>. QED BY <1>21, <2>1, <2>2, <3>2, <3>3
  <2>. QED BY <2>3, <2>4
<1>27. CASE WriteCurrent(p)
  <2>1. /\ current' = [current EXCEPT ![job[p].work] = currentText[p]]
        /\ UNCHANGED <<index, logs, committed>> /\ Exit(p)
    BY <1>27 DEF WriteCurrent, gitVars
  <2>2. AllNoted(CurrentSessions(currentText[p]), logs[job[p].work])
    BY <1>1 DEF TextNotedOf
  <2>. QED BY <1>22, <2>1, <2>2, ExitNoted
<1>. QED BY <1>5, <1>6, <1>7, <1>9, <1>10, <1>11, <1>12, <1>13, <1>14, <1>15, <1>16, <1>17,
            <1>18, <1>19, <1>20, <1>24, <1>25, <1>26, <1>27 DEF Step

LEMMA NoteInvLaunch ==
    ASSUME TypeOK, NoteInv, NEW p \in Proc, Launches(p)
    PROVE  NoteInv'
<1>1. PICK j \in Job, first \in Steps : Launch(p, j, first) /\ Launched(j, first)
  BY LaunchesShape
<1>2. /\ pc[p] = "idle" /\ pc' = [pc EXCEPT ![p] = first] /\ job' = [job EXCEPT ![p] = j]
      /\ UNCHANGED <<index, current, logs, committed, indexText, currentText, logText>>
  BY <1>1 DEF Launch, gitVars, fileVars, textVars
<1>3. OthersUntouched(p)
  BY <1>2 DEF TypeOK, OthersUntouched
<1>4. OwnNoteOf(p)'
  BY <1>1, <1>2 DEF TypeOK, OwnNoteOf, Launched, GitSteps, NoteSteps
<1>5. indexText[p] = EmptyIndex /\ currentText[p] = EmptyCurrent
  BY <1>2 DEF NoteInv, WorkPresent
<1>6. TextNotedOf(p)'
  BY <1>2, <1>5, EmptyNoted DEF TextNotedOf
<1>7. NotesKept
  BY <1>2 DEF NotesKept
<1>8. FilesNoted' /\ TreesNoted'
  BY <1>2, <1>7, FilesStayNoted
<1>. QED BY <1>3, <1>4, <1>6, <1>7, <1>8, OthersNoted, WorkPresentLaunch DEF NoteInv

(* What NoteInv says of Git, files and scripts that a step leaves alone.   *)
LEMMA NoteInvFault ==
    ASSUME TypeOK, NoteInv, NEW p \in Proc, Abort(p) \/ MatterOsError(p)
    PROVE  NoteInv'
<1>1. UNCHANGED <<present, index, current, logs, committed>>
  BY DEF Abort, MatterOsError, gitVars, fileVars
<1>2. NotesKept
  BY <1>1 DEF NotesKept
<1>3. FilesNoted' /\ TreesNoted'
  BY <1>1, <1>2, FilesStayNoted
<1>4. CASE Abort(p)
  <2>1. Exit(p)
    BY <1>4 DEF Abort
  <2>. QED BY <1>1, <1>2, <1>3, <2>1, ExitUntouched, ExitNoted, OthersNoted, WorkPresentExit
       DEF NoteInv
<1>5. CASE MatterOsError(p)
  <2>1. /\ Goto(p, "rollback") /\ job[p].cmd = "new" /\ UNCHANGED <<job, textVars>>
    BY <1>5 DEF MatterOsError
  <2>2. "rollback" \in Steps \ (GitSteps \cup NoteSteps)
    BY DEF Steps, MatterSteps, GitSteps, NoteSteps
  <2>3. OwnNoteOf(p)' /\ TextNotedOf(p)'
    BY <1>2, <2>1, <2>2, GotoNoted DEF textVars
  <2>4. OthersUntouched(p)
    BY <2>1 DEF TypeOK, OthersUntouched, Goto, textVars
  <2>5. job[p].work \in present
    BY <2>1 DEF NoteInv, WorkPresent
  <2>6. WorkPresent'
    BY <1>1, <2>1, <2>2, <2>5, WorkPresentGoto DEF NoteInv
  <2>. QED BY <1>2, <1>3, <2>3, <2>4, <2>6, OthersNoted DEF NoteInv
<1>. QED BY <1>4, <1>5

LEMMA NoteInvInit == Init => NoteInv
<1>. SUFFICES ASSUME Init PROVE NoteInv
  OBVIOUS
<1>1. \A b \in Branch : AllNoted(Sessions(committed[b].index, committed[b].current), committed[b].logs)
  BY EmptyNoted DEF Init, ShippedTree
<1>2. \A w \in Worktree : AllNoted(Listed(w), logs[w])
  BY EmptyNoted DEF Init, Listed
<1>3. \A p \in Proc : AllNoted(Sessions(indexText[p], currentText[p]), logs[job[p].work])
  BY EmptyNoted DEF Init
<1>4. OwnNote
  BY DEF Init, OwnNote, GitSteps, NoteSteps
<1>. QED BY <1>1, <1>2, <1>3, <1>4, WorkPresentInit DEF NoteInv, FilesNoted, TreesNoted, TextsNoted

LEMMA NoteInvInvariant == Spec => []NoteInv
<1>1. ASSUME TypeOK, NoteInv, [Next]_vars PROVE NoteInv'
  <2>1. CASE \E p \in Proc : Launches(p)
    BY <1>1, <2>1, NoteInvLaunch
  <2>2. CASE \E p \in Proc : Step(p)
    BY <1>1, <2>2, NoteInvStep
  <2>3. CASE \E p \in Proc : Abort(p) \/ MatterOsError(p)
    BY <1>1, <2>3, NoteInvFault
  <2>4. ASSUME NEW w \in Worktree, Commit(w) PROVE NoteInv'
    <3>1. /\ committed' = [committed EXCEPT ![head[w]] = Tree(w)]
          /\ UNCHANGED <<present, index, current, logs, pc, job, indexText, currentText, logText>>
      BY <2>4 DEF Commit, fileVars, textVars
    <3>2. AllNoted(Sessions(Tree(w).index, Tree(w).current), Tree(w).logs)
      BY <1>1 DEF NoteInv, FilesNoted, Listed, Tree
    <3>3. TreesNoted'
      BY <1>1, <3>1, <3>2 DEF TypeOK, NoteInv, TreesNoted
    <3>. QED BY <1>1, <3>1, <3>3, WorkPresentKept DEF NoteInv, OwnNote, FilesNoted, TextsNoted, Listed
  <2>5. CASE Tick \/ UNCHANGED vars
    <3>1. UNCHANGED <<present, committed, index, current, logs, pc, job, indexText, currentText, logText>>
      BY <2>5 DEF Tick, vars, gitVars, fileVars, textVars
    <3>. QED BY <1>1, <3>1, WorkPresentKept
             DEF NoteInv, OwnNote, FilesNoted, TreesNoted, TextsNoted, Listed
  <2>. QED BY <1>1, <2>1, <2>2, <2>3, <2>4, <2>5 DEF Next
<1>. QED BY <1>1, NoteInvInit, TypeCorrect, PTL DEF Spec

(* Whatever stale text a script writes back and wherever it is killed, a   *)
(* session that index.yaml or CURRENT.md names has its note.               *)
THEOREM ListedAlwaysNoted == Spec => []ListedHasNote
<1>1. NoteInv => ListedHasNote
  BY DEF NoteInv, FilesNoted, AllNoted, Noted, ListedHasNote
<1>. QED BY <1>1, NoteInvInvariant, PTL

-----------------------------------------------------------------------------
(* Matters. When users run one script at a time in a worktree, a matter    *)
(* directory that new_matter.py has reported stays, whatever is killed and *)
(* whatever I/O error the rollback of another attempt answers.             *)

(* What a step of a script does to its own job, and to matter directories. *)

SameJob(p) ==
    /\ job'[p].cmd = job[p].cmd /\ job'[p].root = job[p].root
    /\ job'[p].work = job[p].work /\ job'[p].matter = job[p].matter
    /\ job'[p].id = job[p].id /\ job'[p].option = job[p].option

LEMMA StepJob ==
    ASSUME TypeOK, NEW p \in Proc, Step(p)
    PROVE  pc[p] # "idle" /\ (Exit(p) \/ SameJob(p))
<1>0. job[p] \in Job /\ job[p].root \in Worktree /\ head[job[p].root] \in Branch
      /\ job[p].id \in SessionId
  BY DEF TypeOK, Job
<1>1. CASE MakeMatter(p) \/ FillMatter(p) \/ Rollback(p)
  BY <1>1 DEF MakeMatter, FillMatter, Rollback, SameJob
<1>2. CASE CheckClean(p) \/ CheckTracked(p) \/ CheckBranch(p) \/ CheckTarget(p)
  BY <1>2 DEF CheckClean, CheckTracked, CheckBranch, CheckTarget, Pass, Refuse, SameJob
<1>3. CASE SwitchBranch(p) \/ AddWorktree(p)
  BY <1>3 DEF SwitchBranch, AddWorktree, Refuse, SameJob
<1>4. CASE RecordBranch(p)
  <2>1. pc[p] = "currentBranch" /\ job'[p] = WithBranch(job[p], head[job[p].root])
    BY <1>4 DEF TypeOK, RecordBranch
  <2>. QED BY <1>0, <2>1, JobFields DEF SameJob
<1>5. CASE OpenNote(p) \/ WriteTemplate(p) \/ OpenLog(p) \/ WriteLog(p)
  BY <1>5 DEF OpenNote, WriteTemplate, OpenLog, WriteLog, SameJob
<1>6. CASE ReadLog(p)
  <2>. DEFINE ids == HeaderIds(logs[job[p].work][job[p].id], job[p].id)
  <2>1. pc[p] = "logRead" /\ (job'[p] = job[p] \/ job'[p] = WithIds(job[p], ids))
    BY <1>6 DEF TypeOK, ReadLog
  <2>2. ids \in SUBSET SessionId
    BY <1>0 DEF HeaderIds
  <2>. HIDE DEF ids
  <2>3. /\ WithIds(job[p], ids).cmd = job[p].cmd /\ WithIds(job[p], ids).root = job[p].root
        /\ WithIds(job[p], ids).work = job[p].work
        /\ WithIds(job[p], ids).matter = job[p].matter
        /\ WithIds(job[p], ids).id = job[p].id /\ WithIds(job[p], ids).option = job[p].option
    BY <1>0, <2>2, JobFields
  <2>. QED BY <2>1, <2>3 DEF SameJob
<1>7. CASE ReadIndex(p) \/ OpenIndex(p) \/ WriteIndex(p)
  BY <1>7 DEF ReadIndex, OpenIndex, WriteIndex, SameJob
<1>8. CASE ReadCurrent(p) \/ OpenCurrent(p) \/ WriteCurrent(p)
  BY <1>8 DEF ReadCurrent, OpenCurrent, WriteCurrent, SameJob
<1>. QED BY <1>1, <1>2, <1>3, <1>4, <1>5, <1>6, <1>7, <1>8 DEF Step

(* The other steps of a script stay within its session or its memory files. *)
FileStep(p) ==
    \/ pc[p] \in GitSteps \cup NoteSteps /\ pc'[p] \in GitSteps \cup NoteSteps \cup {"indexRead"}
    \/ pc[p] \in IndexSteps \cup CurrentSteps /\ pc'[p] \in IndexSteps \cup CurrentSteps

LEMMA MattersFrame ==
    ASSUME TypeOK, NEW p \in Proc, Step(p)
    PROVE  \/ UNCHANGED <<matters, acked>> /\ (Exit(p) \/ FileStep(p))
           \/ MakeMatter(p) \/ FillMatter(p) \/ Rollback(p)
           \/ AddWorktree(p) /\ ~ Refuse(p)
           \/ WriteCurrent(p)
<1>. ASSUME NEW step, Goto(p, step) PROVE pc'[p] = step
  BY DEF TypeOK, Goto
<1>1. CASE Refuse(p)
  BY <1>1 DEF Refuse, fileVars
<1>2. CASE (CheckClean(p) \/ CheckTracked(p) \/ CheckBranch(p) \/ CheckTarget(p)) /\ ~ Refuse(p)
  <2>1. pc[p] \in GitSteps
    BY <1>2 DEF CheckClean, CheckTracked, CheckBranch, CheckTarget, GitSteps
  <2>2. PICK step \in {"tracked", "branch", "target", "switch", "addWorktree"} : Pass(p, step)
    BY <1>2 DEF CheckClean, CheckTracked, CheckBranch, CheckTarget
  <2>. QED BY <2>1, <2>2 DEF Pass, FileStep, GitSteps, fileVars
<1>3. CASE RecordBranch(p) \/ (SwitchBranch(p) /\ ~ Refuse(p))
  <2>1. /\ pc[p] \in {"currentBranch", "switch"} /\ Goto(p, "noteOpen")
        /\ UNCHANGED <<matters, acked>>
    BY <1>3 DEF RecordBranch, SwitchBranch, fileVars
  <2>. QED BY <2>1 DEF FileStep, GitSteps, NoteSteps
<1>4. CASE OpenNote(p) \/ WriteTemplate(p) \/ ReadLog(p) \/ OpenLog(p) \/ WriteLog(p)
  BY <1>4 DEF OpenNote, WriteTemplate, ReadLog, OpenLog, WriteLog, fileVars, FileStep, NoteSteps
<1>5. CASE ReadIndex(p) \/ OpenIndex(p) \/ WriteIndex(p)
  BY <1>5 DEF ReadIndex, OpenIndex, WriteIndex, fileVars, FileStep, IndexSteps, CurrentSteps
<1>6. CASE ReadCurrent(p) \/ OpenCurrent(p)
  BY <1>6 DEF ReadCurrent, OpenCurrent, fileVars, FileStep, CurrentSteps
<1>. QED BY <1>1, <1>2, <1>3, <1>4, <1>5, <1>6 DEF Step

(* Matter directories change in the worktree the script writes to.         *)
LEMMA OnlyOwnWork ==
    ASSUME TypeOK, NEW p \in Proc, Step(p), NEW w \in Worktree, w # job[p].work
    PROVE  matters'[w] = matters[w] /\ acked'[w] = acked[w]
<1>1. CASE UNCHANGED <<matters, acked>>
  BY <1>1
<1>2. CASE MakeMatter(p) \/ FillMatter(p) \/ Rollback(p)
  BY <1>2 DEF TypeOK, MakeMatter, FillMatter, Rollback, SetMatter
<1>3. CASE AddWorktree(p) /\ ~ Refuse(p)
  BY <1>3 DEF TypeOK, AddWorktree
<1>4. CASE WriteCurrent(p)
  BY <1>4 DEF TypeOK, WriteCurrent
<1>. QED BY <1>1, <1>2, <1>3, <1>4, MattersFrame

-----------------------------------------------------------------------------
(* MakerInv, for one script and for one worktree.                          *)

MatterOf(p) ==
    /\ pc[p] \in MatterSteps => job[p].cmd = "new"
    /\ pc[p] # "idle" /\ job[p].cmd = "new" =>
          LET state == matters[job[p].work][job[p].matter] IN
          /\ pc[p] \notin GitSteps \cup NoteSteps
          /\ job[p].matter \notin acked[job[p].work]
          /\ pc[p] = "mkdir" => state = "absent"
          /\ pc[p] = "fill" => state = "copying"
          /\ pc[p] \in IndexSteps \cup CurrentSteps => state = "ready"

AckedIn(w) ==
    /\ w \notin present => acked[w] = {}
    /\ \A m \in acked[w] : matters[w][m] = "ready"

LEMMA MakerInvParts ==
    MakerInv <=> /\ WorkPresent
                 /\ \A p \in Proc : MatterOf(p)
                 /\ \A w \in Worktree : AckedIn(w)
BY DEF MakerInv, OwnMatter, AckedMatterStays, MatterOf, AckedIn

LEMMA MakerInvPartsNext ==
    ASSUME WorkPresent', \A p \in Proc : MatterOf(p)', \A w \in Worktree : AckedIn(w)'
    PROVE  MakerInv'
BY DEF MakerInv, OwnMatter, AckedMatterStays, MatterOf, AckedIn

LEMMA ExclusiveStep ==
    ASSUME TypeOK, ExclusiveUse, NEW p \in Proc, OthersUntouched(p),
           Exit(p) \/ (pc[p] # "idle" /\ SameJob(p))
    PROVE  ExclusiveUse'
<1>1. ASSUME NEW q \in Proc, NEW w \in Worktree, Uses(q, w)' PROVE Uses(q, w)
  <2>1. CASE q # p
    BY <1>1, <2>1 DEF OthersUntouched, Uses
  <2>2. CASE q = p
    BY <1>1, <2>2, ExitUntouched DEF Uses, SameJob
  <2>. QED BY <2>1, <2>2
<1>. QED BY <1>1 DEF ExclusiveUse

(* A step changes one matter directory of the script's worktree, or fills  *)
(* a worktree that was not there.                                          *)
LEMMA OneMatterOfStep ==
    ASSUME TypeOK, NEW p \in Proc, Step(p), NEW w \in Worktree, NEW m \in Matter,
           matters'[w][m] # matters[w][m] \/ (m \in acked'[w] /\ m \notin acked[w])
    PROVE  /\ w = job[p].work
           /\ \/ m = job[p].matter /\ job[p].cmd = "new"
              \/ m = job[p].matter /\ pc[p] \in MatterSteps
              \/ w \notin present
<1>0. w = job[p].work /\ job[p].matter \in Matter
  BY OnlyOwnWork DEF TypeOK, Job
<1>1. CASE MakeMatter(p) \/ FillMatter(p) \/ Rollback(p)
  <2>1. pc[p] \in MatterSteps
    BY <1>1 DEF MakeMatter, FillMatter, Rollback, MatterSteps
  <2>2. ASSUME m # job[p].matter PROVE FALSE
    <3>1. \/ matters' = matters
          \/ \E state : matters' = [matters EXCEPT ![w][job[p].matter] = state]
      BY <1>0, <1>1 DEF MakeMatter, FillMatter, Rollback, SetMatter
    <3>2. matters'[w][m] = matters[w][m]
      <4>1. ASSUME NEW state, matters' = [matters EXCEPT ![w][job[p].matter] = state]
            PROVE  matters'[w][m] = matters[w][m]
        BY <1>0, <2>2, <4>1 DEF TypeOK
      <4>. QED BY <3>1, <4>1
    <3>3. acked' = acked \/ acked' = [acked EXCEPT ![w] = @ \cup {job[p].matter}]
      BY <1>0, <1>1 DEF MakeMatter, FillMatter, Rollback
    <3>. QED BY <2>2, <3>2, <3>3 DEF TypeOK
  <2>. QED BY <1>0, <2>1, <2>2
<1>2. CASE AddWorktree(p) /\ ~ Refuse(p)
  BY <1>0, <1>2 DEF AddWorktree
<1>3. CASE WriteCurrent(p)
  BY <1>0, <1>3 DEF TypeOK, WriteCurrent
<1>4. CASE UNCHANGED <<matters, acked>>
  BY <1>4
<1>. QED BY <1>1, <1>2, <1>3, <1>4, MattersFrame

(* So it leaves the matters of the other new_matter.py alone.              *)
LEMMA OthersMatters ==
    ASSUME TypeOK, OneMaker, MakerInv, NEW p \in Proc, Step(p), NEW q \in Proc, q # p
    PROVE  MatterOf(q)'
<1>1. MatterOf(q) /\ MatterOf(p)
  BY MakerInvParts
<1>2. /\ pc'[q] = pc[q] /\ job'[q] = job[q]
      /\ job[q].work \in Worktree /\ job[q].matter \in Matter
  BY StepUntouched DEF OthersUntouched, TypeOK, Job
<1>3. CASE pc[q] # "idle" /\ job[q].cmd = "new"
  <2>. DEFINE w == job[q].work
              m == job[q].matter
  <2>1. w \in present
    BY <1>3 DEF MakerInv, WorkPresent
  <2>2. pc[p] # "idle" /\ (pc[p] \in MatterSteps => job[p].cmd = "new")
    BY <1>1, StepJob DEF MatterOf
  <2>3. ~ (job[p].cmd = "new" /\ w = job[p].work /\ m = job[p].matter)
    BY <1>3, <2>2 DEF OneMaker
  <2>4. matters'[w][m] = matters[w][m] /\ (m \in acked'[w] => m \in acked[w])
    <3>. HIDE DEF w, m
    <3>. QED BY <1>2, <2>1, <2>2, <2>3, OneMatterOfStep DEF w, m
  <2>. QED BY <1>1, <1>2, <2>4 DEF MatterOf
<1>4. CASE ~ (pc[q] # "idle" /\ job[q].cmd = "new")
  BY <1>1, <1>2, <1>4 DEF MatterOf
<1>. QED BY <1>3, <1>4

(* It is enough to look at the script that moves and at its own worktree.  *)
LEMMA MakerInvLocal ==
    ASSUME TypeOK, OneMaker, MakerInv, NEW p \in Proc, Step(p),
           NEW v \in Worktree, v = job[p].work, MatterOf(p)', AckedIn(v)'
    PROVE  MakerInv'
<1>1. WorkPresent'
  BY WorkPresentStep DEF MakerInv
<1>2. \A q \in Proc : MatterOf(q)'
  BY OthersMatters
<1>3. ASSUME NEW w \in Worktree PROVE AckedIn(w)'
  <2>1. CASE w = v
    BY <2>1
  <2>2. CASE w # job[p].work
    <3>1. matters'[w] = matters[w] /\ acked'[w] = acked[w] /\ AckedIn(w)
      BY <2>2, OnlyOwnWork, MakerInvParts
    <3>2. w \in present => w \in present'
      BY StepGitFrame DEF gitVars, SwitchBranch, AddWorktree, Refuse
    <3>. QED BY <3>1, <3>2 DEF AckedIn
  <2>. QED BY <2>1, <2>2
<1>. QED BY <1>1, <1>2, <1>3, MakerInvPartsNext

LEMMA MakerInvStep ==
    ASSUME TypeOK, OneMaker, MakerInv, NEW p \in Proc, Step(p)
    PROVE  MakerInv'
<1>. PICK w \in Worktree, m \in Matter : w = job[p].work /\ m = job[p].matter
  BY DEF TypeOK, Job
<1>0. pc[p] # "idle"
  BY StepJob
<1>1. MatterOf(p) /\ AckedIn(w)
  BY <1>0, MakerInvParts
<1>2. Exit(p) => MatterOf(p)'
  BY ExitUntouched DEF MatterOf, MatterSteps
<1>3. CASE MakeMatter(p)
  <2>1. /\ pc[p] = "mkdir" /\ matters' = [matters EXCEPT ![w][m] = "copying"]
        /\ pc' = [pc EXCEPT ![p] = "fill"] /\ UNCHANGED <<acked, job, present>>
    BY <1>0, <1>1, <1>3 DEF MakeMatter, SetMatter, Goto, MatterOf, MatterSteps, gitVars
  <2>2. job[p].cmd = "new" /\ m \notin acked[w]
    BY <1>1, <2>1 DEF MatterOf, MatterSteps
  <2>3. matters'[w][m] = "copying" /\ pc'[p] = "fill"
    BY <1>0, <2>1 DEF TypeOK
  <2>4. MatterOf(p)'
    BY <2>1, <2>2, <2>3 DEF MatterOf, MatterSteps, GitSteps, NoteSteps, IndexSteps, CurrentSteps
  <2>5. AckedIn(w)'
    BY <1>0, <1>1, <2>1, <2>2 DEF TypeOK, AckedIn
  <2>. QED BY <2>4, <2>5, MakerInvLocal
<1>4. CASE FillMatter(p)
  <2>1. /\ pc[p] = "fill" /\ job[p].cmd = "new" /\ m \notin acked[w]
        /\ matters[w][m] = "copying"
    BY <1>0, <1>1, <1>4 DEF FillMatter, MatterOf, MatterSteps
  <2>2. matters' = [matters EXCEPT ![w][m] = "ready"] /\ UNCHANGED present
    BY <1>4, <2>1 DEF FillMatter, SetMatter, gitVars
  <2>3. w \in present
    BY <2>1, WorkIsPresent DEF MakerInv
  <2>4. matters'[w][m] = "ready" /\ \A n \in Matter : n # m => matters'[w][n] = matters[w][n]
    BY <1>0, <2>2 DEF TypeOK
  <2>5. acked'[w] \subseteq acked[w] \cup {m} /\ acked[w] \subseteq Matter
    BY <1>0, <1>4 DEF TypeOK, FillMatter
  <2>6. AckedIn(w)'
    BY <1>1, <2>2, <2>3, <2>4, <2>5 DEF AckedIn
  <2>7. CASE Exit(p)
    BY <1>2, <2>6, <2>7, MakerInvLocal
  <2>8. CASE ~ Exit(p)
    <3>1. pc' = [pc EXCEPT ![p] = "indexRead"] /\ UNCHANGED <<acked, job>>
      BY <1>4, <2>1, <2>8 DEF FillMatter, Goto
    <3>2. pc'[p] = "indexRead"
      BY <3>1 DEF TypeOK
    <3>3. MatterOf(p)'
      BY <2>1, <2>4, <3>1, <3>2 DEF MatterOf, MatterSteps, GitSteps, NoteSteps
    <3>. QED BY <2>6, <3>3, MakerInvLocal
  <2>. QED BY <2>7, <2>8
<1>5. CASE Rollback(p)
  <2>1. /\ pc[p] = "rollback" /\ matters' = [matters EXCEPT ![w][m] = "absent"]
        /\ Exit(p) /\ UNCHANGED <<acked, present>>
    BY <1>5 DEF Rollback, SetMatter, gitVars
  <2>2. m \notin acked[w]
    BY <1>0, <1>1, <2>1 DEF MatterOf, MatterSteps
  <2>3. AckedIn(w)'
    BY <1>0, <1>1, <2>1, <2>2 DEF TypeOK, AckedIn
  <2>. QED BY <1>2, <2>1, <2>3, MakerInvLocal
<1>6. CASE AddWorktree(p) /\ ~ Refuse(p)
  <2>1. /\ pc[p] = "addWorktree" /\ pc' = [pc EXCEPT ![p] = "noteOpen"] /\ w \notin present
        /\ UNCHANGED <<acked, job>>
    BY <1>6 DEF AddWorktree, Goto
  <2>2. job[p].cmd # "new"
    BY <1>0, <1>1, <2>1 DEF MatterOf, GitSteps
  <2>3. acked[w] = {}
    BY <1>1, <2>1 DEF AckedIn
  <2>4. AckedIn(w)'
    BY <2>1, <2>3 DEF AckedIn
  <2>5. MatterOf(p)'
    BY <2>1, <2>2 DEF TypeOK, MatterOf, MatterSteps
  <2>. QED BY <2>4, <2>5, MakerInvLocal
<1>7. CASE WriteCurrent(p)
  <2>1. /\ pc[p] = "currentWrite" /\ Exit(p) /\ UNCHANGED <<matters, present>>
        /\ acked' = acked \/ (job[p].cmd = "new" /\ acked' = [acked EXCEPT ![w] = @ \cup {m}])
    BY <1>7 DEF WriteCurrent, gitVars
  <2>2. w \in present
    BY <2>1, WorkIsPresent DEF MakerInv
  <2>3. job[p].cmd = "new" => matters[w][m] = "ready"
    BY <1>0, <1>1, <2>1 DEF MatterOf, CurrentSteps
  <2>4. AckedIn(w)'
    BY <1>0, <1>1, <2>1, <2>2, <2>3 DEF TypeOK, AckedIn
  <2>. QED BY <1>2, <2>1, <2>4, MakerInvLocal
<1>8. CASE UNCHANGED <<matters, acked>> /\ (Exit(p) \/ FileStep(p))
  <2>1. present \subseteq present'
    BY StepGitFrame DEF gitVars, SwitchBranch, AddWorktree, Refuse
  <2>2. AckedIn(w)'
    BY <1>1, <1>8, <2>1 DEF AckedIn
  <2>3. CASE Exit(p)
    BY <1>2, <2>2, <2>3, MakerInvLocal
  <2>4. CASE ~ Exit(p)
    <3>1. SameJob(p) /\ FileStep(p)
      BY <1>8, <2>4, StepJob
    <3>2. pc'[p] \notin MatterSteps
      BY <3>1 DEF FileStep, MatterSteps, GitSteps, NoteSteps, IndexSteps, CurrentSteps
    <3>3. CASE pc[p] \in GitSteps \cup NoteSteps
      <4>1. job[p].cmd # "new"
        BY <1>0, <1>1, <3>3 DEF MatterOf
      <4>. QED BY <2>2, <3>1, <3>2, <4>1, MakerInvLocal DEF MatterOf, SameJob
    <3>4. CASE pc[p] \in IndexSteps \cup CurrentSteps
      <4>1. pc'[p] \in IndexSteps \cup CurrentSteps /\ pc'[p] \notin GitSteps \cup NoteSteps
        BY <3>1, <3>4 DEF FileStep, GitSteps, NoteSteps, IndexSteps, CurrentSteps
      <4>2. MatterOf(p)'
        BY <1>0, <1>1, <1>8, <3>1, <3>2, <3>4, <4>1
           DEF MatterOf, SameJob, IndexSteps, CurrentSteps
      <4>. QED BY <2>2, <4>2, MakerInvLocal
    <3>. QED BY <3>1, <3>3, <3>4 DEF FileStep
  <2>. QED BY <1>8, <2>3, <2>4
<1>. QED BY <1>3, <1>4, <1>5, <1>6, <1>7, <1>8, MattersFrame

LEMMA MakerInvLaunch ==
    ASSUME TypeOK, MakerInv, NEW p \in Proc, Launches(p)
    PROVE  MakerInv'
<1>1. PICK j \in Job, first \in Steps : Launch(p, j, first) /\ Launched(j, first)
  BY LaunchesShape
<1>2. /\ pc[p] = "idle" /\ pc' = [pc EXCEPT ![p] = first] /\ job' = [job EXCEPT ![p] = j]
      /\ UNCHANGED <<matters, acked, present>>
  BY <1>1 DEF Launch, gitVars, fileVars
<1>3. pc'[p] = first /\ job'[p] = j /\ j.work \in Worktree /\ j.matter \in Matter
  BY <1>1, <1>2 DEF TypeOK, Job
<1>4. \A q \in Proc : q # p => pc'[q] = pc[q] /\ job'[q] = job[q]
  BY <1>2 DEF TypeOK
<1>6. ASSUME NEW q \in Proc PROVE MatterOf(q)'
  <2>1. CASE q = p
    <3>1. first \notin MatterSteps \/ j.cmd = "new"
      BY <1>1 DEF Launched, MatterSteps
    <3>2. CASE j.cmd = "new"
      <4>1. first = "mkdir" /\ matters[j.work][j.matter] = "absent"
        BY <1>1, <3>2 DEF Launched
      <4>2. j.matter \notin acked[j.work]
        BY <1>3, <4>1 DEF MakerInv, AckedMatterStays
      <4>. QED BY <1>2, <1>3, <2>1, <3>2, <4>1, <4>2
               DEF MatterOf, MatterSteps, GitSteps, NoteSteps, IndexSteps, CurrentSteps
    <3>3. CASE j.cmd # "new"
      BY <1>3, <2>1, <3>1, <3>3 DEF MatterOf
    <3>. QED BY <3>2, <3>3
  <2>2. CASE q # p
    BY <1>2, <1>4, <2>2, MakerInvParts DEF MatterOf
  <2>. QED BY <2>1, <2>2
<1>7. \A w \in Worktree : AckedIn(w)'
  BY <1>2, MakerInvParts DEF AckedIn
<1>8. WorkPresent'
  BY WorkPresentLaunch DEF MakerInv
<1>. QED BY <1>6, <1>7, <1>8, MakerInvPartsNext

LEMMA MakerInvFault ==
    ASSUME TypeOK, MakerInv, NEW p \in Proc, Abort(p) \/ MatterOsError(p)
    PROVE  MakerInv'
<1>1. UNCHANGED <<matters, acked, present>>
  BY DEF Abort, MatterOsError, gitVars, fileVars
<1>2. \A w \in Worktree : AckedIn(w)'
  BY <1>1, MakerInvParts DEF AckedIn
<1>3. CASE Abort(p)
  <2>1. Exit(p) /\ OthersUntouched(p) /\ pc'[p] = "idle"
    BY <1>3, ExitUntouched DEF Abort
  <2>2. ASSUME NEW q \in Proc PROVE MatterOf(q)'
    BY <1>1, <2>1, MakerInvParts DEF MatterOf, OthersUntouched, MatterSteps
  <2>. QED BY <1>1, <1>2, <2>1, <2>2, WorkPresentExit, MakerInvPartsNext DEF MakerInv
<1>4. CASE MatterOsError(p)
  <2>1. /\ job[p].cmd = "new" /\ pc[p] # "idle" /\ Goto(p, "rollback")
        /\ UNCHANGED <<job, textVars>>
    BY <1>4 DEF MatterOsError
  <2>2. pc'[p] = "rollback" /\ OthersUntouched(p) /\ SameJob(p)
    BY <2>1 DEF TypeOK, Goto, OthersUntouched, SameJob, textVars
  <2>3. ASSUME NEW q \in Proc PROVE MatterOf(q)'
    <3>1. MatterOf(q)
      BY MakerInvParts
    <3>2. CASE q = p
      BY <1>1, <2>1, <2>2, <3>1, <3>2
         DEF MatterOf, MatterSteps, GitSteps, NoteSteps, IndexSteps, CurrentSteps
    <3>3. CASE q # p
      BY <1>1, <2>2, <3>1, <3>3 DEF MatterOf, OthersUntouched
    <3>. QED BY <3>2, <3>3
  <2>4. "rollback" \in Steps \ GitSteps
    BY DEF Steps, MatterSteps, GitSteps
  <2>5. job[p].work \in present
    BY <2>1 DEF MakerInv, WorkPresent
  <2>6. WorkPresent'
    BY <1>1, <2>1, <2>4, <2>5, WorkPresentGoto DEF MakerInv
  <2>. QED BY <1>2, <2>3, <2>6, MakerInvPartsNext
<1>. QED BY <1>3, <1>4

LEMMA MakerInvInit == Init => MakerInv
<1>. SUFFICES ASSUME Init PROVE MakerInv
  OBVIOUS
<1>1. \A p \in Proc : MatterOf(p)
  BY DEF Init, MatterOf, MatterSteps
<1>2. \A w \in Worktree : AckedIn(w)
  BY DEF Init, AckedIn
<1>. QED BY <1>1, <1>2, WorkPresentInit, MakerInvParts

(* With one new_matter.py at a time for each matter, MakerInv is inductive.*)
LEMMA MakerInvInvariant == Spec /\ []OneMaker => []MakerInv
<1>1. ASSUME TypeOK, OneMaker, MakerInv, [Next]_vars PROVE MakerInv'
  <2>1. CASE \E p \in Proc : Launches(p)
    BY <1>1, <2>1, MakerInvLaunch
  <2>2. CASE \E p \in Proc : Step(p)
    BY <1>1, <2>2, MakerInvStep
  <2>3. CASE \E p \in Proc : Abort(p) \/ MatterOsError(p)
    BY <1>1, <2>3, MakerInvFault
  <2>4. CASE (\E w \in Worktree : Commit(w)) \/ Tick \/ UNCHANGED vars
    <3>1. UNCHANGED <<present, matters, acked, pc, job, indexText, currentText>>
      BY <2>4 DEF Commit, Tick, vars, gitVars, fileVars, textVars
    <3>2. WorkPresent'
      BY <1>1, <3>1, WorkPresentKept DEF MakerInv
    <3>3. \A p \in Proc : MatterOf(p)'
      BY <1>1, <3>1, MakerInvParts DEF MatterOf
    <3>4. \A w \in Worktree : AckedIn(w)'
      BY <1>1, <3>1, MakerInvParts DEF AckedIn
    <3>. QED BY <3>2, <3>3, <3>4, MakerInvPartsNext
  <2>. QED BY <1>1, <2>1, <2>2, <2>3, <2>4 DEF Next
<1>. QED BY <1>1, MakerInvInit, TypeCorrect, PTL DEF Spec

(* In every interleaving and with kills and I/O errors anywhere, a matter  *)
(* that new_matter.py has reported with exit status 0 is never rolled back *)
(* by another run, if no two of them run for the same matter at once.      *)
THEOREM MadeOnceStays == Spec /\ []OneMaker => []AckedMatterStays
<1>1. MakerInv => AckedMatterStays
  BY DEF MakerInv
<1>. QED BY <1>1, MakerInvInvariant, PTL

(* Users who run one script at a time in a worktree use it exclusively.    *)
LEMMA ExclusiveLaunch ==
    ASSUME Exclusive, TypeOK, ExclusiveUse, NEW p \in Proc, Launches(p)
    PROVE  ExclusiveUse'
<1>1. PICK j \in Job, first \in Steps : Launch(p, j, first) /\ Launched(j, first)
  BY LaunchesShape
<1>2. /\ pc' = [pc EXCEPT ![p] = first] /\ job' = [job EXCEPT ![p] = j]
      /\ Quiet(j.root) /\ Quiet(j.work)
  BY <1>1 DEF Launch
<1>3. job'[p] = j
  BY <1>2 DEF TypeOK
<1>4. \A q \in Proc : q # p => pc'[q] = pc[q] /\ job'[q] = job[q]
  BY <1>2 DEF TypeOK
<1>5. \A q \in Proc, w \in Worktree : q # p => (Uses(q, w)' <=> Uses(q, w))
  BY <1>4 DEF Uses
<1>6. \A w \in Worktree : Uses(p, w)' => Quiet(w)
  BY <1>2, <1>3 DEF Uses
<1>7. \A q, r \in Proc, w \in Worktree : Uses(q, w)' /\ Uses(r, w)' => q = r
  BY <1>5, <1>6 DEF ExclusiveUse, Quiet
<1>. QED BY <1>7 DEF ExclusiveUse

LEMMA ExclusiveInvariant == ASSUME Exclusive PROVE Spec => []ExclusiveUse
<1>1. Init => ExclusiveUse
  BY DEF Init, ExclusiveUse, Uses
<1>2. ASSUME TypeOK, ExclusiveUse, [Next]_vars PROVE ExclusiveUse'
  <2>1. CASE \E p \in Proc : Launches(p)
    BY <1>2, <2>1, ExclusiveLaunch
  <2>2. CASE \E p \in Proc : Step(p)
    BY <1>2, <2>2, StepJob, StepUntouched, ExclusiveStep
  <2>3. CASE \E p \in Proc : Abort(p)
    BY <1>2, <2>3, ExitUntouched, ExclusiveStep DEF Abort
  <2>4. ASSUME NEW p \in Proc, MatterOsError(p) PROVE ExclusiveUse'
    <3>1. pc[p] # "idle" /\ OthersUntouched(p) /\ SameJob(p)
      BY <1>2, <2>4 DEF MatterOsError, TypeOK, Goto, OthersUntouched, SameJob, textVars
    <3>. QED BY <1>2, <3>1, ExclusiveStep
  <2>5. CASE (\E w \in Worktree : Commit(w)) \/ Tick \/ UNCHANGED vars
    <3>1. UNCHANGED <<pc, job>>
      BY <2>5 DEF Commit, Tick, vars
    <3>. QED BY <1>2, <3>1 DEF ExclusiveUse, Uses
  <2>. QED BY <1>2, <2>1, <2>2, <2>3, <2>4, <2>5 DEF Next
<1>. QED BY <1>1, <1>2, TypeCorrect, PTL DEF Spec

LEMMA MatterInvInvariant == ASSUME Exclusive PROVE Spec => []MatterInv
<1>1. TypeOK /\ ExclusiveUse => OneMaker
  BY DEF TypeOK, Job, ExclusiveUse, OneMaker, Uses
<1>2. ExclusiveUse /\ MakerInv => MatterInv
  BY DEF MatterInv
<1>. QED BY <1>1, <1>2, TypeCorrect, ExclusiveInvariant, MakerInvInvariant, PTL

(* So it stays when users run one script at a time in a worktree.          *)
THEOREM AckedMattersStay == ASSUME Exclusive PROVE Spec => []AckedMatterStays
<1>1. MatterInv => AckedMatterStays
  BY DEF MatterInv, MakerInv
<1>. QED BY <1>1, MatterInvInvariant, PTL

-----------------------------------------------------------------------------
(* Matters that are listed. What one script does to the memory files of    *)
(* its own worktree, and that it leaves the other worktrees alone.         *)

LEMMA OnlyOwnFiles ==
    ASSUME TypeOK, NEW p \in Proc, Step(p), NEW w \in Worktree, w # job[p].work
    PROVE  index'[w] = index[w] /\ current'[w] = current[w] /\ logs'[w] = logs[w]
<1>1. CASE MakeMatter(p) \/ FillMatter(p) \/ Rollback(p)
  BY <1>1 DEF MakeMatter, FillMatter, Rollback
<1>2. CASE CheckClean(p) \/ CheckTracked(p) \/ CheckBranch(p) \/ CheckTarget(p) \/ RecordBranch(p)
  BY <1>2 DEF CheckClean, CheckTracked, CheckBranch, CheckTarget, RecordBranch, Pass, Refuse, fileVars
<1>3. CASE SwitchBranch(p) \/ AddWorktree(p)
  BY <1>3 DEF TypeOK, SwitchBranch, AddWorktree, Refuse, fileVars
<1>4. CASE OpenNote(p) \/ WriteTemplate(p) \/ ReadLog(p) \/ OpenLog(p) \/ WriteLog(p)
  BY <1>4 DEF TypeOK, OpenNote, WriteTemplate, ReadLog, OpenLog, WriteLog, SetLog, fileVars
<1>5. CASE ReadIndex(p) \/ OpenIndex(p) \/ WriteIndex(p)
  BY <1>5 DEF TypeOK, ReadIndex, OpenIndex, WriteIndex, fileVars
<1>6. CASE ReadCurrent(p) \/ OpenCurrent(p) \/ WriteCurrent(p)
  BY <1>6 DEF TypeOK, ReadCurrent, OpenCurrent, WriteCurrent, fileVars
<1>. QED BY <1>1, <1>2, <1>3, <1>4, <1>5, <1>6 DEF Step

LEMMA StepFaults ==
    ASSUME NEW p \in Proc, Step(p)
    PROVE  faults' = faults
<1>1. CASE MakeMatter(p) \/ FillMatter(p) \/ Rollback(p)
  BY <1>1 DEF MakeMatter, FillMatter, Rollback
<1>2. CASE CheckClean(p) \/ CheckTracked(p) \/ CheckBranch(p) \/ CheckTarget(p) \/ RecordBranch(p)
  BY <1>2 DEF CheckClean, CheckTracked, CheckBranch, CheckTarget, RecordBranch, Pass, Refuse
<1>3. CASE SwitchBranch(p) \/ AddWorktree(p)
  BY <1>3 DEF SwitchBranch, AddWorktree, Refuse
<1>4. CASE OpenNote(p) \/ WriteTemplate(p) \/ ReadLog(p) \/ OpenLog(p) \/ WriteLog(p)
  BY <1>4 DEF OpenNote, WriteTemplate, ReadLog, OpenLog, WriteLog
<1>5. CASE ReadIndex(p) \/ OpenIndex(p) \/ WriteIndex(p)
  BY <1>5 DEF ReadIndex, OpenIndex, WriteIndex
<1>6. CASE ReadCurrent(p) \/ OpenCurrent(p) \/ WriteCurrent(p)
  BY <1>6 DEF ReadCurrent, OpenCurrent, WriteCurrent
<1>. QED BY <1>1, <1>2, <1>3, <1>4, <1>5, <1>6 DEF Step

(* A new branch starts with the tree of the worktree the script lies in.   *)
Branched(p, v, b) ==
    /\ b \notin branches
    /\ committed' = [committed EXCEPT ![b] = committed[head[job[p].root]]]
    /\ head' = [head EXCEPT ![v] = b]

LEMMA TreesOfStep ==
    ASSUME TypeOK, NEW p \in Proc, Step(p)
    PROVE  \/ UNCHANGED <<head, committed>>
           \/ \E v \in {job[p].root, job[p].work}, b \in Branch : Branched(p, v, b)
<1>1. job[p].branch \in Branch
  BY DEF TypeOK, Job
<1>2. CASE UNCHANGED gitVars
  BY <1>2 DEF gitVars
<1>3. CASE SwitchBranch(p)
  BY <1>1, <1>3 DEF SwitchBranch, Refuse, gitVars, Branched
<1>4. CASE AddWorktree(p)
  BY <1>1, <1>4 DEF AddWorktree, Refuse, gitVars, Branched
<1>. QED BY <1>2, <1>3, <1>4, StepGitFrame

-----------------------------------------------------------------------------
(* AllInMatters, for one worktree and for one script.                      *)

FileIn(w) == IndexInMatters(index[w], matters[w]) /\ ShownInMatters(current[w], matters[w])

TextIn(p) ==
    /\ IndexInMatters(indexText[p], matters[job[p].work])
    /\ ShownInMatters(currentText[p], matters[job[p].work])

StartIn(p) ==
    pc[p] # "idle" /\ job[p].cmd = "start" =>
        LET m == job[p].matter IN
        /\ job[p].option # "worktree" => job[p].work = job[p].root
        /\ pc[p] \in {"currentBranch", "switch"} => job[p].option # "worktree"
        /\ pc[p] \in {"target", "addWorktree"} => job[p].option = "worktree"
        /\ pc[p] \in GitSteps => matters[job[p].root][m] = "ready"
        /\ pc[p] \notin GitSteps => matters[job[p].work][m] = "ready"
        /\ pc[p] \in {"branch", "target", "addWorktree"} /\ job[p].option = "worktree" =>
              committed[head[job[p].root]].matters[m] = "ready"

LEMMA InMattersParts ==
    AllInMatters <=> /\ \A w \in Worktree : FileIn(w)
                     /\ \A p \in Proc : TextIn(p) /\ StartIn(p) /\ pc[p] # "rollback"
                     /\ \A b \in Branch : WholeTree(committed[b])
                     /\ CopyingIsFilled
BY DEF AllInMatters, FilesInMatters, FileIn, TextsInMatters, TextIn, StartsInMatter, StartIn

LEMMA InMattersNext ==
    ASSUME \A w \in Worktree : FileIn(w)',
           \A p \in Proc : TextIn(p)' /\ StartIn(p)' /\ pc'[p] # "rollback",
           \A b \in Branch : WholeTree(committed'[b]),
           CopyingIsFilled'
    PROVE  AllInMatters'
BY DEF AllInMatters, FilesInMatters, FileIn, TextsInMatters, TextIn, StartsInMatter, StartIn,
       WholeTree, IndexInMatters, ShownInMatters

LEMMA NothingInMatters ==
    ASSUME NEW dirs
    PROVE  /\ IndexInMatters(EmptyIndex, dirs) /\ ShownInMatters(EmptyCurrent, dirs)
           /\ IndexInMatters(ShippedIndex, dirs) /\ ShownInMatters(ShippedCurrent, dirs)
BY NothingListed, FilesAssumption
   DEF IndexInMatters, ShownInMatters, EmptyIndex, ShippedIndex

LEMMA InMattersLater ==
    ASSUME NEW dirs, NEW later, \A m \in Matter : dirs[m] = "ready" => later[m] = "ready",
           NEW text
    PROVE  /\ IndexInMatters(text, dirs) => IndexInMatters(text, later)
           /\ ShownInMatters(text, dirs) => ShownInMatters(text, later)
BY DEF IndexInMatters, ShownInMatters, InMatter, Entry

(* The texts of a script whose own matter is ready.                        *)
LEMMA NewTextsInMatters ==
    ASSUME TypeOK, NEW p \in Proc, FileIn(job[p].work),
           job[p].cmd \in {"new", "start"} => matters[job[p].work][job[p].matter] = "ready"
    PROVE  /\ IndexInMatters(NewIndexText(p), matters[job[p].work])
           /\ ShownInMatters(NewCurrentText(p), matters[job[p].work])
<1>1. /\ job[p].cmd \in {"new", "start", "finish"} /\ job[p].matter \in Matter
      /\ job[p].id \in SessionId /\ job[p].branch \in Branch
      /\ index[job[p].work] \in IndexText
  BY DEF TypeOK, Job
<1>2. \A entry \in Added(p) : InMatter(entry, matters[job[p].work])
  BY <1>1 DEF Added, InMatter, EntryOf, Entry
<1>3. NewIndexText(p).matter \in Matter =>
          \/ NewIndexText(p).matter = index[job[p].work].matter
          \/ job[p].cmd = "new" /\ NewIndexText(p).matter = job[p].matter
  BY <1>1, FilesAssumption
     DEF NewIndexText, UpdateIndex, AddActiveSession, RemoveActiveSession, IndexText
<1>4. IndexInMatters(NewIndexText(p), matters[job[p].work])
  BY <1>2, <1>3, NewTexts DEF IndexInMatters, FileIn
<1>5. ShownInMatters(NewCurrentText(p), matters[job[p].work])
  BY <1>2, NewTexts DEF ShownInMatters, FileIn
<1>. QED BY <1>4, <1>5

(* In the worktree of a script, only it copies a matter.                   *)
LEMMA OwnCopying ==
    ASSUME TypeOK, MatterInv, CopyingIsFilled, NEW p \in Proc, pc[p] # "idle",
           NEW m \in Matter, matters[job[p].work][m] = "copying"
    PROVE  pc[p] = "fill" /\ job[p].matter = m
<1>1. job[p].work \in Worktree
  BY DEF TypeOK, Job
<1>2. PICK q \in Proc : pc[q] = "fill" /\ job[q].work = job[p].work /\ job[q].matter = m
  BY <1>1 DEF CopyingIsFilled
<1>. QED BY <1>1, <1>2 DEF MatterInv, MakerInv, ExclusiveUse, Uses

(* Two scripts that run have no worktree in common, and what one of them   *)
(* does to branches is not seen where the other one lies.                  *)
LEMMA OthersApart ==
    ASSUME TypeOK, MatterInv, NEW p \in Proc, NEW q \in Proc, q # p,
           pc[p] # "idle", pc[q] # "idle"
    PROVE  {job[q].root, job[q].work} \cap {job[p].root, job[p].work} = {}
<1>1. /\ job[p].root \in Worktree /\ job[p].work \in Worktree
      /\ job[q].root \in Worktree /\ job[q].work \in Worktree
  BY DEF TypeOK, Job
<1>. QED BY <1>1 DEF MatterInv, MakerInv, ExclusiveUse, Uses

LEMMA OthersHead ==
    ASSUME TypeOK, MatterInv, HeadInv, NEW p \in Proc, Step(p), NEW q \in Proc, q # p,
           pc[q] # "idle"
    PROVE  committed'[head'[job[q].root]] = committed[head[job[q].root]]
<1>1. {job[q].root, job[q].work} \cap {job[p].root, job[p].work} = {}
  BY StepJob, OthersApart
<1>2. /\ head[job[q].root] \in branches /\ head[job[q].root] \in Branch
      /\ job[q].root \in Worktree
  BY DEF MatterInv, MakerInv, WorkPresent, HeadInv, TypeOK, Job
<1>3. ASSUME NEW v \in {job[p].root, job[p].work}, NEW b \in Branch, Branched(p, v, b)
      PROVE  committed'[head'[job[q].root]] = committed[head[job[q].root]]
  BY <1>1, <1>2, <1>3 DEF Branched, TypeOK
<1>. QED BY <1>3, TreesOfStep

(* It is enough to look at the script that moves and at its own worktree.  *)
LEMMA InMattersLocal ==
    ASSUME TypeOK, MatterInv, HeadInv, AllInMatters, NEW p \in Proc, Step(p),
           NEW w \in Worktree, w = job[p].work,
           FileIn(w)', TextIn(p)', StartIn(p)', pc'[p] # "rollback",
           \A m \in Matter : matters'[w][m] = "copying" =>
               pc'[p] = "fill" /\ job'[p].work = w /\ job'[p].matter = m
    PROVE  AllInMatters'
<1>1. pc[p] # "idle" /\ OthersUntouched(p) /\ (Exit(p) \/ SameJob(p))
  BY StepJob, StepUntouched
<1>2. \A v \in Worktree : v # w =>
          matters'[v] = matters[v] /\ index'[v] = index[v] /\ current'[v] = current[v]
  BY OnlyOwnWork, OnlyOwnFiles
<1>3. ASSUME NEW v \in Worktree PROVE FileIn(v)'
  BY <1>2, InMattersParts DEF FileIn
<1>4. ASSUME NEW q \in Proc, q # p PROVE TextIn(q)' /\ StartIn(q)' /\ pc'[q] # "rollback"
  <2>1. /\ pc'[q] = pc[q] /\ job'[q] = job[q] /\ indexText'[q] = indexText[q]
        /\ currentText'[q] = currentText[q]
    BY <1>1, <1>4 DEF OthersUntouched
  <2>2. /\ TextIn(q) /\ StartIn(q) /\ pc[q] # "rollback"
        /\ job[q].root \in Worktree /\ job[q].work \in Worktree
    BY InMattersParts DEF TypeOK, Job
  <2>3. CASE pc[q] = "idle"
    <3>1. indexText[q] = EmptyIndex /\ currentText[q] = EmptyCurrent
      BY <2>3 DEF MatterInv, MakerInv, WorkPresent
    <3>. QED BY <2>1, <2>3, <3>1, NothingInMatters DEF TextIn, StartIn
  <2>4. CASE pc[q] # "idle"
    <3>1. {job[q].root, job[q].work} \cap {job[p].root, job[p].work} = {}
      BY <1>1, <1>4, <2>4, OthersApart
    <3>2. matters'[job[q].root] = matters[job[q].root] /\ matters'[job[q].work] = matters[job[q].work]
      BY <1>2, <2>2, <3>1
    <3>3. committed'[head'[job[q].root]] = committed[head[job[q].root]]
      BY <1>1, <1>4, <2>4, OthersHead
    <3>. QED BY <2>1, <2>2, <3>2, <3>3 DEF TextIn, StartIn
  <2>. QED BY <2>3, <2>4
<1>5. ASSUME NEW b \in Branch PROVE WholeTree(committed'[b])
  <2>1. WholeTree(committed[b]) /\ WholeTree(committed[head[job[p].root]])
    BY InMattersParts DEF TypeOK, Job
  <2>2. committed'[b] \in {committed[b], committed[head[job[p].root]]}
    BY TreesOfStep DEF Branched, TypeOK
  <2>. QED BY <2>1, <2>2
<1>6. ASSUME NEW v \in Worktree, NEW m \in Matter, matters'[v][m] = "copying"
      PROVE  \E q \in Proc : (pc[q] = "fill" /\ job[q].work = v /\ job[q].matter = m)'
  <2>1. CASE v = w
    BY <1>6, <2>1
  <2>2. CASE v # w
    <3>1. PICK q \in Proc : pc[q] = "fill" /\ job[q].work = v /\ job[q].matter = m
      BY <1>2, <1>6, <2>2 DEF AllInMatters, CopyingIsFilled
    <3>. QED BY <1>1, <2>2, <3>1 DEF OthersUntouched
  <2>. QED BY <2>1, <2>2
<1>. QED BY <1>3, <1>4, <1>5, <1>6, InMattersNext DEF CopyingIsFilled

(* A step that exits or goes on within its own files, no matter touched.   *)
LEMMA SameMatters ==
    ASSUME TypeOK, MatterInv, HeadInv, AllInMatters, NEW p \in Proc, Step(p),
           UNCHANGED matters, pc[p] # "fill", pc'[p] # "rollback",
           IndexInMatters(index'[job[p].work], matters[job[p].work]),
           ShownInMatters(current'[job[p].work], matters[job[p].work]),
           Exit(p) \/ (TextIn(p)' /\ StartIn(p)')
    PROVE  AllInMatters'
<1>. PICK w \in Worktree : w = job[p].work
  BY DEF TypeOK, Job
<1>1. pc[p] # "idle"
  BY StepJob
<1>2. \A m \in Matter : matters'[w][m] # "copying"
  BY <1>1, OwnCopying DEF AllInMatters
<1>3. FileIn(w)'
  BY DEF FileIn
<1>4. CASE Exit(p)
  <2>1. TextIn(p)' /\ StartIn(p)'
    BY <1>4, ExitUntouched, NothingInMatters DEF TextIn, StartIn
  <2>. QED BY <1>2, <1>3, <2>1, InMattersLocal
<1>5. CASE TextIn(p)' /\ StartIn(p)'
  BY <1>2, <1>3, <1>5, InMattersLocal
<1>. QED BY <1>4, <1>5

(* The state of the matter a script is about to list. *)
LEMMA OwnMatterReady ==
    ASSUME TypeOK, MatterInv, AllInMatters, NEW p \in Proc,
           pc[p] \in IndexSteps \cup CurrentSteps, job[p].cmd \in {"new", "start"}
    PROVE  matters[job[p].work][job[p].matter] = "ready"
<1>1. pc[p] # "idle" /\ pc[p] \notin GitSteps
  BY DEF IndexSteps, CurrentSteps, GitSteps
<1>2. CASE job[p].cmd = "new"
  BY <1>1, <1>2 DEF MatterInv, MakerInv, OwnMatter
<1>3. CASE job[p].cmd = "start"
  BY <1>1, <1>3, InMattersParts DEF StartIn
<1>. QED BY <1>2, <1>3

LEMMA InMattersFileStep ==
    ASSUME TypeOK, MatterInv, HeadInv, AllInMatters, NEW p \in Proc, Step(p),
           \/ ReadIndex(p) \/ OpenIndex(p) \/ WriteIndex(p)
           \/ ReadCurrent(p) \/ OpenCurrent(p) \/ WriteCurrent(p)
    PROVE  AllInMatters'
<1>. PICK w \in Worktree : w = job[p].work
  BY DEF TypeOK, Job
<1>1. /\ pc[p] \in IndexSteps \cup CurrentSteps /\ UNCHANGED matters
      /\ pc[p] # "fill" /\ pc[p] # "idle" /\ pc[p] \notin GitSteps
  BY DEF ReadIndex, OpenIndex, WriteIndex, ReadCurrent, OpenCurrent, WriteCurrent, fileVars,
         IndexSteps, CurrentSteps, GitSteps
<1>2. FileIn(w) /\ TextIn(p) /\ StartIn(p)
  BY InMattersParts
<1>3. /\ IndexInMatters(NewIndexText(p), matters[w]) /\ ShownInMatters(NewCurrentText(p), matters[w])
  BY <1>1, <1>2, OwnMatterReady, NewTextsInMatters
<1>4. /\ IndexInMatters(EmptyIndex, matters[w]) /\ ShownInMatters(EmptyCurrent, matters[w])
  BY NothingInMatters
<1>5. /\ indexText'[p] \in {indexText[p], NewIndexText(p), EmptyIndex}
      /\ currentText'[p] \in {currentText[p], NewCurrentText(p), EmptyCurrent}
      /\ index'[w] \in {index[w], indexText[p], EmptyIndex}
      /\ current'[w] \in {current[w], currentText[p], EmptyCurrent}
  BY DEF TypeOK, ReadIndex, OpenIndex, WriteIndex, ReadCurrent, OpenCurrent, WriteCurrent, Exit,
         fileVars, textVars
<1>6. Exit(p) \/ (UNCHANGED job /\ pc'[p] \in IndexSteps \cup CurrentSteps)
  BY DEF TypeOK, ReadIndex, OpenIndex, WriteIndex, ReadCurrent, OpenCurrent, WriteCurrent, Goto,
         IndexSteps, CurrentSteps
<1>7. CASE Exit(p)
  BY <1>1, <1>2, <1>4, <1>5, <1>7, ExitUntouched, SameMatters DEF FileIn, TextIn
<1>8. CASE ~ Exit(p)
  <2>1. UNCHANGED job /\ pc'[p] \notin GitSteps \cup {"idle", "rollback"}
    BY <1>6, <1>8 DEF IndexSteps, CurrentSteps, GitSteps
  <2>2. TextIn(p)'
    BY <1>1, <1>2, <1>3, <1>4, <1>5, <2>1 DEF TextIn
  <2>3. StartIn(p)'
    BY <1>1, <1>2, <2>1 DEF StartIn, GitSteps
  <2>. QED BY <1>1, <1>2, <1>4, <1>5, <2>1, <2>2, <2>3, SameMatters DEF FileIn, TextIn
<1>. QED BY <1>7, <1>8

LEMMA InMattersNoteStep ==
    ASSUME TypeOK, MatterInv, HeadInv, AllInMatters, NEW p \in Proc, Step(p),
           OpenNote(p) \/ WriteTemplate(p) \/ ReadLog(p) \/ OpenLog(p) \/ WriteLog(p)
    PROVE  AllInMatters'
<1>1. /\ pc[p] \in NoteSteps /\ UNCHANGED <<index, current, matters, indexText, currentText>>
      /\ pc'[p] \in NoteSteps \cup {"indexRead"}
  BY DEF TypeOK, OpenNote, WriteTemplate, ReadLog, OpenLog, WriteLog, Goto, NoteSteps, fileVars, textVars
<1>2. pc[p] \notin GitSteps \cup {"idle", "fill"} /\ pc'[p] \notin GitSteps \cup {"idle", "rollback"}
  BY <1>1 DEF NoteSteps, GitSteps
<1>3. FileIn(job[p].work) /\ TextIn(p) /\ StartIn(p)
  BY InMattersParts DEF TypeOK, Job
<1>4. SameJob(p)
  <2>1. CASE ReadLog(p)
    <3>. DEFINE ids == HeaderIds(logs[job[p].work][job[p].id], job[p].id)
    <3>1. job[p] \in Job /\ (job'[p] = job[p] \/ job'[p] = [job[p] EXCEPT !.ids = ids])
      BY <2>1 DEF TypeOK, ReadLog, WithIds
    <3>. HIDE DEF ids
    <3>. QED BY <3>1 DEF Job, SameJob
  <2>2. CASE UNCHANGED job
    BY <2>2 DEF SameJob
  <2>. QED BY <2>1, <2>2 DEF OpenNote, WriteTemplate, OpenLog, WriteLog
<1>5. TextIn(p)'
  BY <1>1, <1>3, <1>4 DEF TextIn, SameJob
<1>6. StartIn(p)'
  BY <1>1, <1>2, <1>3, <1>4 DEF StartIn, SameJob, GitSteps
<1>. QED BY <1>1, <1>2, <1>3, <1>5, <1>6, SameMatters DEF FileIn

(* A Git step that leaves the matter directories and the texts alone.      *)
LEMMA InMattersOnward ==
    ASSUME TypeOK, MatterInv, HeadInv, AllInMatters, NEW p \in Proc, Step(p),
           pc[p] \in GitSteps, pc'[p] \in GitSteps \cup {"noteOpen"},
           UNCHANGED <<fileVars, textVars>>, SameJob(p), StartIn(p)'
    PROVE  AllInMatters'
<1>1. pc[p] # "fill" /\ pc'[p] # "rollback"
  BY DEF GitSteps
<1>2. FileIn(job[p].work) /\ TextIn(p)
  BY InMattersParts DEF TypeOK, Job
<1>3. TextIn(p)'
  BY <1>2 DEF TextIn, SameJob, fileVars, textVars
<1>. QED BY <1>1, <1>2, <1>3, SameMatters DEF FileIn, fileVars

LEMMA InMattersRefuse ==
    ASSUME TypeOK, MatterInv, HeadInv, AllInMatters, NEW p \in Proc, Step(p),
           pc[p] # "fill", Refuse(p)
    PROVE  AllInMatters'
<1>1. Exit(p) /\ UNCHANGED <<matters, index, current>> /\ pc'[p] # "rollback"
  BY ExitUntouched DEF Refuse, fileVars
<1>2. FileIn(job[p].work)
  BY InMattersParts DEF TypeOK, Job
<1>. QED BY <1>1, <1>2, SameMatters DEF FileIn

(* The checks of start_session.py, up to the Git command that acts.        *)
LEMMA InMattersCheck ==
    ASSUME TypeOK, MatterInv, HeadInv, AllInMatters, NEW p \in Proc, Step(p),
           CheckClean(p) \/ CheckTracked(p) \/ CheckBranch(p) \/ CheckTarget(p), ~ Refuse(p)
    PROVE  AllInMatters'
<1>1. PICK step \in {"tracked", "branch", "target", "switch", "addWorktree"} : Pass(p, step)
  BY DEF CheckClean, CheckTracked, CheckBranch, CheckTarget
<1>2. /\ pc[p] \in GitSteps /\ pc[p] # "idle" /\ step \in GitSteps /\ pc'[p] = step
      /\ UNCHANGED <<job, fileVars, gitVars, textVars>>
  <2>1. pc[p] \in GitSteps
    BY DEF CheckClean, CheckTracked, CheckBranch, CheckTarget, GitSteps
  <2>. QED BY <1>1, <2>1 DEF TypeOK, Pass, Goto, GitSteps
<1>3. StartIn(p) /\ job[p].matter \in Matter /\ head[job[p].root] \in Branch
  BY InMattersParts DEF TypeOK, Job
<1>4. step = "branch" /\ job[p].option = "worktree" =>
          committed[head[job[p].root]].matters[job[p].matter] = "ready"
  <2>1. SUFFICES ASSUME step = "branch", job[p].option = "worktree"
                 PROVE  committed[head[job[p].root]].matters[job[p].matter] = "ready"
    OBVIOUS
  <2>2. "branch" # "tracked" /\ "branch" # "target" /\ "branch" # "switch" /\ "branch" # "addWorktree"
    OBVIOUS
  <2>3. CheckTracked(p)
    <3>1. pc'[p] = "branch"
      BY <1>2, <2>1
    <3>2. ASSUME NEW next, Pass(p, next) PROVE next = "branch"
      BY <3>1, <3>2 DEF TypeOK, Pass, Goto
    <3>. QED BY <2>1, <2>2, <3>2 DEF CheckClean, CheckBranch, CheckTarget
  <2>4. committed[head[job[p].root]].matters[job[p].matter] # "absent"
    BY <2>3 DEF CheckTracked
  <2>5. committed[head[job[p].root]].matters[job[p].matter] # "copying"
    BY <1>3, InMattersParts DEF WholeTree
  <2>6. committed[head[job[p].root]].matters[job[p].matter] \in MatterState
    BY <1>3 DEF TypeOK, TreeType
  <2>. QED BY <2>4, <2>5, <2>6 DEF MatterState
<1>5. /\ step = "target" => job[p].option = "worktree" /\ pc[p] = "branch"
      /\ step = "switch" => job[p].option # "worktree"
      /\ step = "addWorktree" => pc[p] = "target"
  <2>1. ASSUME NEW next, Pass(p, next) PROVE next = step
    BY <1>2, <2>1 DEF TypeOK, Pass, Goto
  <2>. QED BY <2>1 DEF CheckClean, CheckTracked, CheckBranch, CheckTarget
<1>6. StartIn(p)'
  BY <1>2, <1>3, <1>4, <1>5 DEF StartIn, GitSteps, gitVars, fileVars
<1>7. SameJob(p)
  BY <1>2 DEF SameJob
<1>. QED BY <1>2, <1>6, <1>7, InMattersOnward

(* The Git step that acts, or the branch that is checked out anyway.       *)
LEMMA InMattersBranch ==
    ASSUME TypeOK, MatterInv, HeadInv, AllInMatters, NEW p \in Proc, Step(p),
           RecordBranch(p) \/ (SwitchBranch(p) /\ ~ Refuse(p))
    PROVE  AllInMatters'
<1>1. /\ pc[p] \in {"currentBranch", "switch"} /\ Goto(p, "noteOpen")
      /\ UNCHANGED <<fileVars, textVars>>
  BY DEF RecordBranch, SwitchBranch
<1>2. /\ pc[p] \in GitSteps /\ pc[p] # "idle" /\ pc'[p] = "noteOpen" /\ "noteOpen" \notin GitSteps
      /\ "noteOpen" \notin {"currentBranch", "switch", "target", "addWorktree", "branch"}
  BY <1>1 DEF TypeOK, Goto, GitSteps
<1>3. SameJob(p)
  <2>1. CASE RecordBranch(p)
    <3>1. /\ job[p] \in Job /\ head[job[p].root] \in Branch
          /\ job'[p] = WithBranch(job[p], head[job[p].root])
      BY <2>1 DEF TypeOK, RecordBranch, Job
    <3>. QED BY <3>1, JobFields DEF SameJob
  <2>2. CASE SwitchBranch(p) /\ ~ Refuse(p)
    BY <2>2 DEF SwitchBranch, SameJob
  <2>. QED BY <2>1, <2>2
<1>4. StartIn(p) /\ matters' = matters
  BY <1>1, InMattersParts DEF fileVars
<1>5. StartIn(p)'
  BY <1>1, <1>2, <1>3, <1>4 DEF StartIn, SameJob
<1>. QED BY <1>1, <1>2, <1>3, <1>5, InMattersOnward

(* git worktree add: the new worktree is a committed tree.                 *)
LEMMA InMattersWorktree ==
    ASSUME TypeOK, MatterInv, HeadInv, AllInMatters, NEW p \in Proc, Step(p),
           AddWorktree(p), ~ Refuse(p)
    PROVE  AllInMatters'
<1>. PICK w \in Worktree, v \in Worktree : w = job[p].work /\ v = job[p].root
  BY DEF TypeOK, Job
<1>. DEFINE tree == committed[head[v]]
<1>1. /\ pc[p] = "addWorktree" /\ w \notin present
      /\ index' = [index EXCEPT ![w] = tree.index]
      /\ current' = [current EXCEPT ![w] = tree.current]
      /\ matters' = [matters EXCEPT ![w] = tree.matters]
      /\ Goto(p, "noteOpen") /\ UNCHANGED <<job, textVars>>
  BY DEF AddWorktree
<1>2. /\ index'[w] = tree.index /\ current'[w] = tree.current /\ matters'[w] = tree.matters
      /\ pc'[p] = "noteOpen" /\ UNCHANGED <<job, indexText, currentText>>
  BY <1>1 DEF TypeOK, Goto, textVars
<1>3. WholeTree(tree)
  BY InMattersParts DEF TypeOK
<1>4. FileIn(w)'
  BY <1>2, <1>3 DEF FileIn, WholeTree
<1>5. pc[p] # "idle" /\ pc[p] \in GitSteps /\ pc[p] \in {"branch", "target", "addWorktree"}
      /\ pc[p] \in {"target", "addWorktree"}
  BY <1>1 DEF GitSteps
<1>6. indexText[p] = EmptyIndex /\ currentText[p] = EmptyCurrent
  BY <1>5 DEF MatterInv, MakerInv, WorkPresent
<1>7. TextIn(p)'
  BY <1>2, <1>6, NothingInMatters DEF TextIn
<1>8. job[p].cmd = "start" => tree.matters[job[p].matter] = "ready"
  BY <1>5, InMattersParts DEF StartIn
<1>9. StartIn(p)'
  <2>1. "noteOpen" \notin GitSteps
        /\ "noteOpen" \notin {"currentBranch", "switch", "target", "addWorktree", "branch"}
    BY DEF GitSteps
  <2>2. job[p].cmd = "start" => job[p].option = "worktree"
    BY <1>5, InMattersParts DEF StartIn
  <2>. QED BY <1>2, <1>8, <2>1, <2>2 DEF StartIn
<1>. HIDE DEF tree
<1>. QED BY <1>2, <1>3, <1>4, <1>7, <1>9, InMattersLocal DEF WholeTree

LEMMA InMattersMake ==
    ASSUME TypeOK, MatterInv, HeadInv, AllInMatters, NEW p \in Proc, Step(p), MakeMatter(p)
    PROVE  AllInMatters'
<1>. PICK w \in Worktree, m \in Matter : w = job[p].work /\ m = job[p].matter
  BY DEF TypeOK, Job
<1>1. job[p].cmd = "new" /\ pc[p] = "mkdir" /\ matters[w][m] = "absent"
  <2>1. pc[p] = "mkdir" /\ pc[p] \in MatterSteps /\ pc[p] # "idle"
    BY DEF MakeMatter, MatterSteps
  <2>. QED BY <2>1 DEF MatterInv, MakerInv, OwnMatter
<1>2. /\ matters' = [matters EXCEPT ![w][m] = "copying"] /\ Goto(p, "fill")
      /\ UNCHANGED <<index, current, job, textVars>>
  BY <1>1 DEF MakeMatter, SetMatter
<1>3. /\ matters'[w][m] = "copying" /\ \A n \in Matter : n # m => matters'[w][n] = matters[w][n]
      /\ pc'[p] = "fill" /\ UNCHANGED <<index, current, job, indexText, currentText>>
  BY <1>2 DEF TypeOK, Goto, textVars
<1>4. \A n \in Matter : matters[w][n] = "ready" => matters'[w][n] = "ready"
  BY <1>1, <1>3
<1>5. FileIn(w) /\ TextIn(p)
  BY InMattersParts
<1>6. FileIn(w)'
  BY <1>3, <1>4, <1>5, InMattersLater DEF FileIn
<1>7. TextIn(p)'
  BY <1>3, <1>4, <1>5, InMattersLater DEF TextIn
<1>8. StartIn(p)'
  BY <1>1, <1>2 DEF StartIn
<1>9. \A n \in Matter : matters'[w][n] = "copying" => n = m
  <2>1. \A n \in Matter : matters[w][n] # "copying"
    BY <1>1, OwnCopying DEF AllInMatters
  <2>. QED BY <1>3, <2>1
<1>. QED BY <1>2, <1>3, <1>6, <1>7, <1>8, <1>9, InMattersLocal

LEMMA InMattersFill ==
    ASSUME TypeOK, MatterInv, HeadInv, AllInMatters, NEW p \in Proc, Step(p), FillMatter(p)
    PROVE  AllInMatters'
<1>. PICK w \in Worktree, m \in Matter : w = job[p].work /\ m = job[p].matter
  BY DEF TypeOK, Job
<1>1. job[p].cmd = "new" /\ pc[p] = "fill" /\ matters[w][m] = "copying"
  <2>1. pc[p] = "fill" /\ pc[p] \in MatterSteps /\ pc[p] # "idle"
    BY DEF FillMatter, MatterSteps
  <2>. QED BY <2>1 DEF MatterInv, MakerInv, OwnMatter
<1>2. /\ matters' = [matters EXCEPT ![w][m] = "ready"]
      /\ Exit(p) \/ (Goto(p, "indexRead") /\ UNCHANGED <<job, textVars>>)
      /\ UNCHANGED <<index, current>>
  BY <1>1 DEF FillMatter, SetMatter
<1>3. matters'[w][m] = "ready" /\ \A n \in Matter : n # m => matters'[w][n] = matters[w][n]
  BY <1>2 DEF TypeOK
<1>4. \A n \in Matter : matters[w][n] = "ready" => matters'[w][n] = "ready"
  BY <1>3
<1>5. FileIn(w) /\ TextIn(p)
  BY InMattersParts
<1>6. FileIn(w)'
  BY <1>2, <1>4, <1>5, InMattersLater DEF FileIn
<1>7. \A n \in Matter : matters'[w][n] # "copying"
  <2>1. \A n \in Matter : matters[w][n] = "copying" => n = m
    BY <1>1, OwnCopying DEF AllInMatters
  <2>. QED BY <1>3, <2>1
<1>8. CASE Exit(p)
  <2>1. TextIn(p)' /\ StartIn(p)' /\ pc'[p] # "rollback"
    BY <1>8, ExitUntouched, NothingInMatters DEF TextIn, StartIn
  <2>. QED BY <1>6, <1>7, <2>1, InMattersLocal
<1>9. CASE Goto(p, "indexRead") /\ UNCHANGED <<job, textVars>>
  <2>1. pc'[p] = "indexRead" /\ UNCHANGED <<job, indexText, currentText>>
    BY <1>9 DEF TypeOK, Goto, textVars
  <2>2. TextIn(p)'
    BY <1>4, <1>5, <2>1, InMattersLater DEF TextIn
  <2>3. StartIn(p)'
    BY <1>1, <2>1 DEF StartIn
  <2>. QED BY <1>6, <1>7, <2>1, <2>2, <2>3, InMattersLocal
<1>. QED BY <1>2, <1>8, <1>9

LEMMA InMattersStep ==
    ASSUME TypeOK, MatterInv, HeadInv, AllInMatters, NEW p \in Proc, Step(p)
    PROVE  AllInMatters'
<1>1. ~ Rollback(p)
  BY DEF AllInMatters, Rollback
<1>2. CASE Refuse(p)
  <2>1. CASE pc[p] # "fill"
    BY <1>2, <2>1, InMattersRefuse
  <2>2. CASE FillMatter(p)
    BY <2>2, InMattersFill
  <2>3. FillMatter(p) \/ pc[p] # "fill"
    BY DEF Step, MakeMatter, Rollback, CheckClean, CheckTracked, CheckBranch, CheckTarget,
           SwitchBranch, AddWorktree, RecordBranch, OpenNote, WriteTemplate, ReadLog, OpenLog,
           WriteLog, ReadIndex, OpenIndex, WriteIndex, ReadCurrent, OpenCurrent, WriteCurrent
  <2>. QED BY <2>1, <2>2, <2>3
<1>. QED BY <1>1, <1>2, InMattersMake, InMattersFill, InMattersCheck, InMattersBranch,
            InMattersWorktree, InMattersNoteStep, InMattersFileStep DEF Step

LEMMA InMattersLaunch ==
    ASSUME Exclusive, TypeOK, MatterInv, AllInMatters, NEW p \in Proc, Launches(p)
    PROVE  AllInMatters'
<1>1. PICK j \in Job, first \in Steps : Launch(p, j, first) /\ Launched(j, first)
  BY LaunchesShape
<1>2. /\ pc[p] = "idle" /\ pc' = [pc EXCEPT ![p] = first] /\ job' = [job EXCEPT ![p] = j]
      /\ Quiet(j.root) /\ UNCHANGED <<gitVars, fileVars, textVars>>
  BY <1>1 DEF Launch
<1>3. /\ UNCHANGED <<index, current, matters, committed, head, indexText, currentText>>
      /\ pc'[p] = first /\ job'[p] = j /\ j.root \in Worktree /\ j.matter \in Matter
      /\ \A q \in Proc : q # p => pc'[q] = pc[q] /\ job'[q] = job[q]
  BY <1>1, <1>2 DEF TypeOK, Job, gitVars, fileVars, textVars
<1>4. \A w \in Worktree : FileIn(w)'
  BY <1>3, InMattersParts DEF FileIn
<1>5. ASSUME NEW q \in Proc PROVE TextIn(q)' /\ StartIn(q)' /\ pc'[q] # "rollback"
  <2>1. CASE q # p
    <3>1. TextIn(q) /\ StartIn(q) /\ pc[q] # "rollback"
      BY InMattersParts
    <3>. QED BY <1>3, <2>1, <3>1 DEF TextIn, StartIn
  <2>2. CASE q = p
    <3>1. indexText[p] = EmptyIndex /\ currentText[p] = EmptyCurrent
      BY <1>2 DEF MatterInv, MakerInv, WorkPresent
    <3>2. TextIn(q)'
      BY <1>3, <2>2, <3>1, NothingInMatters DEF TextIn
    <3>3. first # "rollback"
      BY <1>1 DEF Launched
    <3>4. StartIn(q)'
      <4>1. SUFFICES ASSUME j.cmd = "start" PROVE StartIn(q)'
        BY <1>3, <2>2 DEF StartIn
      <4>2. /\ first \in {"clean", "currentBranch"} /\ matters[j.root][j.matter] # "absent"
            /\ j.option # "worktree" => j.work = j.root
            /\ first = "currentBranch" => j.option # "worktree"
        BY <1>1, <4>1 DEF Launched
      <4>3. matters[j.root][j.matter] # "copying"
        BY <1>2, <1>3 DEF AllInMatters, CopyingIsFilled, Quiet, Uses
      <4>4. matters[j.root][j.matter] = "ready"
        BY <1>3, <4>2, <4>3 DEF TypeOK, MatterState
      <4>. QED BY <1>3, <2>2, <4>2, <4>4 DEF StartIn, GitSteps
    <3>. QED BY <1>3, <2>2, <3>2, <3>3, <3>4
  <2>. QED BY <2>1, <2>2
<1>6. \A b \in Branch : WholeTree(committed'[b])
  BY <1>3, InMattersParts
<1>7. CopyingIsFilled'
  BY <1>2, <1>3 DEF AllInMatters, CopyingIsFilled
<1>. QED BY <1>4, <1>5, <1>6, <1>7, InMattersNext

(* A commit finds no matter half copied: no script uses the worktree.      *)
LEMMA InMattersCommit ==
    ASSUME Exclusive, TypeOK, MatterInv, HeadInv, AllInMatters, NEW w \in Worktree, Commit(w)
    PROVE  AllInMatters'
<1>1. /\ w \in present /\ Quiet(w) /\ head[w] \in Branch
      /\ committed' = [committed EXCEPT ![head[w]] = Tree(w)]
      /\ UNCHANGED <<head, index, current, matters, pc, job, indexText, currentText>>
  BY DEF Commit, TypeOK, gitVars, fileVars, textVars
<1>2. \A v \in Worktree : FileIn(v)'
  BY <1>1, InMattersParts DEF FileIn
<1>3. WholeTree(Tree(w))
  <2>1. FileIn(w)
    BY InMattersParts
  <2>2. \A m \in Matter : matters[w][m] # "copying"
    BY <1>1 DEF AllInMatters, CopyingIsFilled, Quiet, Uses
  <2>. QED BY <2>1, <2>2 DEF FileIn, WholeTree, Tree
<1>4. ASSUME NEW b \in Branch PROVE WholeTree(committed'[b])
  BY <1>1, <1>3, InMattersParts DEF TypeOK
<1>5. ASSUME NEW p \in Proc PROVE TextIn(p)' /\ StartIn(p)' /\ pc'[p] # "rollback"
  <2>1. TextIn(p) /\ StartIn(p) /\ pc[p] # "rollback"
    BY InMattersParts
  <2>2. TextIn(p)'
    BY <1>1, <2>1 DEF TextIn
  <2>3. pc[p] # "idle" => committed'[head[job[p].root]] = committed[head[job[p].root]]
    <3>1. job[p].root \in present /\ job[p].root \in Worktree
      BY DEF MatterInv, MakerInv, WorkPresent, TypeOK, Job
    <3>2. pc[p] # "idle" => job[p].root # w
      BY <1>1 DEF Quiet, Uses
    <3>3. pc[p] # "idle" => head[job[p].root] # head[w]
      BY <1>1, <3>1, <3>2 DEF HeadInv, HeadsDiffer
    <3>. QED BY <1>1, <3>1, <3>3 DEF TypeOK
  <2>4. StartIn(p)'
    BY <1>1, <2>1, <2>3 DEF StartIn
  <2>. QED BY <1>1, <2>1, <2>2, <2>4
<1>6. CopyingIsFilled'
  BY <1>1 DEF AllInMatters, CopyingIsFilled
<1>. QED BY <1>2, <1>4, <1>5, <1>6, InMattersNext

LEMMA InMattersInit == Init => AllInMatters
<1>. SUFFICES ASSUME Init PROVE AllInMatters
  OBVIOUS
<1>1. \A w \in Worktree : /\ index[w] = ShippedIndex /\ current[w] = ShippedCurrent
                          /\ matters[w] = ShippedTree.matters
  BY DEF Init
<1>2. \A p \in Proc : /\ pc[p] = "idle" /\ indexText[p] = EmptyIndex
                      /\ currentText[p] = EmptyCurrent
  BY DEF Init
<1>3. \A m \in Matter : ShippedTree.matters[m] = "absent"
  BY DEF ShippedTree
<1>4. \A w \in Worktree : FileIn(w)
  BY <1>1, NothingInMatters DEF FileIn
<1>5. \A p \in Proc : TextIn(p) /\ StartIn(p) /\ pc[p] # "rollback"
  BY <1>2, NothingInMatters DEF TextIn, StartIn
<1>6. WholeTree(ShippedTree)
  <2>1. ShippedTree.index = ShippedIndex /\ ShippedTree.current = ShippedCurrent
    BY DEF ShippedTree
  <2>. QED BY <1>3, <2>1, NothingInMatters DEF WholeTree
<1>7. \A b \in Branch : WholeTree(committed[b])
  BY <1>6 DEF Init
<1>8. CopyingIsFilled
  BY <1>1, <1>3 DEF CopyingIsFilled
<1>. QED BY <1>4, <1>5, <1>7, <1>8, InMattersParts

(* With one script at a time in a worktree, and as long as none of them    *)
(* was killed or met an I/O error, active_matter and every listed session  *)
(* point at a matter that is there.                                        *)
THEOREM MattersAlwaysExist == ASSUME Exclusive PROVE Spec => []MattersExist
<1>1. ASSUME TypeOK, MatterInv, HeadInv, ExistInv, [Next]_vars PROVE ExistInv'
  <2>. SUFFICES ASSUME faults' = 0 PROVE AllInMatters'
    BY DEF ExistInv
  <2>1. CASE \E p \in Proc : Launches(p)
    <3>1. PICK p \in Proc : Launches(p)
      BY <2>1
    <3>2. faults = 0
      BY <1>1, <3>1, LaunchesShape DEF Launch
    <3>. QED BY <1>1, <3>1, <3>2, InMattersLaunch DEF ExistInv
  <2>2. CASE \E p \in Proc : Step(p)
    BY <1>1, <2>2, StepFaults, InMattersStep DEF ExistInv
  <2>3. CASE \E p \in Proc : Abort(p) \/ MatterOsError(p)
    BY <1>1, <2>3 DEF Abort, MatterOsError, TypeOK
  <2>4. CASE \E w \in Worktree : Commit(w)
    <3>1. faults = 0
      BY <2>4 DEF Commit
    <3>. QED BY <1>1, <2>4, <3>1, InMattersCommit DEF ExistInv
  <2>5. CASE Tick \/ UNCHANGED vars
    <3>1. UNCHANGED <<faults, gitVars, fileVars, pc, job, textVars>>
      BY <2>5 DEF Tick, vars
    <3>2. AllInMatters
      BY <1>1, <3>1 DEF ExistInv
    <3>. QED BY <3>1, <3>2
         DEF AllInMatters, FilesInMatters, TextsInMatters, CopyingIsFilled, StartsInMatter,
             gitVars, fileVars, textVars
  <2>. QED BY <1>1, <2>1, <2>2, <2>3, <2>4, <2>5 DEF Next
<1>2. Init => ExistInv
  BY InMattersInit DEF ExistInv
<1>3. ExistInv => MattersExist
  BY DEF ExistInv, AllInMatters, FilesInMatters, IndexInMatters, ShownInMatters, InMatter,
         MattersExist, Listed, Sessions
<1>. QED BY <1>1, <1>2, <1>3, TypeCorrect, MatterInvInvariant, HeadInvInvariant, PTL DEF Spec

-----------------------------------------------------------------------------
(* Sessions that are open. What each kind of file step does to Settled.    *)

LEMMA SettledOtherNotes ==
    ASSUME NEW entries, NEW text, NEW notes, NEW later, NEW own, NEW late,
           \A entry \in entries : entry.id \in SessionId,
           \A id \in SessionId : /\ id \notin own => later[id] = notes[id]
                                 /\ notes[id] # "absent" => later[id] # "absent",
           Settled(entries, text, notes, own, late)
    PROVE  Settled(entries, text, later, own, late)
<1>1. \A id \in SessionId : Covered(id, notes) => Covered(id, later)
  BY DEF Covered
<1>. QED BY <1>1 DEF Settled

LEMMA SettledStarts ==
    ASSUME NEW entries, NEW text, NEW notes, NEW own,
           Settled(entries, text, notes, {}, {})
    PROVE  Settled(entries, text, notes, own, {})
BY DEF Settled

LEMMA SettledEnds ==
    ASSUME NEW entries, NEW text, NEW notes, NEW own,
           Settled(entries, text, notes, own, {}),
           \A entry \in entries : entry.id \in own => notes[entry.id] = "open",
           \A id \in own :
              /\ notes[id] \in {"absent", "open", "ended"}
              /\ notes[id] = "open" =>
                    HasId(entries, id) /\ HasId(CurrentSessions(text), id)
    PROVE  Settled(entries, text, notes, {}, {})
BY DEF Settled

LEMMA SettledAdds ==
    ASSUME NEW entries, NEW text, NEW notes, NEW own, NEW entry, entry.id \in own,
           Settled(entries, text, notes, own, {})
    PROVE  Settled(entries \cup {entry}, text, notes, own, {entry})
<1>1. \A id : HasId(entries, id) => HasId(entries \cup {entry}, id)
  BY DEF HasId
<1>. QED BY <1>1 DEF Settled

LEMMA SettledShows ==
    ASSUME NEW entries, NEW text, NEW new, NEW notes, NEW own, NEW entry,
           Settled(entries, text, notes, own, {entry}),
           OneBranches(new), CurrentSessions(new) = CurrentSessions(text) \cup {entry}
    PROVE  Settled(entries, new, notes, own, {})
<1>1. \A id : HasId(CurrentSessions(text), id) => HasId(CurrentSessions(new), id)
  BY DEF HasId
<1>. QED BY <1>1 DEF Settled

LEMMA SettledSame ==
    ASSUME NEW entries, NEW text, NEW new, NEW notes, NEW own, NEW late,
           Settled(entries, text, notes, own, late),
           OneBranches(new), CurrentSessions(new) = CurrentSessions(text)
    PROVE  Settled(entries, new, notes, own, late)
BY DEF Settled

(* The index loses a session whose id has that of the closed session as a  *)
(* prefix, too: it is covered.                                             *)
LEMMA SettledRemoves ==
    ASSUME NEW entries, NEW text, NEW notes, NEW id \in SessionId, notes[id] # "absent",
           Settled(entries, text, notes, {id}, {})
    PROVE  Settled(Without(entries, {id}), text, notes, {id}, {})
<1>1. Without(entries, {id}) \subseteq entries
  BY DEF Without
<1>2. ASSUME NEW other \in SessionId, other # id, HasId(entries, other),
             ~ HasId(Without(entries, {id}), other)
      PROVE  Covered(other, notes)
  <2>1. PICK entry \in entries : entry.id = other
    BY <1>2 DEF HasId
  <2>2. Mentions(entry, {id})
    BY <1>2, <2>1 DEF HasId, Without
  <2>3. Mentions([id |-> other], {id})
    BY <2>1, <2>2 DEF Mentions
  <2>. QED BY <1>2, <2>3 DEF Covered
<1>. QED BY <1>1, <1>2 DEF Settled

LEMMA SettledHides ==
    ASSUME NEW entries, NEW text, NEW new, NEW notes, NEW id,
           Settled(entries, text, notes, {id}, {}),
           \A entry \in entries : ~ Mentions(entry, {id}),
           OneBranches(new), CurrentSessions(new) = Without(CurrentSessions(text), {id})
    PROVE  Settled(entries, new, notes, {id}, {})
<1>1. entries \subseteq CurrentSessions(new)
  BY DEF Settled, Without
<1>2. \A other : HasId(entries, other) => HasId(CurrentSessions(new), other)
  BY <1>1 DEF HasId
<1>. QED BY <1>1, <1>2 DEF Settled

-----------------------------------------------------------------------------
(* AllSettled, for one script and for one worktree.                        *)

(* No script writes to the worktree, and its files agree. *)
Free(w) == \A p \in Proc : Busy(p) => job[p].work # w

AtRest(w) == Settled(index[w].active, current[w], logs[w], {}, {})

SettledOf(p) ==
    /\ Busy(p) => Settling(p)
    /\ pc[p] # "idle" =>
          /\ pc[p] \in GitSteps => job[p].cmd = "start"
          /\ job[p].option = "noCurrentUpdate" => job[p].cmd = "finish"

LEMMA SettledParts ==
    AllSettled <=> /\ \A p \in Proc : SettledOf(p)
                   /\ \A w \in present : Free(w) => AtRest(w)
                   /\ \A b \in Branch : SettledTree(committed[b])
BY DEF AllSettled, SettledOf, Free, AtRest, SettledTree, Tree

LEMMA SettledNext ==
    ASSUME \A p \in Proc : SettledOf(p)',
           \A w \in present' : Free(w)' => AtRest(w)',
           \A b \in Branch : SettledTree(committed'[b])
    PROVE  AllSettled'
BY DEF AllSettled, SettledOf, Free, AtRest, SettledTree, Tree

LEMMA SettlingUntouched ==
    ASSUME NEW q \in Proc, UNCHANGED <<pc[q], job[q], indexText[q], currentText[q], logText[q]>>,
           UNCHANGED <<index[job[q].work], current[job[q].work], logs[job[q].work]>>
    PROVE  Settling(q) => Settling(q)'
<1>1. Entries(q)' = Entries(q) /\ Shown(q)' = Shown(q)
  BY DEF Entries, Shown
<1>2. EntryOf(q)' = EntryOf(q) /\ Own(q)' = Own(q)
  BY DEF EntryOf, Own
<1>3. Late(q)' = Late(q)
  BY <1>2 DEF Late
<1>4. StartSettles(q)' <=> StartSettles(q)
  BY <1>1, <1>2 DEF StartSettles
<1>5. FinishSettles(q)' <=> FinishSettles(q)
  BY <1>1 DEF FinishSettles
<1>6. logs'[job'[q].work] = logs[job[q].work]
  OBVIOUS
<1>. QED BY <1>1, <1>2, <1>3, <1>4, <1>5, <1>6 DEF Settling

(* It is enough to look at the script that moves and at its own worktree.  *)
LEMMA SettledLocal ==
    ASSUME TypeOK, MatterInv, AllSettled, NEW p \in Proc, Step(p),
           NEW w \in Worktree, w = job[p].work, SettledOf(p)',
           ~ Busy(p)' /\ w \in present' => AtRest(w)'
    PROVE  AllSettled'
<1>1. pc[p] # "idle" /\ OthersUntouched(p) /\ (Exit(p) \/ SameJob(p))
  BY StepJob, StepUntouched
<1>2. \A v \in Worktree : v # w =>
          index'[v] = index[v] /\ current'[v] = current[v] /\ logs'[v] = logs[v]
  BY OnlyOwnFiles
<1>3. ASSUME NEW q \in Proc, q # p PROVE SettledOf(q)'
  <2>1. SettledOf(q) /\ job[q].work \in Worktree
    BY SettledParts DEF TypeOK, Job
  <2>2. UNCHANGED <<pc[q], job[q], indexText[q], currentText[q], logText[q]>>
    BY <1>1, <1>3 DEF OthersUntouched
  <2>3. CASE Busy(q)
    <3>1. pc[q] # "idle"
      BY <2>3 DEF Busy
    <3>2. job[q].work # w
      BY <1>1, <1>3, <2>1, <3>1 DEF MatterInv, MakerInv, ExclusiveUse, Uses
    <3>3. Settling(q)'
      BY <1>2, <2>1, <2>2, <2>3, <3>2, SettlingUntouched DEF SettledOf
    <3>. QED BY <2>1, <2>2, <3>3 DEF SettledOf
  <2>4. CASE ~ Busy(q)
    BY <2>1, <2>2, <2>4 DEF SettledOf, Busy
  <2>. QED BY <2>3, <2>4
<1>4. ASSUME NEW v \in present', Free(v)' PROVE AtRest(v)'
  <2>1. CASE v = w
    <3>1. CASE ~ Busy(p)'
      BY <1>4, <2>1, <3>1
    <3>2. CASE Busy(p)'
      <4>1. job'[p].work # w
        BY <1>4, <2>1, <3>2 DEF Free
      <4>2. Exit(p)
        BY <1>1, <4>1 DEF SameJob
      <4>3. pc'[p] = "idle"
        BY <4>2, ExitUntouched
      <4>. QED BY <3>2, <4>3 DEF Busy
    <3>. QED BY <3>1, <3>2
  <2>2. CASE v # w
    <3>1. v \in present /\ v \in Worktree
      <4>1. SwitchBranch(p) => present' = present
        BY DEF SwitchBranch, Refuse, gitVars
      <4>2. AddWorktree(p) => present' \subseteq present \cup {w}
        BY DEF AddWorktree, Refuse, gitVars
      <4>. QED BY <1>4, <2>2, <4>1, <4>2, StepGitFrame DEF gitVars, TypeOK
    <3>2. Free(v)
      <4>1. \A q \in Proc : q # p /\ Busy(q) => job[q].work # v
        BY <1>1, <1>4 DEF Free, Busy, OthersUntouched
      <4>. QED BY <2>2, <4>1 DEF Free
    <3>3. AtRest(v)
      BY <3>1, <3>2, SettledParts
    <3>. QED BY <1>2, <2>2, <3>1, <3>3 DEF AtRest
  <2>. QED BY <2>1, <2>2
<1>5. ASSUME NEW b \in Branch PROVE SettledTree(committed'[b])
  <2>1. SettledTree(committed[b]) /\ SettledTree(committed[head[job[p].root]])
    BY SettledParts DEF TypeOK, Job
  <2>2. committed'[b] \in {committed[b], committed[head[job[p].root]]}
    BY TreesOfStep DEF Branched, TypeOK
  <2>. QED BY <2>1, <2>2
<1>. QED BY <1>3, <1>4, <1>5, SettledNext

(* A script that exits.                                                    *)
LEMMA SettledExit ==
    ASSUME TypeOK, MatterInv, AllSettled, NEW p \in Proc, Step(p), Exit(p),
           NEW w \in Worktree, w = job[p].work, w \in present' => AtRest(w)'
    PROVE  AllSettled'
<1>1. pc'[p] = "idle"
  BY ExitUntouched
<1>2. SettledOf(p)'
  BY <1>1 DEF SettledOf, Busy
<1>. QED BY <1>2, SettledLocal

(* A script that goes on with its job. *)
LEMMA SettledOnward ==
    ASSUME TypeOK, MatterInv, AllSettled, NEW p \in Proc, Step(p), SameJob(p),
           pc'[p] \notin GitSteps \cup {"idle"}, Settling(p)'
    PROVE  AllSettled'
<1>. PICK w \in Worktree : w = job[p].work
  BY DEF TypeOK, Job
<1>1. Busy(p)'
  BY DEF Busy
<1>2. pc[p] # "idle" /\ SettledOf(p)
  BY StepJob, SettledParts
<1>3. SettledOf(p)'
  BY <1>2 DEF SettledOf, SameJob
<1>. QED BY <1>1, <1>3, SettledLocal

-----------------------------------------------------------------------------
(* Git steps write to no memory file, but for a new worktree's.            *)

LEMMA GitAtRest ==
    ASSUME TypeOK, MatterInv, AllSettled, NEW p \in Proc, pc[p] \in GitSteps,
           job[p].work \in present
    PROVE  AtRest(job[p].work)
<1>1. job[p].work \in Worktree /\ pc[p] # "idle" /\ ~ Busy(p)
  BY DEF TypeOK, Job, Busy, GitSteps
<1>2. Free(job[p].work)
  BY <1>1 DEF Free, Busy, MatterInv, ExclusiveUse, Uses
<1>. QED BY <1>2, SettledParts

LEMMA SettledGitExit ==
    ASSUME TypeOK, MatterInv, AllSettled, NEW p \in Proc, Step(p), pc[p] \in GitSteps, Refuse(p)
    PROVE  AllSettled'
<1>. PICK w \in Worktree : w = job[p].work
  BY DEF TypeOK, Job
<1>1. Exit(p) /\ UNCHANGED <<present, index, current, logs>>
  BY DEF Refuse, gitVars, fileVars
<1>2. w \in present' => AtRest(w)'
  BY <1>1, GitAtRest DEF AtRest
<1>. QED BY <1>1, <1>2, SettledExit

LEMMA SettledGitPass ==
    ASSUME TypeOK, MatterInv, AllSettled, NEW p \in Proc, Step(p), pc[p] \in GitSteps,
           NEW next \in GitSteps, Pass(p, next)
    PROVE  AllSettled'
<1>. PICK w \in Worktree : w = job[p].work
  BY DEF TypeOK, Job
<1>1. pc'[p] = next /\ UNCHANGED <<job, present, index, current, logs>>
  BY DEF TypeOK, Pass, Goto, gitVars, fileVars
<1>2. w \in present' => AtRest(w)'
  BY <1>1, GitAtRest DEF AtRest
<1>3. pc[p] # "idle" /\ SettledOf(p)
  BY SettledParts DEF GitSteps
<1>4. SettledOf(p)'
  BY <1>1, <1>3 DEF SettledOf, Busy
<1>. QED BY <1>2, <1>4, SettledLocal

(* The session note is next: the worktree is at rest.                      *)
LEMMA SettlingNoteOpen ==
    ASSUME NEW p \in Proc, pc'[p] = "noteOpen", job'[p].cmd = "start",
           AtRest(job[p].work)', job'[p].work = job[p].work
    PROVE  Settling(p)'
<1>1. /\ Entries(p)' = index'[job[p].work].active /\ Shown(p)' = current'[job[p].work]
      /\ Own(p)' = {job'[p].id}
  BY DEF Entries, Shown, Own
<1>2. Late(p)' = {}
  BY DEF Late, IndexDone, CurrentSteps
<1>3. StartSettles(p)'
  BY DEF StartSettles, IndexDone, IndexSteps, CurrentSteps
<1>4. Settled(index'[job[p].work].active, current'[job[p].work], logs'[job[p].work],
              {job'[p].id}, {})
  BY SettledStarts DEF AtRest
<1>. QED BY <1>1, <1>2, <1>3, <1>4 DEF Settling

LEMMA SettledBranch ==
    ASSUME TypeOK, MatterInv, AllSettled, NEW p \in Proc, Step(p),
           RecordBranch(p) \/ (SwitchBranch(p) /\ ~ Refuse(p))
    PROVE  AllSettled'
<1>1. /\ pc[p] \in {"currentBranch", "switch"} /\ Goto(p, "noteOpen")
      /\ UNCHANGED <<present, index, current, logs>>
  BY DEF RecordBranch, SwitchBranch, gitVars, fileVars
<1>2. pc[p] \in GitSteps /\ pc'[p] = "noteOpen" /\ "noteOpen" \notin GitSteps \cup {"idle"}
  BY <1>1 DEF TypeOK, Goto, GitSteps
<1>3. SameJob(p)
  <2>1. ~ Exit(p)
    BY <1>2, ExitUntouched
  <2>. QED BY <2>1, StepJob
<1>4. job[p].work \in present
  BY <1>1, WorkIsPresent DEF MatterInv, MakerInv
<1>5. AtRest(job[p].work)'
  <2>1. AtRest(job[p].work)
    BY <1>2, <1>4, GitAtRest
  <2>. QED BY <1>1, <1>3, <2>1 DEF AtRest, SameJob
<1>6. job[p].cmd = "start"
  BY <1>2, SettledParts DEF SettledOf, GitSteps
<1>7. Settling(p)'
  BY <1>2, <1>3, <1>5, <1>6, SettlingNoteOpen DEF SameJob
<1>. QED BY <1>2, <1>3, <1>7, SettledOnward

LEMMA SettledWorktree ==
    ASSUME TypeOK, MatterInv, AllSettled, NEW p \in Proc, Step(p), AddWorktree(p), ~ Refuse(p)
    PROVE  AllSettled'
<1>. PICK w \in Worktree, v \in Worktree : w = job[p].work /\ v = job[p].root
  BY DEF TypeOK, Job
<1>. DEFINE tree == committed[head[v]]
<1>1. /\ pc[p] = "addWorktree" /\ Goto(p, "noteOpen") /\ UNCHANGED job
      /\ index' = [index EXCEPT ![w] = tree.index]
      /\ current' = [current EXCEPT ![w] = tree.current]
      /\ logs' = [logs EXCEPT ![w] = tree.logs]
  BY DEF AddWorktree
<1>2. /\ index'[w] = tree.index /\ current'[w] = tree.current /\ logs'[w] = tree.logs
      /\ pc'[p] = "noteOpen" /\ pc[p] \in GitSteps /\ pc[p] # "idle"
      /\ "noteOpen" \notin GitSteps \cup {"idle"}
  BY <1>1 DEF TypeOK, Goto, GitSteps
<1>3. SettledTree(tree)
  BY SettledParts DEF TypeOK
<1>4. AtRest(w)'
  BY <1>2, <1>3 DEF AtRest, SettledTree
<1>5. job[p].cmd = "start" /\ SameJob(p)
  BY <1>1, <1>2, SettledParts DEF SettledOf, SameJob
<1>6. Settling(p)'
  BY <1>1, <1>2, <1>4, <1>5, SettlingNoteOpen
<1>. QED BY <1>2, <1>5, <1>6, SettledOnward

-----------------------------------------------------------------------------
(* The session note.                                                       *)

(* What a script does to its own note, and to none other.                  *)
OwnNoteOnly(p) ==
    \A id \in SessionId :
        /\ id # job[p].id => logs'[job[p].work][id] = logs[job[p].work][id]
        /\ logs[job[p].work][id] # "absent" => logs'[job[p].work][id] # "absent"

(* How far the note has got: what the next step will find there.           *)
LEMMA StartNoteStep ==
    ASSUME TypeOK, NEW p \in Proc, job[p].cmd = "start", StartSettles(p),
           OpenNote(p) \/ WriteTemplate(p) \/ ReadLog(p) \/ OpenLog(p) \/ WriteLog(p)
    PROVE  OwnNoteOnly(p) /\ UNCHANGED job /\ StartSettles(p)'
<1>. PICK w \in Worktree, id \in SessionId : w = job[p].work /\ id = job[p].id
  BY DEF TypeOK, Job
<1>0. UNCHANGED job
  BY DEF OpenNote, WriteTemplate, ReadLog, OpenLog, WriteLog
<1>1. ASSUME NEW note, note # "absent", SetLog(p, note)
      PROVE  OwnNoteOnly(p) /\ logs'[w][id] = note
  BY <1>1 DEF TypeOK, SetLog, OwnNoteOnly
<1>2. ASSUME NEW step, Goto(p, step) PROVE pc'[p] = step
  BY <1>2 DEF TypeOK, Goto
<1>3. CASE OpenNote(p)
  <2>1. OwnNoteOnly(p) /\ pc'[p] = "noteTemplate"
    BY <1>1, <1>2, <1>3 DEF OpenNote
  <2>. QED BY <1>0, <2>1 DEF StartSettles, IndexSteps, CurrentSteps, IndexDone
<1>4. CASE WriteTemplate(p)
  <2>1. OwnNoteOnly(p) /\ pc'[p] = "logRead" /\ logs'[w][id] = "template"
    BY <1>1, <1>2, <1>4 DEF WriteTemplate
  <2>. QED BY <1>0, <2>1 DEF StartSettles, IndexSteps, CurrentSteps, IndexDone
<1>5. CASE ReadLog(p)
  <2>1. logs[w][id] = "template"
    BY <1>5 DEF ReadLog, StartSettles
  <2>2. pc'[p] = "logOpen" /\ logText'[p] = "open" /\ UNCHANGED logs
    BY <1>2, <1>5, <2>1 DEF TypeOK, ReadLog, ReplaceTemplate, fileVars
  <2>. QED BY <1>0, <2>2 DEF StartSettles, IndexSteps, CurrentSteps, IndexDone, OwnNoteOnly
<1>6. CASE OpenLog(p)
  <2>1. OwnNoteOnly(p) /\ pc'[p] = "logWrite"
    BY <1>1, <1>2, <1>6 DEF OpenLog
  <2>2. logText[p] = "open" /\ UNCHANGED logText
    BY <1>6 DEF OpenLog, StartSettles, textVars
  <2>. QED BY <1>0, <2>1, <2>2 DEF StartSettles, IndexSteps, CurrentSteps, IndexDone
<1>7. CASE WriteLog(p)
  <2>1. logText[p] = "open"
    BY <1>7 DEF WriteLog, StartSettles
  <2>2. OwnNoteOnly(p) /\ pc'[p] = "indexRead" /\ logs'[w][id] = "open"
    BY <1>1, <1>2, <1>7, <2>1 DEF WriteLog
  <2>. QED BY <1>0, <2>2 DEF StartSettles, IndexSteps, CurrentSteps, IndexDone
<1>. QED BY <1>3, <1>4, <1>5, <1>6, <1>7

LEMMA FinishNoteStep ==
    ASSUME TypeOK, NEW p \in Proc, job[p].cmd = "finish", FinishSettles(p),
           OpenNote(p) \/ WriteTemplate(p) \/ ReadLog(p) \/ OpenLog(p) \/ WriteLog(p)
    PROVE  OwnNoteOnly(p) /\ FinishSettles(p)'
<1>. PICK w \in Worktree, id \in SessionId : w = job[p].work /\ id = job[p].id
  BY DEF TypeOK, Job
<1>0. ~ OpenNote(p) /\ ~ WriteTemplate(p)
  BY DEF FinishSettles, OpenNote, WriteTemplate
<1>1. ASSUME NEW note, note # "absent", SetLog(p, note)
      PROVE  OwnNoteOnly(p) /\ logs'[w][id] = note
  BY <1>1 DEF TypeOK, SetLog, OwnNoteOnly
<1>2. ASSUME NEW step, Goto(p, step) PROVE pc'[p] = step
  BY <1>2 DEF TypeOK, Goto
<1>3. CASE ReadLog(p)
  <2>1. logs[w][id] \in {"open", "ended"}
    BY <1>3 DEF ReadLog, FinishSettles
  <2>2. /\ pc'[p] = "logOpen" /\ UNCHANGED logs
        /\ job'[p] = WithIds(job[p], HeaderIds(logs[w][id], id))
        /\ logText'[p] = WriteHandoff(logs[w][id])
    BY <1>2, <1>3 DEF TypeOK, ReadLog, fileVars
  <2>3. HeaderIds(logs[w][id], id) = {id} /\ WriteHandoff(logs[w][id]) = "ended"
    BY <2>1 DEF HeaderIds, WriteHandoff
  <2>4. job[p] \in Job /\ job'[p] = [job[p] EXCEPT !.ids = {id}]
    BY <2>2, <2>3 DEF TypeOK, WithIds
  <2>5. job'[p].ids = {id} /\ job'[p].id = id
    BY <2>4 DEF Job
  <2>. QED BY <2>2, <2>3, <2>5 DEF FinishSettles, IndexSteps, CurrentSteps, IndexDone, OwnNoteOnly
<1>4. CASE OpenLog(p)
  <2>1. OwnNoteOnly(p) /\ pc'[p] = "logWrite" /\ UNCHANGED job
    BY <1>1, <1>2, <1>4 DEF OpenLog
  <2>2. logText[p] = "ended" /\ UNCHANGED logText /\ job[p].ids = {id}
    BY <1>4 DEF OpenLog, FinishSettles, textVars
  <2>. QED BY <2>1, <2>2 DEF FinishSettles, IndexSteps, CurrentSteps, IndexDone
<1>5. CASE WriteLog(p)
  <2>1. logText[p] = "ended" /\ job[p].ids = {id}
    BY <1>5 DEF WriteLog, FinishSettles
  <2>2. OwnNoteOnly(p) /\ pc'[p] = "indexRead" /\ logs'[w][id] = "ended" /\ UNCHANGED job
    BY <1>1, <1>2, <1>5, <2>1 DEF WriteLog
  <2>. QED BY <2>1, <2>2 DEF FinishSettles, IndexSteps, CurrentSteps, IndexDone
<1>. QED BY <1>0, <1>3, <1>4, <1>5

LEMMA SettledNoteStep ==
    ASSUME TypeOK, MatterInv, AllSettled, NEW p \in Proc, Step(p),
           OpenNote(p) \/ WriteTemplate(p) \/ ReadLog(p) \/ OpenLog(p) \/ WriteLog(p)
    PROVE  AllSettled'
<1>. PICK w \in Worktree, id \in SessionId : w = job[p].work /\ id = job[p].id
  BY DEF TypeOK, Job
<1>1. /\ pc[p] \in NoteSteps /\ pc'[p] \in NoteSteps \cup {"indexRead"}
      /\ UNCHANGED <<index, current>>
  BY DEF TypeOK, OpenNote, WriteTemplate, ReadLog, OpenLog, WriteLog, Goto, NoteSteps, fileVars
<1>2. /\ pc[p] \notin GitSteps \cup {"idle", "indexOpen", "indexWrite", "currentOpen", "currentWrite"}
      /\ pc'[p] \notin GitSteps \cup {"idle", "indexOpen", "indexWrite", "currentOpen", "currentWrite"}
      /\ pc[p] \notin IndexDone /\ pc'[p] \notin IndexDone
  BY <1>1 DEF NoteSteps, GitSteps, IndexDone, CurrentSteps
<1>3. SameJob(p)
  <2>1. ~ Exit(p)
    BY <1>2, ExitUntouched
  <2>. QED BY <2>1, StepJob
<1>4. job[p].cmd \in {"start", "finish"}
  <2>1. job[p].cmd # "new"
    BY <1>1, <1>2 DEF MatterInv, MakerInv, OwnMatter
  <2>. QED BY <2>1 DEF TypeOK, Job
<1>5. Settling(p)
  BY <1>2, SettledParts DEF SettledOf, Busy
<1>6. OwnNoteOnly(p) /\ (job[p].cmd = "start" => StartSettles(p)')
      /\ (job[p].cmd = "finish" => FinishSettles(p)')
  BY <1>4, <1>5, StartNoteStep, FinishNoteStep DEF Settling
<1>7. Settled(index[w].active, current[w], logs[w], {id}, {})
  BY <1>2, <1>4, <1>5 DEF Settling, Entries, Shown, Own, Late
<1>8. \A entry \in index[w].active : entry.id \in SessionId
  BY DEF TypeOK, IndexText, Entry
<1>9. Settled(index[w].active, current[w], logs'[w], {id}, {})
  BY <1>6, <1>7, <1>8, SettledOtherNotes DEF OwnNoteOnly
<1>10. /\ Entries(p)' = index[w].active /\ Shown(p)' = current[w] /\ Own(p)' = {id} /\ Late(p)' = {}
       /\ job'[p].work = w
  BY <1>1, <1>2, <1>3, <1>4 DEF Entries, Shown, Own, Late, SameJob
<1>11. Settling(p)'
  BY <1>3, <1>6, <1>9, <1>10 DEF Settling, SameJob
<1>. QED BY <1>2, <1>3, <1>11, SettledOnward

-----------------------------------------------------------------------------
(* The matter directory, index.yaml and CURRENT.md.                        *)

LEMMA SettledMatterStep ==
    ASSUME TypeOK, MatterInv, AllSettled, NEW p \in Proc, Step(p),
           MakeMatter(p) \/ FillMatter(p) \/ Rollback(p)
    PROVE  AllSettled'
<1>. PICK w \in Worktree : w = job[p].work
  BY DEF TypeOK, Job
<1>1. pc[p] \in MatterSteps /\ UNCHANGED <<index, current, logs>>
      /\ (Exit(p) \/ pc'[p] \in {"fill", "rollback", "indexRead"})
  BY DEF TypeOK, MakeMatter, FillMatter, Rollback, MatterSteps, Goto
<1>2. job[p].cmd = "new" /\ pc[p] \notin {"indexOpen", "indexWrite", "currentOpen", "currentWrite"}
  BY <1>1 DEF MatterInv, MakerInv, MatterSteps
<1>3. Settling(p)
  BY <1>1, SettledParts DEF SettledOf, Busy, MatterSteps, GitSteps
<1>4. AtRest(w)
  BY <1>2, <1>3 DEF Settling, Entries, Shown, Own, Late, AtRest
<1>5. AtRest(w)'
  BY <1>1, <1>4 DEF AtRest
<1>6. CASE Exit(p)
  BY <1>5, <1>6, SettledExit
<1>7. CASE ~ Exit(p)
  <2>1. SameJob(p) /\ pc'[p] \in {"fill", "rollback", "indexRead"}
    BY <1>1, <1>7, StepJob
  <2>2. pc'[p] \notin GitSteps \cup {"idle", "indexOpen", "indexWrite", "currentOpen", "currentWrite"}
    BY <2>1 DEF GitSteps
  <2>3. Settling(p)'
    BY <1>2, <1>5, <2>1, <2>2 DEF Settling, Entries, Shown, Own, Late, AtRest, SameJob
  <2>. QED BY <2>1, <2>2, <2>3, SettledOnward
<1>. QED BY <1>6, <1>7

(* What every step within the memory files leaves alone.                   *)
LEMMA FileStepFrame ==
    ASSUME TypeOK, NEW p \in Proc, Step(p),
           \/ ReadIndex(p) \/ OpenIndex(p) \/ WriteIndex(p)
           \/ ReadCurrent(p) \/ OpenCurrent(p) \/ WriteCurrent(p)
    PROVE  /\ UNCHANGED <<logs, present>>
           /\ pc[p] \in IndexSteps \cup CurrentSteps /\ pc[p] \notin GitSteps \cup {"idle"}
           /\ ~ Exit(p) => UNCHANGED job /\ SameJob(p) /\ EntryOf(p)' = EntryOf(p)
<1>1. UNCHANGED <<logs, present>>
  BY DEF ReadIndex, OpenIndex, WriteIndex, ReadCurrent, OpenCurrent, WriteCurrent, gitVars, fileVars
<1>2. pc[p] \in IndexSteps \cup CurrentSteps
  BY DEF ReadIndex, OpenIndex, WriteIndex, ReadCurrent, OpenCurrent, WriteCurrent, IndexSteps,
         CurrentSteps
<1>3. pc[p] \notin GitSteps \cup {"idle"}
  BY <1>2 DEF IndexSteps, CurrentSteps, GitSteps
<1>4. ~ Exit(p) => UNCHANGED job
  BY DEF ReadIndex, OpenIndex, WriteIndex, ReadCurrent, OpenCurrent, WriteCurrent
<1>. QED BY <1>1, <1>2, <1>3, <1>4 DEF SameJob, EntryOf

(* Reading the index computes what it will list.                           *)
LEMMA SettledReadIndex ==
    ASSUME TypeOK, MatterInv, AllSettled, NEW p \in Proc, Step(p), ReadIndex(p)
    PROVE  AllSettled'
<1>. PICK w \in Worktree, id \in SessionId : w = job[p].work /\ id = job[p].id
  BY DEF TypeOK, Job
<1>1. /\ pc[p] = "indexRead" /\ pc'[p] = "indexOpen" /\ indexText'[p] = NewIndexText(p)
      /\ UNCHANGED <<index, current, job>>
  BY DEF TypeOK, ReadIndex, Goto, fileVars
<1>2. UNCHANGED logs /\ SameJob(p) /\ EntryOf(p)' = EntryOf(p)
  <2>1. ~ Exit(p)
    BY <1>1, ExitUntouched
  <2>. QED BY <2>1, FileStepFrame
<1>3. Settling(p)
  BY <1>1, SettledParts DEF SettledOf, Busy, GitSteps
<1>4. Settled(index[w].active, current[w], logs[w], Own(p), {})
  BY <1>1, <1>3 DEF Settling, Entries, Shown, Late, IndexDone, CurrentSteps
<1>5. /\ Entries(p)' = NewIndexText(p).active /\ Shown(p)' = current[w] /\ Own(p)' = Own(p)
      /\ Late(p)' = IF job[p].cmd = "start" THEN {EntryOf(p)} ELSE {}
  BY <1>1, <1>2 DEF Entries, Shown, Own, Late, IndexDone
<1>6. job[p].cmd \in {"new", "start", "finish"} /\ index[w] \in IndexText
  BY DEF TypeOK, Job
<1>7. CASE job[p].cmd = "new"
  <2>1. NewIndexText(p).active = index[w].active
    BY <1>6, <1>7 DEF NewIndexText, UpdateIndex, IndexText
  <2>. QED BY <1>1, <1>2, <1>4, <1>5, <1>7, <2>1, SettledOnward DEF Settling, GitSteps
<1>8. CASE job[p].cmd = "start"
  <2>1. NewIndexText(p).active = index[w].active \cup {EntryOf(p)}
    BY <1>6, <1>8 DEF NewIndexText, AddActiveSession, IndexText
  <2>2. EntryOf(p).id \in Own(p)
    BY <1>8 DEF EntryOf, Own
  <2>3. Settled(index[w].active \cup {EntryOf(p)}, current[w], logs[w], Own(p), {EntryOf(p)})
    BY <1>4, <2>2, SettledAdds
  <2>4. logs[w][id] = "open"
    BY <1>1, <1>3, <1>8 DEF Settling, StartSettles, IndexSteps
  <2>5. StartSettles(p)'
    BY <1>1, <1>2, <1>5, <2>1, <2>4 DEF StartSettles
  <2>. QED BY <1>1, <1>2, <1>5, <1>8, <2>1, <2>3, <2>5, SettledOnward DEF Settling, GitSteps
<1>9. CASE job[p].cmd = "finish"
  <2>1. job[p].ids = {id} /\ logs[w][id] = "ended" /\ Own(p) = {id}
    BY <1>1, <1>3, <1>9 DEF Settling, FinishSettles, IndexSteps, Own
  <2>2. NewIndexText(p).active = Without(index[w].active, {id})
    BY <1>6, <1>9, <2>1 DEF NewIndexText, RemoveActiveSession, IndexText
  <2>3. Settled(Without(index[w].active, {id}), current[w], logs[w], {id}, {})
    BY <1>4, <2>1, SettledRemoves
  <2>4. \A entry \in Without(index[w].active, {id}) : ~ Mentions(entry, {id})
    BY DEF Without
  <2>5. FinishSettles(p)'
    BY <1>1, <1>2, <1>5, <2>1, <2>2, <2>4 DEF FinishSettles
  <2>. QED BY <1>1, <1>2, <1>5, <1>9, <2>1, <2>2, <2>3, <2>5, SettledOnward DEF Settling, GitSteps
<1>. QED BY <1>6, <1>7, <1>8, <1>9

(* Emptying index.yaml, and writing it when CURRENT.md is next, loses      *)
(* nothing that is still to be written.                                    *)
LEMMA SettledIndexOnward ==
    ASSUME TypeOK, MatterInv, AllSettled, NEW p \in Proc, Step(p),
           OpenIndex(p) \/ WriteIndex(p), ~ Exit(p)
    PROVE  AllSettled'
<1>. PICK w \in Worktree, id \in SessionId : w = job[p].work /\ id = job[p].id
  BY DEF TypeOK, Job
<1>1. /\ pc[p] \in {"indexOpen", "indexWrite"} /\ pc'[p] \in {"indexWrite", "currentRead"}
      /\ UNCHANGED current
      /\ pc'[p] = "indexWrite" => indexText'[p] = indexText[p]
      /\ pc'[p] = "currentRead" => index'[w] = indexText[p]
  BY DEF TypeOK, OpenIndex, WriteIndex, Goto, textVars
<1>2. UNCHANGED <<logs, job>> /\ SameJob(p) /\ EntryOf(p)' = EntryOf(p)
  BY FileStepFrame
<1>3. Settling(p)
  BY <1>1, SettledParts DEF SettledOf, Busy, GitSteps
<1>4. /\ Entries(p) = indexText[p].active /\ Entries(p)' = Entries(p)
      /\ Shown(p) = current[w] /\ Shown(p)' = Shown(p) /\ Own(p)' = Own(p) /\ Late(p)' = Late(p)
  BY <1>1, <1>2 DEF Entries, Shown, Own, Late, IndexDone, CurrentSteps
<1>5. pc[p] \in IndexSteps /\ pc[p] \in IndexDone /\ pc'[p] \in IndexSteps \cup CurrentSteps
      /\ pc[p] # "logRead" /\ pc'[p] \in IndexDone
      /\ pc'[p] \notin {"logRead", "logOpen", "logWrite", "currentOpen", "currentWrite",
                        "noteOpen", "noteTemplate"} \cup GitSteps \cup {"idle"}
  BY <1>1 DEF IndexSteps, CurrentSteps, IndexDone, GitSteps
<1>6. job[p].cmd = "start" => StartSettles(p)'
  BY <1>2, <1>3, <1>4, <1>5 DEF Settling, StartSettles
<1>7. job[p].cmd = "finish" => FinishSettles(p)'
  BY <1>2, <1>3, <1>4, <1>5 DEF Settling, FinishSettles
<1>8. Settling(p)'
  BY <1>2, <1>3, <1>4, <1>6, <1>7 DEF Settling
<1>. QED BY <1>2, <1>5, <1>8, SettledOnward

(* finish_session.py --no-current-update ends with the index.              *)
LEMMA SettledIndexExit ==
    ASSUME TypeOK, MatterInv, AllSettled, NEW p \in Proc, Step(p), WriteIndex(p), Exit(p)
    PROVE  AllSettled'
<1>. PICK w \in Worktree, id \in SessionId : w = job[p].work /\ id = job[p].id
  BY DEF TypeOK, Job
<1>1. /\ pc[p] = "indexWrite" /\ job[p].option = "noCurrentUpdate"
      /\ index'[w] = indexText[p] /\ UNCHANGED <<current, logs>>
  <2>1. pc'[p] # "currentRead"
    BY ExitUntouched
  <2>. QED BY <2>1 DEF TypeOK, WriteIndex, Goto
<1>2. Settling(p) /\ job[p].cmd = "finish"
  BY <1>1, SettledParts DEF SettledOf, Busy, GitSteps
<1>3. /\ job[p].ids = {id} /\ logs[w][id] = "ended"
      /\ \A entry \in indexText[p].active : ~ Mentions(entry, {id})
  BY <1>1, <1>2 DEF Settling, FinishSettles, IndexSteps, IndexDone, Entries
<1>4. Settled(indexText[p].active, current[w], logs[w], {id}, {})
  BY <1>1, <1>2 DEF Settling, Entries, Shown, Own, Late
<1>5. \A entry \in indexText[p].active : entry.id # id
  <2>1. \A entry \in indexText[p].active : entry.id \in SessionId
    BY DEF TypeOK, IndexText, Entry
  <2>2. \A entry \in indexText[p].active : <<entry.id.slug, entry.id.slug>> \in PrefixOf
    BY <2>1, FilesAssumption DEF SessionId
  <2>. QED BY <1>3, <2>2 DEF Mentions
<1>6. Settled(indexText[p].active, current[w], logs[w], {}, {})
  BY <1>3, <1>4, <1>5, SettledEnds
<1>7. AtRest(w)'
  BY <1>1, <1>6 DEF AtRest
<1>. QED BY <1>7, SettledExit

(* Reading CURRENT.md computes what it will show. *)
LEMMA SettledReadCurrent ==
    ASSUME TypeOK, MatterInv, AllSettled, NEW p \in Proc, Step(p), ReadCurrent(p)
    PROVE  AllSettled'
<1>. PICK w \in Worktree, id \in SessionId : w = job[p].work /\ id = job[p].id
  BY DEF TypeOK, Job
<1>1. /\ pc[p] = "currentRead" /\ pc'[p] = "currentOpen" /\ currentText'[p] = NewCurrentText(p)
      /\ UNCHANGED <<index, job>>
  BY DEF TypeOK, ReadCurrent, Goto, fileVars
<1>2. UNCHANGED logs /\ SameJob(p) /\ EntryOf(p)' = EntryOf(p)
  <2>1. ~ Exit(p)
    BY <1>1, ExitUntouched
  <2>. QED BY <2>1, FileStepFrame
<1>3. Settling(p)
  BY <1>1, SettledParts DEF SettledOf, Busy, GitSteps
<1>4. Settled(index[w].active, current[w], logs[w], Own(p), Late(p)) /\ OneBranches(current[w])
  BY <1>1, <1>3 DEF Settling, Entries, Shown, Settled
<1>5. /\ Entries(p)' = index[w].active /\ Entries(p) = index[w].active
      /\ Shown(p)' = NewCurrentText(p) /\ Own(p)' = Own(p) /\ Late(p)' = {}
  BY <1>1, <1>2 DEF Entries, Shown, Own, Late
<1>6. /\ job[p].cmd \in {"new", "start", "finish"} /\ current[w] \in CurrentText
      /\ job[p].matter \in Matter /\ EntryOf(p) \in Entry
  BY DEF TypeOK, Job, EntryOf, Entry
<1>7. pc[p] \in CurrentSteps /\ pc[p] \in IndexDone
  BY <1>1 DEF IndexDone, CurrentSteps
<1>8. CASE job[p].cmd = "new"
  <2>1. Late(p) = {}
    BY <1>8 DEF Late
  <2>2. NewCurrentText(p) = UpdateCurrentMatter(current[w], job[p].matter)
    BY <1>8 DEF NewCurrentText
  <2>3. OneBranches(NewCurrentText(p)) /\ CurrentSessions(NewCurrentText(p)) = CurrentSessions(current[w])
    BY <1>4, <1>6, <2>2, AddToBranches
  <2>4. Settled(index[w].active, NewCurrentText(p), logs[w], Own(p), {})
    BY <1>4, <2>1, <2>3, SettledSame
  <2>. QED BY <1>1, <1>2, <1>5, <1>8, <2>4, SettledOnward DEF Settling, GitSteps
<1>9. CASE job[p].cmd = "start"
  <2>1. Late(p) = {EntryOf(p)}
    BY <1>1, <1>7, <1>9 DEF Late
  <2>2. NewCurrentText(p) = AddCurrentSession(current[w], EntryOf(p))
    BY <1>9 DEF NewCurrentText
  <2>3. /\ OneBranches(NewCurrentText(p))
        /\ CurrentSessions(NewCurrentText(p)) = CurrentSessions(current[w]) \cup {EntryOf(p)}
    BY <1>4, <1>6, <2>2, AddToBranches
  <2>4. Settled(index[w].active, NewCurrentText(p), logs[w], Own(p), {})
    BY <1>4, <2>1, <2>3, SettledShows
  <2>5. logs[w][id] = "open" /\ EntryOf(p) \in index[w].active
    BY <1>3, <1>5, <1>7, <1>9 DEF Settling, StartSettles
  <2>6. StartSettles(p)'
    BY <1>1, <1>2, <1>5, <2>3, <2>5 DEF StartSettles
  <2>. QED BY <1>1, <1>2, <1>5, <1>9, <2>4, <2>6, SettledOnward DEF Settling, GitSteps
<1>10. CASE job[p].cmd = "finish"
  <2>1. /\ job[p].ids = {id} /\ logs[w][id] = "ended" /\ Own(p) = {id} /\ Late(p) = {}
        /\ \A entry \in index[w].active : ~ Mentions(entry, {id})
    BY <1>1, <1>3, <1>5, <1>7, <1>10 DEF Settling, FinishSettles, Own, Late
  <2>2. NewCurrentText(p) = UpdateCurrentHandoff(current[w], {id})
    BY <1>10, <2>1 DEF NewCurrentText
  <2>3. /\ OneBranches(NewCurrentText(p))
        /\ CurrentSessions(NewCurrentText(p)) = Without(CurrentSessions(current[w]), {id})
    BY <1>4, <1>6, <2>2, HandoffOfBranches
  <2>4. Settled(index[w].active, NewCurrentText(p), logs[w], {id}, {})
    <3>1. Settled(index[w].active, current[w], logs[w], {id}, {})
      BY <1>4, <2>1
    <3>. QED BY <2>1, <2>3, <3>1, SettledHides
  <2>5. FinishSettles(p)'
    BY <1>1, <1>2, <1>5, <2>1 DEF FinishSettles
  <2>. QED BY <1>1, <1>2, <1>5, <1>10, <2>1, <2>4, <2>5, SettledOnward DEF Settling, GitSteps
<1>. QED BY <1>6, <1>8, <1>9, <1>10

LEMMA SettledOpenCurrent ==
    ASSUME TypeOK, MatterInv, AllSettled, NEW p \in Proc, Step(p), OpenCurrent(p)
    PROVE  AllSettled'
<1>1. /\ pc[p] = "currentOpen" /\ pc'[p] = "currentWrite" /\ currentText'[p] = currentText[p]
      /\ UNCHANGED <<index, job>>
  BY DEF TypeOK, OpenCurrent, Goto, textVars
<1>2. UNCHANGED logs /\ SameJob(p) /\ EntryOf(p)' = EntryOf(p)
  <2>1. ~ Exit(p)
    BY <1>1, ExitUntouched
  <2>. QED BY <2>1, FileStepFrame
<1>3. Settling(p)
  BY <1>1, SettledParts DEF SettledOf, Busy, GitSteps
<1>4. /\ Entries(p)' = Entries(p) /\ Shown(p)' = Shown(p) /\ Own(p)' = Own(p) /\ Late(p)' = Late(p)
  BY <1>1, <1>2 DEF Entries, Shown, Own, Late
<1>5. pc[p] \in CurrentSteps /\ pc[p] \in IndexDone
  BY <1>1 DEF IndexDone, CurrentSteps
<1>6. job[p].cmd = "start" => StartSettles(p)'
  BY <1>1, <1>2, <1>3, <1>4, <1>5 DEF Settling, StartSettles
<1>7. job[p].cmd = "finish" => FinishSettles(p)'
  BY <1>1, <1>2, <1>3, <1>4, <1>5 DEF Settling, FinishSettles
<1>8. Settling(p)'
  BY <1>1, <1>2, <1>3, <1>4, <1>6, <1>7 DEF Settling
<1>. QED BY <1>1, <1>2, <1>8, SettledOnward DEF GitSteps

(* Writing CURRENT.md ends the script: its own session is settled, too.    *)
LEMMA SettledWriteCurrent ==
    ASSUME TypeOK, MatterInv, AllSettled, NEW p \in Proc, Step(p), WriteCurrent(p)
    PROVE  AllSettled'
<1>. PICK w \in Worktree, id \in SessionId : w = job[p].work /\ id = job[p].id
  BY DEF TypeOK, Job
<1>1. /\ pc[p] = "currentWrite" /\ Exit(p) /\ current'[w] = currentText[p]
      /\ UNCHANGED <<index, logs>>
  BY DEF TypeOK, WriteCurrent
<1>2. Settling(p)
  BY <1>1, SettledParts DEF SettledOf, Busy, GitSteps
<1>3. Settled(index[w].active, currentText[p], logs[w], Own(p), {})
  BY <1>1, <1>2 DEF Settling, Entries, Shown, Late
<1>4. pc[p] \in CurrentSteps /\ pc[p] \in IndexDone /\ Entries(p) = index[w].active
      /\ Shown(p) = currentText[p]
  BY <1>1 DEF IndexDone, CurrentSteps, Entries, Shown
<1>5. Settled(index[w].active, currentText[p], logs[w], {}, {})
  <2>1. CASE job[p].cmd = "new"
    BY <1>3, <2>1 DEF Own
  <2>2. CASE job[p].cmd = "start"
    <3>1. /\ logs[w][id] = "open" /\ Own(p) = {id}
          /\ EntryOf(p) \in index[w].active /\ EntryOf(p) \in CurrentSessions(currentText[p])
      BY <1>1, <1>2, <1>4, <2>2 DEF Settling, StartSettles, Own
    <3>2. HasId(index[w].active, id) /\ HasId(CurrentSessions(currentText[p]), id)
      BY <3>1 DEF HasId, EntryOf
    <3>. QED BY <1>3, <3>1, <3>2, SettledEnds
  <2>3. CASE job[p].cmd = "finish"
    <3>1. /\ logs[w][id] = "ended" /\ Own(p) = {id} /\ job[p].ids = {id}
          /\ \A entry \in index[w].active : ~ Mentions(entry, {id})
      BY <1>1, <1>2, <1>4, <2>3 DEF Settling, FinishSettles, Own
    <3>2. \A entry \in index[w].active : entry.id # id
      <4>1. \A entry \in index[w].active : entry.id \in SessionId
        BY DEF TypeOK, IndexText, Entry
      <4>2. \A entry \in index[w].active : <<entry.id.slug, entry.id.slug>> \in PrefixOf
        BY <4>1, FilesAssumption DEF SessionId
      <4>. QED BY <3>1, <4>2 DEF Mentions
    <3>. QED BY <1>3, <3>1, <3>2, SettledEnds
  <2>. QED BY <2>1, <2>2, <2>3 DEF TypeOK, Job
<1>6. AtRest(w)'
  BY <1>1, <1>5 DEF AtRest
<1>. QED BY <1>1, <1>6, SettledExit

LEMMA SettledStep ==
    ASSUME TypeOK, MatterInv, AllSettled, NEW p \in Proc, Step(p)
    PROVE  AllSettled'
<1>1. CASE (CheckClean(p) \/ CheckTracked(p) \/ CheckBranch(p) \/ CheckTarget(p)) /\ ~ Refuse(p)
  <2>1. pc[p] \in GitSteps
    BY <1>1 DEF CheckClean, CheckTracked, CheckBranch, CheckTarget, GitSteps
  <2>2. PICK next \in {"tracked", "branch", "target", "switch", "addWorktree"} : Pass(p, next)
    BY <1>1 DEF CheckClean, CheckTracked, CheckBranch, CheckTarget
  <2>. QED BY <2>1, <2>2, SettledGitPass DEF GitSteps
<1>2. CASE \/ CheckClean(p) \/ CheckTracked(p) \/ CheckBranch(p) \/ CheckTarget(p)
           \/ SwitchBranch(p) \/ AddWorktree(p)
  <2>1. pc[p] \in GitSteps
    BY <1>2 DEF CheckClean, CheckTracked, CheckBranch, CheckTarget, SwitchBranch, AddWorktree, GitSteps
  <2>. QED BY <1>1, <1>2, <2>1, SettledGitExit, SettledBranch, SettledWorktree
<1>3. CASE OpenIndex(p) \/ WriteIndex(p)
  <2>1. OpenIndex(p) => ~ Exit(p)
    BY ExitUntouched DEF TypeOK, OpenIndex, Goto
  <2>. QED BY <1>3, <2>1, SettledIndexOnward, SettledIndexExit
<1>. QED BY <1>2, <1>3, SettledMatterStep, SettledBranch, SettledNoteStep, SettledReadIndex,
            SettledReadCurrent, SettledOpenCurrent, SettledWriteCurrent DEF Step

LEMMA SettledLaunch ==
    ASSUME Exclusive, TypeOK, MatterInv, AllSettled, NEW p \in Proc, Launches(p)
    PROVE  AllSettled'
<1>1. PICK j \in Job, first \in Steps : Launch(p, j, first) /\ Launched(j, first)
  BY LaunchesShape
<1>2. /\ pc[p] = "idle" /\ pc' = [pc EXCEPT ![p] = first] /\ job' = [job EXCEPT ![p] = j]
      /\ j.root \in present /\ Quiet(j.work)
      /\ UNCHANGED <<present, index, current, logs, committed, indexText, currentText, logText>>
  BY <1>1 DEF Launch, gitVars, fileVars, textVars
<1>3. /\ pc'[p] = first /\ job'[p] = j /\ ~ Busy(p)
      /\ \A q \in Proc : q # p => pc'[q] = pc[q] /\ job'[q] = job[q]
  BY <1>2 DEF TypeOK, Busy
<1>4. ASSUME NEW w \in present, Free(w) PROVE AtRest(w)'
  BY <1>2, <1>4, SettledParts DEF AtRest
<1>5. ASSUME NEW w \in present', Free(w)' PROVE AtRest(w)'
  <2>1. Free(w)
    BY <1>3, <1>5 DEF Free, Busy
  <2>. QED BY <1>2, <1>4, <2>1
<1>6. ASSUME NEW q \in Proc, q # p PROVE SettledOf(q)'
  <2>1. SettledOf(q) /\ Settling(q) => Settling(q)'
    BY <1>2, <1>3, <1>6, SettlingUntouched
  <2>. QED BY <1>3, <1>6, <2>1, SettledParts DEF SettledOf, Busy
<1>7. SettledOf(p)'
  <2>. PICK w \in Worktree, id \in SessionId : w = j.work /\ id = j.id
    BY DEF Job
  <2>1. Free(w)
    BY <1>2 DEF Free, Quiet, Uses, Busy
  <2>2. CASE j.cmd = "start"
    <3>1. first \in {"clean", "currentBranch"} /\ j.option \in StartOptions
      BY <1>1, <2>2 DEF Launched
    <3>. QED BY <1>3, <2>2, <3>1 DEF SettledOf, Busy, GitSteps, StartOptions
  <2>3. CASE j.cmd = "new"
    <3>1. first = "mkdir" /\ j.work = j.root /\ j.option \in MatterOptions
      BY <1>1, <2>3 DEF Launched
    <3>2. AtRest(w)'
      BY <1>2, <1>4, <2>1, <3>1
    <3>3. Settling(p)'
      BY <1>3, <2>3, <3>1, <3>2 DEF Settling, Entries, Shown, Own, Late, AtRest
    <3>. QED BY <1>3, <2>3, <3>1, <3>3 DEF SettledOf, GitSteps, MatterOptions
  <2>4. CASE j.cmd = "finish"
    <3>1. first = "logRead" /\ j.work = j.root /\ logs[w][id] # "absent"
      BY <1>1, <2>4 DEF Launched
    <3>2. AtRest(w)'
      BY <1>2, <1>4, <2>1, <3>1
    <3>3. logs[w][id] \in {"open", "ended"} /\ logs' = logs
      BY <1>2, <3>1, <3>2 DEF AtRest, Settled
    <3>4. FinishSettles(p)'
      BY <1>3, <3>1, <3>3 DEF FinishSettles, IndexSteps, CurrentSteps, IndexDone
    <3>5. /\ Entries(p)' = index'[w].active /\ Shown(p)' = current'[w]
          /\ Own(p)' = {id} /\ Late(p)' = {}
      BY <1>3, <2>4, <3>1 DEF Entries, Shown, Own, Late
    <3>6. Settled(index'[w].active, current'[w], logs'[w], {id}, {})
      BY <3>2, SettledStarts DEF AtRest
    <3>7. Settling(p)'
      BY <1>3, <2>4, <3>4, <3>5, <3>6 DEF Settling
    <3>. QED BY <1>3, <2>4, <3>1, <3>7 DEF SettledOf, GitSteps
  <2>. QED BY <2>2, <2>3, <2>4 DEF Job
<1>8. \A b \in Branch : SettledTree(committed'[b])
  BY <1>2, SettledParts
<1>. QED BY <1>5, <1>6, <1>7, <1>8, SettledNext

LEMMA SettledStutter ==
    ASSUME AllSettled, UNCHANGED <<present, fileVars, pc, job, textVars>>,
           \A b \in Branch : SettledTree(committed'[b])
    PROVE  AllSettled'
<1>1. UNCHANGED <<present, index, current, logs, pc, job, indexText, currentText, logText>>
  BY DEF fileVars, textVars
<1>2. ASSUME NEW p \in Proc PROVE SettledOf(p)'
  <2>1. Settling(p) => Settling(p)'
    BY <1>1, SettlingUntouched
  <2>. QED BY <1>1, <2>1, SettledParts DEF SettledOf, Busy
<1>3. \A w \in present' : Free(w)' => AtRest(w)'
  BY <1>1, SettledParts DEF Free, Busy, AtRest
<1>. QED BY <1>2, <1>3, SettledNext

(* No script uses the worktree whose files are committed. *)
LEMMA SettledCommit ==
    ASSUME Exclusive, TypeOK, AllSettled, NEW w \in Worktree, Commit(w)
    PROVE  AllSettled'
<1>1. /\ w \in present /\ Quiet(w) /\ committed' = [committed EXCEPT ![head[w]] = Tree(w)]
      /\ UNCHANGED <<present, fileVars, pc, job, textVars>>
  BY DEF Commit
<1>2. Free(w)
  BY <1>1 DEF Free, Busy, Quiet, Uses
<1>3. SettledTree(Tree(w))
  BY <1>1, <1>2, SettledParts DEF AtRest, SettledTree, Tree
<1>4. \A b \in Branch : SettledTree(committed'[b])
  BY <1>1, <1>3, SettledParts DEF TypeOK
<1>. QED BY <1>1, <1>4, SettledStutter

LEMMA SettledInit == Init => AllSettled
<1>. SUFFICES ASSUME Init PROVE AllSettled
  OBVIOUS
<1>1. OneBranches(ShippedCurrent)
  <2>1. DOMAIN ShippedCurrent = 1..4 /\ Len(ShippedCurrent) = 4
    BY DEF ShippedCurrent
  <2>2. /\ ShippedCurrent[1].kind = "matters" /\ ShippedCurrent[2].kind = "other"
        /\ ShippedCurrent[3].kind = "branches" /\ ShippedCurrent[4].kind = "other"
    BY DEF ShippedCurrent
  <2>3. Sections(ShippedCurrent, "branches") = {3}
    BY <2>1, <2>2 DEF Sections
  <2>. QED BY <2>1, <2>3 DEF OneBranches
<1>2. /\ ShippedTree.index.active = {} /\ ShippedTree.current = ShippedCurrent
      /\ \A id \in SessionId : ShippedTree.logs[id] = "absent"
  BY DEF ShippedTree, ShippedIndex
<1>3. SettledTree(ShippedTree)
  BY <1>1, <1>2 DEF SettledTree, Settled
<1>4. /\ \A w \in Worktree : index[w] = ShippedTree.index /\ current[w] = ShippedTree.current
                             /\ logs[w] = ShippedTree.logs
      /\ present \subseteq Worktree
  BY MemoryAssumption DEF Init, ShippedTree
<1>5. \A w \in present : AtRest(w)
  BY <1>3, <1>4 DEF AtRest, SettledTree
<1>6. \A p \in Proc : SettledOf(p)
  BY DEF Init, SettledOf, Busy
<1>7. \A b \in Branch : SettledTree(committed[b])
  BY <1>3 DEF Init
<1>. QED BY <1>5, <1>6, <1>7, SettledParts

LEMMA SettledInvariant == ASSUME Exclusive PROVE Spec => []SettledInv
<1>1. ASSUME TypeOK, MatterInv, SettledInv, [Next]_vars PROVE SettledInv'
  <2>. SUFFICES ASSUME faults' = 0 PROVE AllSettled'
    BY DEF SettledInv
  <2>1. CASE \E p \in Proc : Launches(p)
    <3>1. PICK p \in Proc : Launches(p)
      BY <2>1
    <3>2. faults = 0
      BY <1>1, <3>1, LaunchesShape DEF Launch
    <3>. QED BY <1>1, <3>1, <3>2, SettledLaunch DEF SettledInv
  <2>2. CASE \E p \in Proc : Step(p)
    BY <1>1, <2>2, StepFaults, SettledStep DEF SettledInv
  <2>3. CASE \E p \in Proc : Abort(p) \/ MatterOsError(p)
    BY <1>1, <2>3 DEF Abort, MatterOsError, TypeOK
  <2>4. CASE \E w \in Worktree : Commit(w)
    <3>1. faults = 0
      BY <2>4 DEF Commit
    <3>. QED BY <1>1, <2>4, <3>1, SettledCommit DEF SettledInv
  <2>5. CASE Tick \/ UNCHANGED vars
    <3>1. UNCHANGED <<faults, committed, present, fileVars, pc, job, textVars>>
      BY <2>5 DEF Tick, vars, gitVars
    <3>2. AllSettled
      BY <1>1, <3>1 DEF SettledInv
    <3>3. \A b \in Branch : SettledTree(committed'[b])
      BY <3>1, <3>2, SettledParts
    <3>. QED BY <3>1, <3>2, <3>3, SettledStutter
  <2>. QED BY <1>1, <2>1, <2>2, <2>3, <2>4, <2>5 DEF Next
<1>2. Init => SettledInv
  BY SettledInit DEF SettledInv
<1>. QED BY <1>1, <1>2, TypeCorrect, MatterInvInvariant, PTL DEF Spec

(* Without faults, a worktree that no script uses is at rest. *)
LEMMA QuietAtRest ==
    ASSUME SettledInv, faults = 0, NEW w \in present, Quiet(w)
    PROVE  AtRest(w)
BY SettledParts DEF SettledInv, Free, Busy, Quiet, Uses

(* With one script at a time in a worktree, and as long as none of them    *)
(* was killed or met an I/O error, no open session is lost: the index and  *)
(* CURRENT.md both name it whenever no script is at work.                  *)
THEOREM OpenAlwaysListed == ASSUME Exclusive PROVE Spec => []OpenIsListed
<1>1. SettledInv => OpenIsListed
  BY QuietAtRest DEF OpenIsListed, AtRest, Settled, HasId
<1>. QED BY <1>1, SettledInvariant, PTL

(* Likewise, no finished session is left behind in the index.              *)
THEOREM ListedAlwaysOpen == ASSUME Exclusive PROVE Spec => []ListedIsOpen
<1>1. SettledInv => ListedIsOpen
  BY QuietAtRest DEF ListedIsOpen, AtRest, Settled
<1>. QED BY <1>1, SettledInvariant, PTL

-----------------------------------------------------------------------------
(* A new worktree is complete.                                             *)

CleanOf(p) ==
    pc[p] # "idle" /\ job[p].cmd = "start" /\ job[p].option = "worktree" =>
        /\ Mode # "untracked"
        /\ pc[p] \in {"tracked", "branch", "target", "addWorktree"} =>
              Tree(job[p].root) = committed[head[job[p].root]]

LEMMA CleanParts == CleanInv <=> \A p \in Proc : CleanOf(p)
BY DEF CleanInv, CleanOf, Dirty

LEMMA CleanNext == ASSUME \A p \in Proc : CleanOf(p)' PROVE CleanInv'
BY DEF CleanInv, CleanOf, Dirty

(* Only its checks take start_session.py from one check to the next.       *)
LEMMA ChecksOnly ==
    ASSUME TypeOK, NEW p \in Proc, Step(p),
           pc'[p] \in {"tracked", "branch", "target", "addWorktree"}
    PROVE  /\ UNCHANGED <<job, gitVars, fileVars>>
           /\ \/ pc[p] = "clean" /\ ~ Dirty(job[p].root)
              \/ pc[p] \in {"tracked", "branch", "target"}
<1>. ASSUME NEW step, Goto(p, step) PROVE pc'[p] = step
  BY DEF TypeOK, Goto
<1>1. ~ Exit(p)
  BY ExitUntouched
<1>2. ~ MakeMatter(p) /\ ~ FillMatter(p) /\ ~ Rollback(p)
  BY <1>1 DEF MakeMatter, FillMatter, Rollback
<1>3. ~ RecordBranch(p) /\ ~ SwitchBranch(p) /\ ~ AddWorktree(p)
  BY <1>1 DEF RecordBranch, SwitchBranch, AddWorktree, Refuse
<1>4. ~ OpenNote(p) /\ ~ WriteTemplate(p) /\ ~ ReadLog(p) /\ ~ OpenLog(p) /\ ~ WriteLog(p)
  BY DEF OpenNote, WriteTemplate, ReadLog, OpenLog, WriteLog
<1>5. ~ ReadIndex(p) /\ ~ OpenIndex(p) /\ ~ WriteIndex(p)
  BY <1>1 DEF ReadIndex, OpenIndex, WriteIndex
<1>6. ~ ReadCurrent(p) /\ ~ OpenCurrent(p) /\ ~ WriteCurrent(p)
  BY <1>1 DEF ReadCurrent, OpenCurrent, WriteCurrent
<1>7. CheckClean(p) \/ CheckTracked(p) \/ CheckBranch(p) \/ CheckTarget(p)
  BY <1>2, <1>3, <1>4, <1>5, <1>6 DEF Step
<1>. QED BY <1>1, <1>7 DEF CheckClean, CheckTracked, CheckBranch, CheckTarget, Refuse, Pass

LEMMA CleanStep ==
    ASSUME TypeOK, MatterInv, HeadInv, CleanInv, NEW p \in Proc, Step(p)
    PROVE  CleanInv'
<1>1. pc[p] # "idle" /\ OthersUntouched(p) /\ (Exit(p) \/ SameJob(p))
  BY StepJob, StepUntouched
<1>2. CleanOf(p)'
  <2>1. CASE Exit(p)
    BY <2>1, ExitUntouched DEF CleanOf
  <2>2. CASE SameJob(p)
    <3>1. CleanOf(p)
      BY CleanParts
    <3>2. CASE pc'[p] \in {"tracked", "branch", "target", "addWorktree"}
      <4>1. UNCHANGED <<job, gitVars, fileVars>>
        BY <3>2, ChecksOnly
      <4>2. Tree(job[p].root)' = Tree(job[p].root) /\ UNCHANGED <<head, committed>>
        BY <4>1 DEF Tree, gitVars, fileVars
      <4>3. job[p].cmd = "start" /\ job[p].option = "worktree" =>
                Tree(job[p].root) = committed[head[job[p].root]]
        BY <1>1, <3>1, <3>2, ChecksOnly DEF CleanOf, Dirty
      <4>. QED BY <1>1, <3>1, <4>1, <4>2, <4>3 DEF CleanOf
    <3>3. CASE pc'[p] \notin {"tracked", "branch", "target", "addWorktree"}
      BY <1>1, <2>2, <3>1, <3>3 DEF CleanOf, SameJob
    <3>. QED BY <3>2, <3>3
  <2>. QED BY <1>1, <2>1, <2>2
<1>3. ASSUME NEW q \in Proc, q # p PROVE CleanOf(q)'
  <2>1. CleanOf(q) /\ job[q].root \in Worktree /\ pc'[q] = pc[q] /\ job'[q] = job[q]
    BY <1>1, <1>3, CleanParts DEF OthersUntouched, TypeOK, Job
  <2>2. CASE pc[q] # "idle"
    <3>1. committed'[head'[job[q].root]] = committed[head[job[q].root]]
      BY <1>3, <2>2, OthersHead
    <3>2. job[q].root # job[p].work
      BY <1>1, <1>3, <2>2, OthersApart
    <3>3. Tree(job[q].root)' = Tree(job[q].root)
      BY <2>1, <3>2, OnlyOwnWork, OnlyOwnFiles DEF Tree
    <3>. QED BY <2>1, <3>1, <3>3 DEF CleanOf
  <2>3. CASE pc[q] = "idle"
    BY <2>1, <2>3 DEF CleanOf
  <2>. QED BY <2>2, <2>3
<1>. QED BY <1>2, <1>3, CleanNext

LEMMA CleanOther ==
    ASSUME Exclusive, TypeOK, MatterInv, HeadInv, CleanInv,
           UNCHANGED <<present, head, fileVars, job>>,
           \A p \in Proc : pc'[p] = pc[p] \/ pc'[p] = "idle" \/ job[p].cmd = "new",
           \/ UNCHANGED committed
           \/ UNCHANGED pc /\ \E w \in Worktree : Commit(w)
    PROVE  CleanInv'
<1>. SUFFICES ASSUME NEW p \in Proc PROVE CleanOf(p)'
  BY CleanNext
<1>1. CleanOf(p) /\ Tree(job[p].root)' = Tree(job[p].root)
  BY CleanParts DEF Tree, fileVars
<1>2. CASE UNCHANGED committed
  BY <1>1, <1>2 DEF CleanOf
<1>3. ASSUME UNCHANGED pc, NEW w \in Worktree, Commit(w), pc[p] # "idle" PROVE CleanOf(p)'
  <2>1. w \in present /\ Quiet(w) /\ committed' = [committed EXCEPT ![head[w]] = Tree(w)]
    BY <1>3 DEF Commit
  <2>2. job[p].root \in present /\ job[p].root \in Worktree /\ job[p].root # w
    BY <1>3, <2>1 DEF MatterInv, MakerInv, WorkPresent, TypeOK, Job, Quiet, Uses
  <2>3. head[job[p].root] # head[w]
    BY <2>1, <2>2 DEF HeadInv, HeadsDiffer
  <2>4. committed'[head[job[p].root]] = committed[head[job[p].root]]
    BY <2>1, <2>2, <2>3 DEF TypeOK
  <2>. QED BY <1>1, <1>3, <2>4 DEF CleanOf
<1>. QED BY <1>2, <1>3 DEF CleanOf

LEMMA CleanInvariant == ASSUME Exclusive PROVE Spec => []CleanInv
<1>1. ASSUME TypeOK, MatterInv, HeadInv, CleanInv, [Next]_vars PROVE CleanInv'
  <2>1. ASSUME NEW p \in Proc, Launches(p) PROVE CleanInv'
    <3>1. PICK j \in Job, first \in Steps : Launch(p, j, first) /\ Launched(j, first)
      BY <1>1, <2>1, LaunchesShape
    <3>2. /\ pc' = [pc EXCEPT ![p] = first] /\ job' = [job EXCEPT ![p] = j]
          /\ UNCHANGED <<gitVars, fileVars>>
      BY <3>1 DEF Launch
    <3>3. pc'[p] = first /\ job'[p] = j
          /\ \A q \in Proc : q # p => pc'[q] = pc[q] /\ job'[q] = job[q]
      BY <1>1, <3>2 DEF TypeOK
    <3>4. CleanOf(p)'
      BY <3>1, <3>3 DEF CleanOf, Launched
    <3>5. ASSUME NEW q \in Proc, q # p PROVE CleanOf(q)'
      BY <1>1, <3>2, <3>3, <3>5, CleanParts DEF CleanOf, Tree, gitVars, fileVars
    <3>. QED BY <3>4, <3>5, CleanNext
  <2>2. CASE \E p \in Proc : Step(p)
    BY <1>1, <2>2, CleanStep
  <2>3. ASSUME NEW p \in Proc, Abort(p) PROVE CleanInv'
    <3>1. Exit(p) /\ UNCHANGED <<gitVars, fileVars>>
      BY <2>3 DEF Abort
    <3>2. OthersUntouched(p) /\ pc'[p] = "idle"
      BY <1>1, <3>1, ExitUntouched
    <3>3. ASSUME NEW q \in Proc PROVE CleanOf(q)'
      BY <1>1, <3>1, <3>2, CleanParts DEF CleanOf, OthersUntouched, Tree, gitVars, fileVars
    <3>. QED BY <3>3, CleanNext
  <2>4. ASSUME NEW p \in Proc, MatterOsError(p) PROVE CleanInv'
    <3>1. job[p].cmd = "new" /\ Goto(p, "rollback") /\ UNCHANGED <<gitVars, fileVars, job>>
      BY <2>4 DEF MatterOsError
    <3>2. \A q \in Proc : pc'[q] = pc[q] \/ job[q].cmd = "new"
      BY <1>1, <3>1 DEF TypeOK, Goto
    <3>. QED BY <1>1, <3>1, <3>2, CleanOther DEF gitVars
  <2>5. ASSUME NEW w \in Worktree, Commit(w) PROVE CleanInv'
    BY <1>1, <2>5, CleanOther DEF Commit
  <2>6. CASE Tick \/ UNCHANGED vars
    <3>1. UNCHANGED <<gitVars, fileVars, pc, job>>
      BY <2>6 DEF Tick, vars
    <3>. QED BY <1>1, <3>1, CleanOther DEF gitVars
  <2>. QED BY <1>1, <2>1, <2>2, <2>3, <2>4, <2>5, <2>6 DEF Next
<1>2. Init => CleanInv
  BY DEF Init, CleanInv
<1>. QED BY <1>1, <1>2, TypeCorrect, MatterInvInvariant, HeadInvInvariant, PTL DEF Spec

(* With one script at a time in a worktree, git worktree add copies all    *)
(* that the worktree it was started in has, whatever other worktrees do.   *)
THEOREM NewWorktreesComplete == ASSUME Exclusive PROVE Spec => NewWorktreeComplete
<1>. DEFINE Copies(w, v) ==
               /\ head'[v] = head[v]
               /\ \E p \in Proc : job[p].root = v /\ job[p].work = w /\ pc[p] = "addWorktree"
               /\ index'[w] = index[v] /\ current'[w] = current[v]
               /\ logs'[w] = logs[v] /\ matters'[w] = matters[v]
<1>1. ASSUME TypeOK, MatterInv, CleanInv, [Next]_vars,
             NEW w \in present' \ present
      PROVE  \E v \in present : Copies(w, v)
  <2>1. PICK p \in Proc : Step(p)
    <3>1. ASSUME NEW p \in Proc, Launches(p) PROVE present' = present
      BY <1>1, <3>1, LaunchesFrame DEF gitVars
    <3>2. ASSUME NEW p \in Proc, Abort(p) \/ MatterOsError(p) PROVE present' = present
      BY <3>2 DEF Abort, MatterOsError, gitVars
    <3>3. ASSUME (\E v \in Worktree : Commit(v)) \/ Tick \/ UNCHANGED vars
          PROVE  present' = present
      BY <3>3 DEF Commit, Tick, vars, gitVars
    <3>. QED BY <1>1, <3>1, <3>2, <3>3 DEF Next
  <2>2. AddWorktree(p) /\ ~ Refuse(p)
    <3>1. SwitchBranch(p) => present' = present
      BY DEF SwitchBranch, Refuse, gitVars
    <3>2. Refuse(p) => present' = present
      BY DEF Refuse, gitVars
    <3>. QED BY <1>1, <2>1, <3>1, <3>2, StepGitFrame DEF gitVars
  <2>. PICK v \in Worktree, t \in Worktree : v = job[p].root /\ t = job[p].work
    BY <1>1 DEF TypeOK, Job
  <2>. DEFINE tree == committed[head[v]]
  <2>3. /\ pc[p] = "addWorktree" /\ t \notin present /\ present' = present \cup {t}
        /\ head' = [head EXCEPT ![t] = job[p].branch]
        /\ index' = [index EXCEPT ![t] = tree.index]
        /\ current' = [current EXCEPT ![t] = tree.current]
        /\ logs' = [logs EXCEPT ![t] = tree.logs]
        /\ matters' = [matters EXCEPT ![t] = tree.matters]
    BY <2>2 DEF AddWorktree
  <2>4. w = t /\ v \in present /\ v # t
    BY <1>1, <2>3 DEF MatterInv, MakerInv, WorkPresent
  <2>5. /\ head'[v] = head[v] /\ index'[t] = tree.index /\ current'[t] = tree.current
        /\ logs'[t] = tree.logs /\ matters'[t] = tree.matters
    BY <1>1, <2>3, <2>4 DEF TypeOK
  <2>6. job[p].cmd = "start" /\ job[p].option = "worktree"
    BY <1>1, <2>3 DEF MatterInv, MakerInv, WorkPresent
  <2>7. Tree(v) = tree
    BY <1>1, <2>3, <2>6, CleanParts DEF CleanOf
  <2>8. /\ tree.index = index[v] /\ tree.current = current[v] /\ tree.logs = logs[v]
        /\ tree.matters = matters[v]
    BY <2>7 DEF Tree
  <2>. HIDE DEF tree
  <2>9. Copies(w, v)
    BY <2>3, <2>4, <2>5, <2>8
  <2>. QED BY <2>4, <2>9
<1>2. ASSUME TypeOK, MatterInv, CleanInv, [Next]_vars
      PROVE  [\A w \in present' \ present : \E v \in present : Copies(w, v)]_vars
  BY <1>1, <1>2
<1>. QED BY <1>2, TypeCorrect, MatterInvInvariant, CleanInvariant, PTL DEF Spec, NewWorktreeComplete

-----------------------------------------------------------------------------
(* Sessions on branches of their own.                                      *)

(* What the scripts start with.                                            *)
LEMMA LaunchesOwn ==
    ASSUME TypeOK, NEW p \in Proc, Launches(p)
    PROVE  \E j \in Job, first \in Steps :
              /\ Launch(p, j, first)
              /\ \/ j.cmd # "start" /\ first \in {"mkdir", "logRead"}
                 \/ /\ j.cmd = "start" /\ j.branch = BranchOf(j.id)
                    /\ first \in {"clean", "currentBranch"}
                    /\ first = "currentBranch" => j.option = "plain"
<1>. DEFINE Goal == \E j \in Job, first \in Steps :
              /\ Launch(p, j, first)
              /\ \/ j.cmd # "start" /\ first \in {"mkdir", "logRead"}
                 \/ /\ j.cmd = "start" /\ j.branch = BranchOf(j.id)
                    /\ first \in {"clean", "currentBranch"}
                    /\ first = "currentBranch" => j.option = "plain"
<1>1. PICK w \in Worktree :
         \/ \E m \in Matter, o \in MatterOptions : NewMatter(p, w, m, o)
         \/ \E m \in Matter, t \in Worktree, slug \in Slug, o \in StartOptions :
               StartSession(p, w, t, slug, m, o)
         \/ \E id \in SessionId, o \in FinishOptions : FinishSession(p, w, id, o)
  BY DEF Launches
<1>2. {"mkdir", "currentBranch", "clean", "logRead"} \subseteq Steps
  BY DEF Steps, MatterSteps, GitSteps, NoteSteps
<1>3. ASSUME NEW m \in Matter, NEW o \in MatterOptions, NewMatter(p, w, m, o) PROVE Goal
  <2>. DEFINE j == [NoJob EXCEPT !.cmd = "new", !.option = o, !.root = w, !.work = w,
                                 !.matter = m]
  <2>1. Launch(p, j, "mkdir")
    BY <1>3 DEF NewMatter
  <2>2. j \in Job /\ j.cmd = "new"
    BY LaunchedJob, NoJobType DEF Job
  <2>. HIDE DEF j
  <2>. QED BY <1>2, <2>1, <2>2
<1>4. ASSUME NEW m \in Matter, NEW t \in Worktree, NEW slug \in Slug, NEW o \in StartOptions,
             StartSession(p, w, t, slug, m, o)
      PROVE  Goal
  <2>. DEFINE j == [NoJob EXCEPT !.cmd = "start", !.option = o, !.root = w, !.work = t,
                                 !.matter = m, !.id = [at |-> clock, slug |-> slug],
                                 !.branch = SessionBranch(clock, slug)]
              first == IF o = "plain" THEN "currentBranch" ELSE "clean"
  <2>1. Launch(p, j, first)
    BY <1>4 DEF StartSession
  <2>2. [at |-> clock, slug |-> slug] \in SessionId /\ SessionBranch(clock, slug) \in Branch
    BY FilesAssumption DEF TypeOK, SessionId, SessionBranch, Branch
  <2>3. j \in Job
    BY <2>2, LaunchedJob
  <2>4. /\ j.cmd = "start" /\ j.option = o /\ j.id = [at |-> clock, slug |-> slug]
        /\ j.branch = SessionBranch(clock, slug)
    BY NoJobType DEF Job
  <2>. HIDE DEF j
  <2>5. j.branch = BranchOf(j.id)
    BY <2>4 DEF BranchOf
  <2>. QED BY <1>2, <2>1, <2>3, <2>4, <2>5
<1>5. ASSUME NEW id \in SessionId, NEW o \in FinishOptions, FinishSession(p, w, id, o)
      PROVE  Goal
  <2>. DEFINE j == [NoJob EXCEPT !.cmd = "finish", !.option = o, !.root = w, !.work = w,
                                 !.id = id]
  <2>1. Launch(p, j, "logRead")
    BY <1>5 DEF FinishSession
  <2>2. j \in Job /\ j.cmd = "finish"
    BY LaunchedJob, NoJobType DEF Job
  <2>. HIDE DEF j
  <2>. QED BY <1>2, <2>1, <2>2
<1>. QED BY <1>1, <1>3, <1>4, <1>5

(* A script keeps its branch, but for the one that records what is checked *)
(* out.                                                                    *)
LEMMA StepBranch ==
    ASSUME TypeOK, NEW p \in Proc, Step(p), pc[p] # "currentBranch"
    PROVE  Exit(p) \/ (SameJob(p) /\ job'[p].branch = job[p].branch)
<1>1. pc[p] # "idle" /\ (Exit(p) \/ SameJob(p))
  BY StepJob
<1>2. CASE ReadLog(p)
  <2>. DEFINE ids == HeaderIds(logs[job[p].work][job[p].id], job[p].id)
  <2>1. job'[p] = job[p] \/ job'[p] = WithIds(job[p], ids)
    BY <1>2 DEF TypeOK, ReadLog
  <2>2. job[p] \in Job /\ ids \in SUBSET SessionId
    BY DEF TypeOK, Job, HeaderIds
  <2>. HIDE DEF ids
  <2>3. WithIds(job[p], ids).branch = job[p].branch
    BY <2>2 DEF WithIds, Job
  <2>. QED BY <1>1, <2>1, <2>3
<1>3. CASE ~ ReadLog(p)
  <2>1. Exit(p) \/ job' = job
    BY <1>3 DEF Step, MakeMatter, FillMatter, Rollback, CheckClean, CheckTracked, CheckBranch,
         CheckTarget, Pass, Refuse, SwitchBranch, AddWorktree, RecordBranch, OpenNote,
         WriteTemplate, OpenLog, WriteLog, ReadIndex, OpenIndex, WriteIndex, ReadCurrent,
         OpenCurrent, WriteCurrent
  <2>. QED BY <1>1, <2>1
<1>. QED BY <1>2, <1>3


(* The step that makes the session's branch. *)
Makes(p) == (SwitchBranch(p) \/ AddWorktree(p)) /\ ~ Refuse(p)

LEMMA MakesBranch ==
    ASSUME TypeOK, NEW p \in Proc, Makes(p)
    PROVE  /\ job[p].branch \notin branches /\ branches' = branches \cup {job[p].branch}
           /\ pc[p] \in GitSteps /\ pc'[p] = "noteOpen"
           /\ job' = job /\ textVars' = textVars
BY DEF TypeOK, Makes, SwitchBranch, AddWorktree, Goto, GitSteps

LEMMA MakesNoBranch ==
    ASSUME NEW p \in Proc, Step(p), ~ Makes(p)
    PROVE  branches' = branches
<1>1. CASE Refuse(p)
  BY <1>1 DEF Refuse, gitVars
<1>2. CASE UNCHANGED gitVars
  BY <1>2 DEF gitVars
<1>. QED BY <1>1, <1>2, StepGitFrame DEF Makes

(* What a step can put into the files of a worktree: what they list, the   *)
(* text the script holds, or what is committed.                            *)
LEMMA FilesOfStep ==
    ASSUME TypeOK, NEW p \in Proc, Step(p), NEW w \in Worktree, NEW e, e \in Listed(w)'
    PROVE  e \in Listed(w) \/ ScriptRecords(p, e) \/ TreeRecords(e)
<1>1. CASE index'[w] = index[w] /\ current'[w] = current[w]
  BY <1>1 DEF Listed, Sessions
<1>2. CASE w # job[p].work
  BY <1>1, <1>2, OnlyOwnFiles
<1>. SUFFICES ASSUME w = job[p].work, ~ (index'[w] = index[w] /\ current'[w] = current[w])
              PROVE  e \in Listed(w) \/ ScriptRecords(p, e) \/ TreeRecords(e)
  BY <1>1, <1>2
<1>3. OpenIndex(p) \/ WriteIndex(p) \/ OpenCurrent(p) \/ WriteCurrent(p) \/ AddWorktree(p)
  <2>1. CASE MakeMatter(p) \/ FillMatter(p) \/ Rollback(p)
    BY <2>1 DEF MakeMatter, FillMatter, Rollback
  <2>2. CASE CheckClean(p) \/ CheckTracked(p) \/ CheckBranch(p) \/ CheckTarget(p) \/ RecordBranch(p)
    BY <2>2 DEF CheckClean, CheckTracked, CheckBranch, CheckTarget, RecordBranch, Pass, Refuse, fileVars
  <2>3. CASE SwitchBranch(p)
    BY <2>3 DEF SwitchBranch, Refuse, fileVars
  <2>4. CASE OpenNote(p) \/ WriteTemplate(p) \/ ReadLog(p) \/ OpenLog(p) \/ WriteLog(p)
    BY <2>4 DEF OpenNote, WriteTemplate, ReadLog, OpenLog, WriteLog, fileVars
  <2>5. CASE ReadIndex(p) \/ ReadCurrent(p)
    BY <2>5 DEF ReadIndex, ReadCurrent, fileVars
  <2>. QED BY <2>1, <2>2, <2>3, <2>4, <2>5 DEF Step
<1>4. CASE OpenIndex(p) \/ WriteIndex(p)
  <2>1. index'[w] = EmptyIndex \/ index'[w] = indexText[p]
    BY <1>4 DEF TypeOK, OpenIndex, WriteIndex
  <2>2. current'[w] = current[w]
    BY <1>4 DEF OpenIndex, WriteIndex
  <2>. QED BY <2>1, <2>2, NothingListed DEF Listed, Sessions, ScriptRecords
<1>5. CASE OpenCurrent(p) \/ WriteCurrent(p)
  <2>1. current'[w] = EmptyCurrent \/ current'[w] = currentText[p]
    BY <1>5 DEF TypeOK, OpenCurrent, WriteCurrent
  <2>2. index'[w] = index[w]
    BY <1>5 DEF OpenCurrent, WriteCurrent
  <2>. QED BY <2>1, <2>2, NothingListed DEF Listed, Sessions, ScriptRecords
<1>6. CASE AddWorktree(p)
  <2>. DEFINE b == head[job[p].root]
  <2>1. b \in Branch
    BY DEF TypeOK, Job
  <2>2. index'[w] = committed[b].index /\ current'[w] = committed[b].current
    BY <1>6 DEF TypeOK, AddWorktree, Refuse, fileVars
  <2>3. e \in Sessions(committed[b].index, committed[b].current)
    BY <2>2 DEF Listed
  <2>. QED BY <2>1, <2>3 DEF TreeRecords
<1>. QED BY <1>3, <1>4, <1>5, <1>6

LEMMA TreesKeptOfStep ==
    ASSUME TypeOK, NEW p \in Proc, Step(p), NEW e, TreeRecords(e)'
    PROVE  TreeRecords(e)
<1>1. PICK b \in Branch : e \in Sessions(committed'[b].index, committed'[b].current)
  BY DEF TreeRecords
<1>2. head[job[p].root] \in Branch
  BY DEF TypeOK, Job
<1>3. PICK c \in Branch : committed'[b] = committed[c]
  BY <1>1, <1>2, TreesOfStep DEF TypeOK, Branched
<1>. QED BY <1>1, <1>3 DEF TreeRecords

(* A session is on record from the step that makes its branch.             *)
LEMMA OnwardOfStep ==
    ASSUME TypeOK, NEW p \in Proc, Step(p), pc[p] # "currentBranch", ~ Exit(p), ~ Makes(p)
    PROVE  /\ pc[p] \in GitSteps => pc'[p] \in GitSteps
           /\ pc'[p] \notin {"currentBranch", "noteOpen"}
           /\ pc'[p] = "noteTemplate" => pc[p] = "noteOpen"
           /\ pc'[p] \in GitSteps => pc[p] \in GitSteps
<1>. ASSUME NEW step, Goto(p, step) PROVE pc'[p] = step
  BY DEF TypeOK, Goto
<1>1. ~ Refuse(p) /\ ~ SwitchBranch(p) /\ ~ AddWorktree(p) /\ ~ RecordBranch(p)
  BY DEF Refuse, Makes, RecordBranch
<1>2. CASE CheckClean(p) \/ CheckTracked(p) \/ CheckBranch(p) \/ CheckTarget(p)
  <2>1. pc[p] \in GitSteps
    BY <1>2 DEF CheckClean, CheckTracked, CheckBranch, CheckTarget, GitSteps
  <2>2. PICK step \in {"tracked", "branch", "target", "switch", "addWorktree"} : Pass(p, step)
    BY <1>1, <1>2 DEF CheckClean, CheckTracked, CheckBranch, CheckTarget
  <2>. QED BY <2>1, <2>2 DEF Pass, GitSteps
<1>3. CASE MakeMatter(p) \/ FillMatter(p) \/ Rollback(p)
  BY <1>3 DEF MakeMatter, FillMatter, Rollback, GitSteps
<1>4. CASE OpenNote(p) \/ WriteTemplate(p) \/ ReadLog(p) \/ OpenLog(p) \/ WriteLog(p)
  BY <1>4 DEF OpenNote, WriteTemplate, ReadLog, OpenLog, WriteLog, GitSteps
<1>5. CASE ReadIndex(p) \/ OpenIndex(p) \/ WriteIndex(p)
  BY <1>5 DEF ReadIndex, OpenIndex, WriteIndex, GitSteps
<1>6. CASE ReadCurrent(p) \/ OpenCurrent(p) \/ WriteCurrent(p)
  BY <1>6 DEF ReadCurrent, OpenCurrent, WriteCurrent, GitSteps
<1>. QED BY <1>1, <1>2, <1>3, <1>4, <1>5, <1>6 DEF Step

LEMMA StartedOfStep ==
    ASSUME TypeOK, NEW p \in Proc, Step(p), StartsOwn(p), Started(p)'
    PROVE  Started(p) \/ Makes(p)
<1>1. ~ Exit(p)
  BY ExitUntouched DEF Started
<1>2. pc[p] # "currentBranch" /\ pc[p] # "idle" /\ SameJob(p)
  BY <1>1, StepJob DEF StartsOwn
<1>. QED BY <1>1, <1>2, OnwardOfStep DEF Started, SameJob

(* What a script can come to hold: what it has read, and its own session   *)
(* once its branch is made.                                                *)
LEMMA TextsOfStep ==
    ASSUME TypeOK, NEW p \in Proc, Step(p), StartsOwn(p), NEW e, ScriptRecords(p, e)'
    PROVE  FileRecords(e) \/ ScriptRecords(p, e) \/ (Makes(p) /\ e = EntryOf(p))
<1>1. ~ Exit(p)
  <2>1. SUFFICES ASSUME Exit(p) PROVE FALSE
    OBVIOUS
  <2>. QED BY <2>1, ExitUntouched, NothingListed DEF ScriptRecords, Sessions, Started
<1>2. pc[p] # "currentBranch" /\ pc[p] # "idle"
  BY StepJob DEF StartsOwn
<1>3. SameJob(p) /\ EntryOf(p)' = EntryOf(p)
  BY <1>1, <1>2, StepBranch DEF EntryOf, SameJob
<1>4. CASE Started(p)' /\ e = EntryOf(p)'
  <2>1. CASE Makes(p)
    BY <1>3, <1>4, <2>1
  <2>2. CASE ~ Makes(p)
    BY <1>3, <1>4, <2>2, StartedOfStep DEF ScriptRecords
  <2>. QED BY <2>1, <2>2
<1>5. CASE e \in Sessions(indexText'[p], currentText'[p])
  <2>1. CASE indexText'[p] = indexText[p] /\ currentText'[p] = currentText[p]
    BY <1>5, <2>1 DEF ScriptRecords
  <2>2. CASE WriteIndex(p)
    <3>1. indexText'[p] = EmptyIndex /\ currentText'[p] = currentText[p]
      BY <1>1, <2>2 DEF TypeOK, WriteIndex
    <3>. QED BY <1>5, <3>1, NothingListed DEF Sessions, ScriptRecords
  <2>3. CASE ReadIndex(p) \/ ReadCurrent(p)
    <3>1. /\ indexText'[p] = indexText[p] \/ indexText'[p] = NewIndexText(p)
          /\ currentText'[p] = currentText[p] \/ currentText'[p] = NewCurrentText(p)
      BY <2>3 DEF TypeOK, ReadIndex, ReadCurrent
    <3>2. e \in Sessions(indexText[p], currentText[p]) \/ e \in Listed(job[p].work)
          \/ e \in Added(p)
      BY <1>5, <3>1, NewTexts DEF Sessions, Listed
    <3>3. pc[p] \notin GitSteps
      BY <2>3 DEF ReadIndex, ReadCurrent, GitSteps
    <3>4. e \in Added(p) => ScriptRecords(p, e)
      BY <1>2, <3>3 DEF Added, Started, ScriptRecords
    <3>5. job[p].work \in Worktree
      BY DEF TypeOK, Job
    <3>. QED BY <3>2, <3>4, <3>5 DEF ScriptRecords, FileRecords
  <2>4. CASE ~ (WriteIndex(p) \/ ReadIndex(p) \/ ReadCurrent(p))
    <3>1. UNCHANGED <<indexText, currentText>>
      <4>1. CASE MakeMatter(p) \/ FillMatter(p) \/ Rollback(p)
        BY <1>1, <4>1 DEF MakeMatter, FillMatter, Rollback, textVars
      <4>2. CASE CheckClean(p) \/ CheckTracked(p) \/ CheckBranch(p) \/ CheckTarget(p)
        BY <1>1, <4>2 DEF CheckClean, CheckTracked, CheckBranch, CheckTarget, Pass, Refuse, textVars
      <4>3. CASE RecordBranch(p) \/ SwitchBranch(p) \/ AddWorktree(p)
        BY <1>1, <4>3 DEF RecordBranch, SwitchBranch, AddWorktree, Refuse, textVars
      <4>4. CASE OpenNote(p) \/ WriteTemplate(p) \/ ReadLog(p) \/ OpenLog(p) \/ WriteLog(p)
        BY <4>4 DEF OpenNote, WriteTemplate, ReadLog, OpenLog, WriteLog, textVars
      <4>5. CASE OpenIndex(p) \/ OpenCurrent(p) \/ WriteCurrent(p)
        BY <1>1, <4>5 DEF OpenIndex, OpenCurrent, WriteCurrent, textVars
      <4>. QED BY <2>4, <4>1, <4>2, <4>3, <4>4, <4>5 DEF Step
    <3>. QED BY <2>1, <3>1
  <2>. QED BY <2>2, <2>3, <2>4
<1>. QED BY <1>4, <1>5 DEF ScriptRecords

LEMMA RecordsOfStep ==
    ASSUME TypeOK, NEW p \in Proc, Step(p), StartsOwn(p), NEW e, OnRecord(e)'
    PROVE  OnRecord(e) \/ (Makes(p) /\ e = EntryOf(p))
<1>1. CASE FileRecords(e)'
  <2>1. PICK w \in Worktree : e \in Listed(w)'
    BY <1>1 DEF FileRecords
  <2>. QED BY <2>1, FilesOfStep DEF OnRecord, FileRecords
<1>2. CASE TreeRecords(e)'
  BY <1>2, TreesKeptOfStep DEF OnRecord
<1>3. CASE ScriptRecords(p, e)'
  BY <1>3, TextsOfStep DEF OnRecord
<1>4. ASSUME NEW q \in Proc, q # p, ScriptRecords(q, e)' PROVE OnRecord(e)
  <2>1. ScriptRecords(q, e)
    BY <1>4, StepUntouched DEF OthersUntouched, ScriptRecords, Started, EntryOf
  <2>. QED BY <2>1 DEF OnRecord
<1>. QED BY <1>1, <1>2, <1>3, <1>4 DEF OnRecord


(* A note that nobody had is opened by the session it belongs to.          *)
LEMMA NotesOfStep ==
    ASSUME TypeOK, NoteInv, NEW p \in Proc, Step(p), NEW id \in SessionId, HasNote(id)'
    PROVE  HasNote(id) \/ (pc[p] = "noteOpen" /\ id = job[p].id)
<1>0. job[p].work \in Worktree /\ job[p].id \in SessionId /\ head[job[p].root] \in Branch
  BY DEF TypeOK, Job
<1>1. CASE \E b \in Branch : committed'[b].logs[id] # "absent"
  <2>1. PICK b \in Branch : committed'[b].logs[id] # "absent"
    BY <1>1
  <2>2. PICK c \in Branch : committed'[b] = committed[c]
    BY <1>0, <2>1, TreesOfStep DEF TypeOK, Branched
  <2>. QED BY <2>1, <2>2 DEF HasNote
<1>2. ASSUME NEW w \in Worktree, logs'[w][id] # "absent"
      PROVE  HasNote(id) \/ (pc[p] = "noteOpen" /\ id = job[p].id)
  <2>1. CASE logs'[w][id] = logs[w][id]
    BY <1>2, <2>1 DEF HasNote
  <2>2. CASE OpenNote(p) \/ WriteTemplate(p) \/ OpenLog(p) \/ WriteLog(p)
    <3>1. CASE w = job[p].work /\ id = job[p].id
      <4>1. pc[p] \in NoteSteps \ {"logRead"}
        BY <2>2 DEF OpenNote, WriteTemplate, OpenLog, WriteLog, NoteSteps
      <4>2. job[p].cmd # "new"
        BY <4>1 DEF NoteInv, OwnNote
      <4>3. pc[p] # "noteOpen" => logs[w][id] # "absent"
        BY <3>1, <4>1, <4>2 DEF NoteInv, OwnNote, NoteSteps, GitSteps
      <4>. QED BY <1>0, <3>1, <4>3 DEF HasNote
    <3>2. CASE ~ (w = job[p].work /\ id = job[p].id)
      <4>1. PICK note : logs' = [logs EXCEPT ![job[p].work][job[p].id] = note]
        BY <2>2 DEF OpenNote, WriteTemplate, OpenLog, WriteLog, SetLog
      <4>2. logs'[w][id] = logs[w][id]
        BY <1>0, <3>2, <4>1 DEF TypeOK
      <4>. QED BY <2>1, <4>2
    <3>. QED BY <3>1, <3>2
  <2>3. CASE AddWorktree(p) /\ ~ Refuse(p) /\ w = job[p].work
    <3>1. logs'[w] = committed[head[job[p].root]].logs
      BY <1>0, <2>3 DEF TypeOK, AddWorktree
    <3>. QED BY <1>0, <1>2, <3>1 DEF HasNote
  <2>4. CASE AddWorktree(p) /\ (Refuse(p) \/ w # job[p].work)
    <3>1. logs'[w] = logs[w]
      BY <1>0, <2>4 DEF TypeOK, AddWorktree, Refuse, fileVars
    <3>. QED BY <2>1, <3>1
  <2>5. CASE UNCHANGED logs
    BY <2>1, <2>5
  <2>6. \/ UNCHANGED logs \/ AddWorktree(p)
        \/ OpenNote(p) \/ WriteTemplate(p) \/ OpenLog(p) \/ WriteLog(p)
    <3>1. CASE MakeMatter(p) \/ FillMatter(p) \/ Rollback(p)
      BY <3>1 DEF MakeMatter, FillMatter, Rollback
    <3>2. CASE CheckClean(p) \/ CheckTracked(p) \/ CheckBranch(p) \/ CheckTarget(p) \/ RecordBranch(p)
      BY <3>2 DEF CheckClean, CheckTracked, CheckBranch, CheckTarget, RecordBranch, Pass, Refuse, fileVars
    <3>3. CASE SwitchBranch(p) \/ ReadLog(p)
      BY <3>3 DEF SwitchBranch, Refuse, ReadLog, fileVars
    <3>4. CASE ReadIndex(p) \/ OpenIndex(p) \/ WriteIndex(p)
      BY <3>4 DEF ReadIndex, OpenIndex, WriteIndex, fileVars
    <3>5. CASE ReadCurrent(p) \/ OpenCurrent(p) \/ WriteCurrent(p)
      BY <3>5 DEF ReadCurrent, OpenCurrent, WriteCurrent, fileVars
    <3>. QED BY <3>1, <3>2, <3>3, <3>4, <3>5 DEF Step
  <2>. QED BY <2>2, <2>3, <2>4, <2>5, <2>6
<1>. QED BY <1>1, <1>2 DEF HasNote

(* A session past its Git commands is on record: its branch was made.      *)
LEMMA StartedRecorded ==
    ASSUME TypeOK, OwnInv, NEW p \in Proc, Started(p)
    PROVE  job[p].branch \in branches /\ job[p].branch = BranchOf(job[p].id)
<1>1. EntryOf(p) \in Entry /\ EntryOf(p).branch = job[p].branch /\ EntryOf(p).id = job[p].id
  BY DEF TypeOK, Job, EntryOf, Entry
<1>2. OnRecord(EntryOf(p))
  BY DEF OnRecord, ScriptRecords
<1>. QED BY <1>1, <1>2 DEF OwnInv, RecordsOwn

LEMMA OwnInvStep ==
    ASSUME TypeOK, NoteInv, OwnInv, NEW p \in Proc, Step(p)
    PROVE  OwnInv'
<1>0. StartsOwn(p) /\ OthersUntouched(p) /\ pc[p] # "idle" /\ pc[p] # "currentBranch"
  BY StepUntouched, StepJob DEF OwnInv, StartsOwn
<1>1. ASSUME NEW q \in Proc PROVE StartsOwn(q)'
  <2>1. CASE q # p
    BY <1>0, <2>1 DEF OwnInv, StartsOwn, OthersUntouched
  <2>2. CASE q = p /\ Exit(p)
    BY <2>2, ExitUntouched, NoJobType DEF StartsOwn, GitSteps
  <2>3. CASE q = p /\ ~ Exit(p) /\ Makes(p)
    <3>1. pc[p] \in GitSteps /\ pc'[p] = "noteOpen" /\ job' = job
      BY <2>3, MakesBranch
    <3>. QED BY <1>0, <2>3, <3>1 DEF StartsOwn, GitSteps
  <2>4. CASE q = p /\ ~ Exit(p) /\ ~ Makes(p)
    <3>1. SameJob(p) /\ job'[p].branch = job[p].branch
      BY <1>0, <2>4, StepBranch
    <3>2. /\ pc'[p] # "currentBranch"
          /\ pc'[p] \in GitSteps \cup {"noteOpen", "noteTemplate"} =>
                pc[p] \in GitSteps \cup {"noteOpen", "noteTemplate"}
      BY <1>0, <2>4, OnwardOfStep
    <3>. QED BY <1>0, <2>4, <3>1, <3>2 DEF StartsOwn, SameJob
  <2>. QED BY <2>1, <2>2, <2>3, <2>4
<1>2. branches \subseteq branches'
  BY MakesBranch, MakesNoBranch
<1>3. EntryOf(p) \in Entry /\ EntryOf(p).branch = job[p].branch /\ EntryOf(p).id = job[p].id
  BY DEF TypeOK, Job, EntryOf, Entry
<1>4. Makes(p) => /\ job[p].branch \notin branches /\ job[p].branch \in branches'
                  /\ job[p].branch = BranchOf(job[p].id)
  <2>1. SUFFICES ASSUME Makes(p) PROVE job[p].branch = BranchOf(job[p].id)
    BY MakesBranch
  <2>2. pc[p] \in GitSteps
    BY <2>1, MakesBranch
  <2>. QED BY <1>0, <2>2 DEF StartsOwn
<1>5. ASSUME NEW e \in Entry, OnRecord(e)'
      PROVE  e.branch = BranchOf(e.id) /\ e.branch \in branches'
  BY <1>0, <1>2, <1>3, <1>4, <1>5, RecordsOfStep DEF OwnInv, RecordsOwn
<1>6. ASSUME NEW e \in Entry, NEW f \in Entry, OnRecord(e)', OnRecord(f)', e.branch = f.branch
      PROVE  e = f
  <2>1. OnRecord(e) \/ (Makes(p) /\ e = EntryOf(p))
    BY <1>0, <1>6, RecordsOfStep
  <2>2. OnRecord(f) \/ (Makes(p) /\ f = EntryOf(p))
    BY <1>0, <1>6, RecordsOfStep
  <2>. QED BY <1>3, <1>4, <1>6, <2>1, <2>2 DEF OwnInv, RecordsOwn
<1>7. ASSUME NEW q \in Proc, q # p
      PROVE  Started(q)' = Started(q) /\ job'[q] = job[q] /\ pc'[q] = pc[q]
  BY <1>0, <1>7 DEF OthersUntouched, Started
<1>8. Started(p)' => Started(p) \/ Makes(p)
  BY <1>0, StartedOfStep
<1>9. Started(p)' => job'[p].branch = job[p].branch /\ job'[p].id = job[p].id
  <2>1. Started(p)' => ~ Exit(p)
    BY ExitUntouched DEF Started
  <2>. QED BY <1>0, <2>1, StepBranch DEF SameJob
<1>10. ASSUME NEW q \in Proc, NEW r \in Proc, q # r, Started(q)', Started(r)',
              job'[q].branch = job'[r].branch
       PROVE  FALSE
  <2>1. ASSUME NEW s \in Proc, s # p, Started(s)', Started(p)'
        PROVE  job'[s].branch # job'[p].branch
    <3>1. Started(s) /\ job'[s] = job[s] /\ job[s].branch \in branches
      BY <1>7, <2>1, StartedRecorded
    <3>2. Started(p) => job[s].branch # job[p].branch
      BY <2>1, <3>1 DEF OwnInv, StartsApart
    <3>. QED BY <1>4, <1>8, <1>9, <2>1, <3>1, <3>2
  <2>2. CASE q = p \/ r = p
    BY <1>10, <2>1, <2>2
  <2>3. CASE q # p /\ r # p
    BY <1>7, <1>10, <2>3 DEF OwnInv, StartsApart
  <2>. QED BY <2>2, <2>3
<1>11. ASSUME NEW id \in SessionId, HasNote(id)' PROVE BranchOf(id) \in branches'
  <2>1. CASE HasNote(id)
    BY <1>2, <2>1 DEF OwnInv, NotesOwn
  <2>2. CASE pc[p] = "noteOpen" /\ id = job[p].id
    <3>1. Started(p)
      BY <1>0, <2>2 DEF StartsOwn, Started, GitSteps
    <3>. QED BY <1>2, <2>2, <3>1, StartedRecorded
  <2>. QED BY <1>11, <2>1, <2>2, NotesOfStep
<1>12. ASSUME NEW q \in Proc, Started(q)', pc'[q] = "noteOpen",
              NEW id \in SessionId, id = job'[q].id, HasNote(id)'
       PROVE  FALSE
  <2>1. CASE q # p
    <3>1. Started(q) /\ job'[q] = job[q] /\ pc[q] = "noteOpen"
      BY <1>7, <1>12, <2>1
    <3>2. ~ HasNote(job[q].id)
      BY <3>1 DEF OwnInv, NotesOwn
    <3>3. pc[p] = "noteOpen" /\ job[q].id = job[p].id
      BY <1>12, <3>1, <3>2, NotesOfStep
    <3>4. Started(p)
      BY <1>0, <3>3 DEF StartsOwn, Started, GitSteps
    <3>. QED BY <2>1, <3>1, <3>3, <3>4, StartedRecorded DEF OwnInv, StartsApart
  <2>2. CASE q = p
    <3>1. ~ Exit(p)
      BY <1>12, <2>2, ExitUntouched
    <3>2. Makes(p)
      BY <1>0, <1>12, <2>2, <3>1, OnwardOfStep
    <3>3. pc[p] # "noteOpen" /\ job'[p].id = job[p].id
      BY <3>2, MakesBranch DEF GitSteps
    <3>4. id = job[p].id /\ HasNote(id)
      BY <1>12, <2>2, <3>3, NotesOfStep
    <3>. QED BY <1>4, <3>2, <3>4 DEF OwnInv, NotesOwn
  <2>. QED BY <2>1, <2>2
<1>13. RecordsOwn'
  BY <1>5, <1>6 DEF RecordsOwn, BranchOf, SessionBranch
<1>14. StartsApart'
  BY <1>10 DEF StartsApart
<1>15. NotesOwn'
  <2>1. \A q \in Proc : Started(q)' => job'[q].id \in SessionId
    BY TypeOfStep DEF TypeOK, Job
  <2>2. \A q \in Proc : Started(q)' /\ pc'[q] = "noteOpen" => ~ HasNote(job[q].id)'
    BY <1>12, <2>1 DEF HasNote
  <2>. QED BY <1>11, <2>2 DEF NotesOwn, BranchOf, SessionBranch
<1>. QED BY <1>1, <1>13, <1>14, <1>15 DEF OwnInv


(* Steps that make no branch and put nothing new on record.                *)
LEMMA OwnInvKept ==
    ASSUME TypeOK, OwnInv, branches' = branches,
           \A e \in Entry : OnRecord(e)' => OnRecord(e),
           \A id \in SessionId : HasNote(id)' => HasNote(id),
           \A q \in Proc : /\ StartsOwn(q)'
                           /\ Started(q)' => Started(q) /\ pc'[q] = pc[q] /\ job'[q] = job[q]
    PROVE  OwnInv'
<1>1. RecordsOwn'
  BY DEF OwnInv, RecordsOwn, BranchOf, SessionBranch
<1>2. StartsApart'
  BY DEF OwnInv, StartsApart
<1>3. ASSUME NEW q \in Proc, Started(q)', pc'[q] = "noteOpen" PROVE ~ HasNote(job[q].id)'
  <2>1. job'[q] = job[q] /\ job[q].id \in SessionId /\ ~ HasNote(job[q].id)
    BY <1>3 DEF TypeOK, Job, OwnInv, NotesOwn
  <2>2. ASSUME NEW id \in SessionId, id = job[q].id PROVE ~ HasNote(id)'
    BY <2>1, <2>2
  <2>3. ~ HasNote(job[q].id)'
    BY <2>1, <2>2 DEF HasNote
  <2>. QED BY <2>3
<1>4. NotesOwn'
  BY <1>3 DEF OwnInv, NotesOwn, BranchOf, SessionBranch
<1>. QED BY <1>1, <1>2, <1>4 DEF OwnInv

(* What is on record depends on the files, the commits, and the scripts    *)
(* past their Git commands.                                                *)
LEMMA RecordsSame ==
    ASSUME UNCHANGED <<index, current, logs, committed>>,
           \A q \in Proc : /\ Started(q)' => Started(q) /\ EntryOf(q)' = EntryOf(q)
                           /\ \/ UNCHANGED <<indexText, currentText>>
                              \/ indexText'[q] = indexText[q] /\ currentText'[q] = currentText[q]
                              \/ indexText'[q] = EmptyIndex /\ currentText'[q] = EmptyCurrent
    PROVE  /\ \A e \in Entry : OnRecord(e)' => OnRecord(e)
           /\ \A id \in SessionId : HasNote(id)' => HasNote(id)
<1>1. ASSUME NEW q \in Proc, NEW e, ScriptRecords(q, e)' PROVE ScriptRecords(q, e)
  <2>1. CASE Started(q)' /\ e = EntryOf(q)'
    BY <2>1 DEF ScriptRecords
  <2>2. CASE e \in Sessions(indexText'[q], currentText'[q])
    BY <2>2, NothingListed DEF ScriptRecords, Sessions
  <2>. QED BY <1>1, <2>1, <2>2 DEF ScriptRecords
<1>2. ASSUME NEW e \in Entry, OnRecord(e)' PROVE OnRecord(e)
  BY <1>1, <1>2 DEF OnRecord, FileRecords, TreeRecords, Listed
<1>3. ASSUME NEW id \in SessionId, HasNote(id)' PROVE HasNote(id)
  BY <1>3 DEF HasNote
<1>. QED BY <1>2, <1>3

LEMMA OwnInvLaunch ==
    ASSUME TypeOK, OwnInv, OnOwnBranch', NEW p \in Proc, Launches(p)
    PROVE  OwnInv'
<1>1. PICK j \in Job, first \in Steps :
         /\ Launch(p, j, first)
         /\ \/ j.cmd # "start" /\ first \in {"mkdir", "logRead"}
            \/ /\ j.cmd = "start" /\ j.branch = BranchOf(j.id)
               /\ first \in {"clean", "currentBranch"}
               /\ first = "currentBranch" => j.option = "plain"
  BY LaunchesOwn
<1>2. /\ pc' = [pc EXCEPT ![p] = first] /\ job' = [job EXCEPT ![p] = j]
      /\ UNCHANGED <<branches, index, current, logs, committed, indexText, currentText>>
  BY <1>1 DEF Launch, gitVars, fileVars, textVars
<1>3. pc'[p] = first /\ job'[p] = j
  BY <1>2 DEF TypeOK
<1>4. first # "currentBranch"
  <2>1. j.cmd = "start" => j.option # "plain"
    BY <1>1, <1>3 DEF OnOwnBranch
  <2>. QED BY <1>1, <2>1
<1>5. ASSUME NEW q \in Proc, q # p PROVE pc'[q] = pc[q] /\ job'[q] = job[q]
  BY <1>2, <1>5 DEF TypeOK
<1>6. ASSUME NEW q \in Proc PROVE StartsOwn(q)'
  <2>1. CASE q = p
    BY <1>1, <1>3, <1>4, <2>1 DEF StartsOwn, GitSteps, BranchOf, SessionBranch
  <2>2. CASE q # p
    BY <1>5, <2>2 DEF OwnInv, StartsOwn, BranchOf, SessionBranch
  <2>. QED BY <2>1, <2>2
<1>7. ASSUME NEW q \in Proc, Started(q)'
      PROVE  Started(q) /\ pc'[q] = pc[q] /\ job'[q] = job[q] /\ EntryOf(q)' = EntryOf(q)
  <2>1. q # p
    BY <1>1, <1>3, <1>4, <1>7 DEF Started, GitSteps
  <2>. QED BY <1>5, <1>7, <2>1 DEF Started, EntryOf
<1>. QED BY <1>2, <1>6, <1>7, RecordsSame, OwnInvKept

LEMMA OwnInvFault ==
    ASSUME TypeOK, OwnInv, NEW p \in Proc, Abort(p) \/ MatterOsError(p)
    PROVE  OwnInv'
<1>1. UNCHANGED <<branches, index, current, logs, committed>>
  BY DEF Abort, MatterOsError, gitVars, fileVars
<1>2. \/ /\ OthersUntouched(p) /\ pc'[p] = "idle" /\ job'[p] = NoJob
         /\ indexText'[p] = EmptyIndex /\ currentText'[p] = EmptyCurrent
      \/ /\ pc' = [pc EXCEPT ![p] = "rollback"] /\ job[p].cmd = "new"
         /\ UNCHANGED <<job, indexText, currentText>>
  BY ExitUntouched DEF Abort, MatterOsError, Goto, textVars
<1>3. ASSUME NEW q \in Proc, q # p
      PROVE  /\ pc'[q] = pc[q] /\ job'[q] = job[q]
             /\ indexText'[q] = indexText[q] /\ currentText'[q] = currentText[q]
  BY <1>2, <1>3 DEF TypeOK, OthersUntouched
<1>4. /\ pc'[p] \in {"idle", "rollback"} /\ job'[p].cmd = "new"
      /\ \/ indexText'[p] = indexText[p] /\ currentText'[p] = currentText[p]
         \/ indexText'[p] = EmptyIndex /\ currentText'[p] = EmptyCurrent
  BY <1>2, NoJobType DEF TypeOK
<1>5. ASSUME NEW q \in Proc PROVE StartsOwn(q)'
  <2>1. CASE q = p
    BY <1>4, <2>1 DEF StartsOwn, GitSteps
  <2>2. CASE q # p
    BY <1>3, <2>2 DEF OwnInv, StartsOwn, BranchOf, SessionBranch
  <2>. QED BY <2>1, <2>2
<1>6. ASSUME NEW q \in Proc, Started(q)'
      PROVE  Started(q) /\ pc'[q] = pc[q] /\ job'[q] = job[q] /\ EntryOf(q)' = EntryOf(q)
  BY <1>3, <1>4, <1>6 DEF Started, EntryOf
<1>7. ASSUME NEW q \in Proc
      PROVE  \/ indexText'[q] = indexText[q] /\ currentText'[q] = currentText[q]
             \/ indexText'[q] = EmptyIndex /\ currentText'[q] = EmptyCurrent
  BY <1>3, <1>4
<1>. QED BY <1>1, <1>5, <1>6, <1>7, RecordsSame, OwnInvKept

(* A commit records what the worktree lists.                               *)
LEMMA OwnInvCommit ==
    ASSUME TypeOK, OwnInv, NEW w \in Worktree, Commit(w)
    PROVE  OwnInv'
<1>1. /\ committed' = [committed EXCEPT ![head[w]] = Tree(w)]
      /\ UNCHANGED <<branches, index, current, logs, pc, job, indexText, currentText>>
  BY DEF Commit, fileVars, textVars
<1>2. ASSUME NEW b \in Branch PROVE committed'[b] = Tree(w) \/ committed'[b] = committed[b]
  BY <1>1 DEF TypeOK
<1>3. ASSUME NEW e, TreeRecords(e)' PROVE TreeRecords(e) \/ FileRecords(e)
  <2>1. PICK b \in Branch : e \in Sessions(committed'[b].index, committed'[b].current)
    BY <1>3 DEF TreeRecords
  <2>2. CASE committed'[b] = Tree(w)
    BY <2>1, <2>2 DEF Tree, FileRecords, Listed
  <2>3. CASE committed'[b] = committed[b]
    BY <2>1, <2>3 DEF TreeRecords
  <2>. QED BY <1>2, <2>2, <2>3
<1>4. ASSUME NEW e \in Entry, OnRecord(e)' PROVE OnRecord(e)
  BY <1>1, <1>3, <1>4 DEF OnRecord, FileRecords, Listed, ScriptRecords, Started, EntryOf
<1>5. ASSUME NEW id \in SessionId, HasNote(id)' PROVE HasNote(id)
  <2>1. CASE \E v \in Worktree : logs'[v][id] # "absent"
    BY <1>1, <2>1 DEF HasNote
  <2>2. CASE \E b \in Branch : committed'[b].logs[id] # "absent"
    BY <1>2, <2>2 DEF HasNote, Tree
  <2>. QED BY <1>5, <2>1, <2>2 DEF HasNote
<1>6. ASSUME NEW q \in Proc
      PROVE  /\ StartsOwn(q)'
             /\ Started(q)' => Started(q) /\ pc'[q] = pc[q] /\ job'[q] = job[q]
  BY <1>1 DEF OwnInv, StartsOwn, Started, BranchOf, SessionBranch
<1>. QED BY <1>1, <1>4, <1>5, <1>6, OwnInvKept

LEMMA OwnInvInit == Init => OwnInv
<1>. SUFFICES ASSUME Init PROVE OwnInv
  OBVIOUS
<1>1. ASSUME NEW p \in Proc PROVE StartsOwn(p) /\ ~ Started(p)
  BY NoJobType DEF Init, StartsOwn, Started, GitSteps
<1>2. ASSUME NEW e PROVE ~ OnRecord(e)
  <2>1. ~ FileRecords(e)
    BY NothingListed DEF Init, FileRecords, Listed, Sessions
  <2>2. ~ TreeRecords(e)
    BY NothingListed DEF Init, TreeRecords, ShippedTree, Sessions
  <2>3. ASSUME NEW p \in Proc PROVE ~ ScriptRecords(p, e)
    <3>1. indexText[p] = EmptyIndex /\ currentText[p] = EmptyCurrent
      BY DEF Init
    <3>. QED BY <1>1, <3>1, NothingListed DEF ScriptRecords, Sessions
  <2>. QED BY <2>1, <2>2, <2>3 DEF OnRecord
<1>3. ASSUME NEW id \in SessionId PROVE ~ HasNote(id)
  BY DEF Init, HasNote, ShippedTree
<1>. QED BY <1>1, <1>2, <1>3 DEF OwnInv, RecordsOwn, StartsApart, NotesOwn

(* What OwnInv says of the notes and of what the files list.               *)
LEMMA OwnInvApart ==
    ASSUME TypeOK, NoteInv, OwnInv
    PROVE  NoteIsNew /\ SessionsApart
<1>1. ASSUME NEW p \in Proc, pc[p] = "noteOpen", job[p].cmd = "start", NEW w \in Worktree
      PROVE  logs[w][job[p].id] = "absent"
  BY <1>1 DEF OwnInv, NotesOwn, HasNote, Started, GitSteps
<1>2. ASSUME NEW v \in Worktree, NEW e \in Listed(v) PROVE e \in Entry /\ OnRecord(e)
  BY DEF NoteInv, FilesNoted, AllNoted, Noted, OnRecord, FileRecords
<1>3. ASSUME NEW v \in Worktree, NEW w \in Worktree, NEW e \in Listed(v), NEW f \in Listed(w),
             e.id = f.id \/ e.branch = f.branch
      PROVE  e = f
  <2>1. e.branch = f.branch
    BY <1>2, <1>3 DEF OwnInv, RecordsOwn
  <2>. QED BY <1>2, <2>1 DEF OwnInv, RecordsOwn
<1>. QED BY <1>1, <1>3 DEF NoteIsNew, SessionsApart

LEMMA OwnInvInvariant == Spec /\ []OnOwnBranch => []OwnInv
<1>1. ASSUME TypeOK, NoteInv, OwnInv, OnOwnBranch', [Next]_vars PROVE OwnInv'
  <2>1. CASE \E p \in Proc : Launches(p)
    BY <1>1, <2>1, OwnInvLaunch
  <2>2. CASE \E p \in Proc : Step(p)
    BY <1>1, <2>2, OwnInvStep
  <2>3. CASE \E p \in Proc : Abort(p) \/ MatterOsError(p)
    BY <1>1, <2>3, OwnInvFault
  <2>4. CASE \E w \in Worktree : Commit(w)
    BY <1>1, <2>4, OwnInvCommit
  <2>5. CASE Tick \/ UNCHANGED vars
    <3>1. UNCHANGED <<branches, index, current, logs, committed, pc, job, indexText, currentText>>
      BY <2>5 DEF Tick, vars, gitVars, fileVars, textVars
    <3>2. ASSUME NEW q \in Proc
          PROVE  /\ StartsOwn(q)' /\ EntryOf(q)' = EntryOf(q)
                 /\ Started(q)' => Started(q) /\ pc'[q] = pc[q] /\ job'[q] = job[q]
      BY <1>1, <3>1 DEF OwnInv, StartsOwn, Started, EntryOf, BranchOf, SessionBranch
    <3>. QED BY <1>1, <3>1, <3>2, RecordsSame, OwnInvKept
  <2>. QED BY <1>1, <2>1, <2>2, <2>3, <2>4, <2>5 DEF Next
<1>. QED BY <1>1, OwnInvInit, TypeCorrect, NoteInvInvariant, PTL DEF Spec

(* Sessions that are started with a branch of their own never share a      *)
(* branch or a note, in whatever worktrees and however the scripts         *)
(* interleave, and wherever they are killed.                               *)
THEOREM OwnBranchesStayApart == Spec => OwnBranchesApart
<1>. QED BY OwnInvApart, OwnInvInvariant, TypeCorrect, NoteInvInvariant, PTL DEF OwnBranchesApart

(* So each of them has a handoff file of its own.                          *)
THEOREM OwnBranchOwnNote == Spec /\ []OnOwnBranch => []OneNotePerSession
<1>1. ASSUME TypeOK, SessionsApart PROVE OneNotePerSession
  BY <1>1 DEF TypeOK, SessionsApart, OneNotePerSession, Listed, Sessions
<1>. QED BY <1>1, OwnInvApart, OwnInvInvariant, TypeCorrect, NoteInvInvariant, PTL

=============================================================================
