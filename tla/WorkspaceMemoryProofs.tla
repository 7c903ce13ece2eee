------------------------- MODULE WorkspaceMemoryProofs -------------------------
(***************************************************************************)
(* Theorems about WorkspaceMemory, for every set of processes, worktrees,  *)
(* matters and slugs, every memory mode and every bound.                   *)
(***************************************************************************)
EXTENDS WorkspaceMemory, SequenceTheorems, WellFoundedInduction, TLAPS

-----------------------------------------------------------------------------
(* Types of the text functions.                                            *)

(* The session ids that an entry's session belongs to. *)
LEMMA EntryType ==
    ASSUME NEW entry \in Entry
    PROVE  /\ entry.id \in SessionId /\ entry.branch \in Branch /\ entry.matter \in Matter
BY DEF Entry

LEMMA ShippedTyped ==
    /\ ShippedIndex \in IndexText
    /\ EmptyIndex \in IndexText
    /\ ShippedCurrent \in CurrentText
    /\ EmptyCurrent \in CurrentText
BY DEF ShippedIndex, EmptyIndex, IndexText, ShippedCurrent, EmptyCurrent, CurrentText, Section

LEMMA IndexOpsTyped ==
    ASSUME NEW text \in IndexText
    PROVE  /\ \A m \in Matter : UpdateIndex(text, m) \in IndexText
           /\ \A e \in Entry : AddActiveSession(text, e) \in IndexText
           /\ \A ids \in SUBSET SessionId : RemoveActiveSession(text, ids) \in IndexText
BY DEF IndexText, UpdateIndex, AddActiveSession, RemoveActiveSession, Without

LEMMA AppendSectionTyped ==
    ASSUME NEW text \in CurrentText,
           NEW kind \in {"matters", "branches", "handoff", "other"},
           NEW body \in SUBSET (Matter \cup Entry \cup SessionId)
    PROVE  AppendSection(text, kind, body) \in CurrentText
BY AppendProperties DEF AppendSection, CurrentText, Section

(* Rewriting the body of one section keeps every section's kind. *)
LEMMA RewriteTyped ==
    ASSUME NEW text \in CurrentText, NEW i, NEW body,
           i \in DOMAIN text => body \in SUBSET (Matter \cup Entry \cup SessionId)
    PROVE  /\ RewriteSection(text, i, body) \in CurrentText
           /\ DOMAIN RewriteSection(text, i, body) = DOMAIN text
           /\ \A j \in DOMAIN text :
                 RewriteSection(text, i, body)[j]
                   = IF j = i THEN [kind |-> text[i].kind, body |-> body] ELSE text[j]
<1>1. \A j \in DOMAIN text : text[j] \in Section
  BY ElementOfSeq, LenProperties DEF CurrentText
<1>2. CASE i \in DOMAIN text
  <2>1. [kind |-> text[i].kind, body |-> body] \in Section
    BY <1>1, <1>2 DEF Section
  <2>. QED
    BY <2>1, <1>2, ExceptSeq, LenProperties DEF CurrentText, RewriteSection
<1>3. CASE i \notin DOMAIN text
  BY <1>3, LenProperties DEF CurrentText, RewriteSection
<1>. QED BY <1>2, <1>3

LEMMA AddToTyped ==
    ASSUME NEW text \in CurrentText,
           NEW kind \in {"matters", "branches", "handoff", "other"},
           NEW item \in Matter \cup Entry \cup SessionId
    PROVE  AddTo(text, kind, item) \in CurrentText
<1>1. \A j \in DOMAIN text : text[j] \in Section
  BY ElementOfSeq, LenProperties DEF CurrentText
<1>2. \A j \in DOMAIN text : text[j].body \cup {item} \in SUBSET (Matter \cup Entry \cup SessionId)
  BY <1>1 DEF Section
<1>. QED BY <1>2, AppendSectionTyped, RewriteTyped DEF AddTo

LEMMA HandoffTyped ==
    ASSUME NEW text \in CurrentText, NEW ids \in SUBSET SessionId
    PROVE  /\ PruneBranches(text, ids) \in CurrentText
           /\ UpdateCurrentHandoff(text, ids) \in CurrentText
<1>1. \A j \in DOMAIN text : text[j] \in Section
  BY ElementOfSeq, LenProperties DEF CurrentText
<1>2. \A j \in DOMAIN text :
         Without(text[j].body, ids) \in SUBSET (Matter \cup Entry \cup SessionId)
  BY <1>1 DEF Section, Without
<1>3. PruneBranches(text, ids) \in CurrentText
  BY <1>2, RewriteTyped DEF PruneBranches
<1>4. \A t \in CurrentText : ReplaceHandoff(t, ids) \in CurrentText
  BY AppendSectionTyped, RewriteTyped DEF ReplaceHandoff
<1>. QED BY <1>3, <1>4 DEF UpdateCurrentHandoff

-----------------------------------------------------------------------------
(* Type correctness.                                                       *)

LEMMA NoJobType ==
    /\ NoJob \in Job
    /\ NoJob.cmd = "new" /\ NoJob.root = Root /\ NoJob.work = Root
<1>1. PICK s \in Slug, m \in Matter : TRUE
  BY FilesAssumption
<1>. DEFINE j == [cmd |-> "new", option |-> "activate", root |-> Root, work |-> Root,
                  matter |-> m, id |-> [at |-> 0, slug |-> s], branch |-> Main, ids |-> {}]
<1>2. j \in Job
  BY FilesAssumption, MemoryAssumption
     DEF Job, MatterOptions, SessionId, Second, Branch
<1>3. j.cmd = "new" /\ j.root = Root /\ j.work = Root
  OBVIOUS
<1>. HIDE DEF j
<1>. QED BY <1>2, <1>3 DEF NoJob

LEMMA NoteOpsTyped ==
    ASSUME NEW note \in NoteText
    PROVE  /\ ReplaceTemplate(note) \in NoteText
           /\ WriteHandoff(note) \in NoteText
           /\ note # "absent" => ReplaceTemplate(note) # "absent" /\ WriteHandoff(note) # "absent"
BY DEF NoteText, ReplaceTemplate, WriteHandoff

THEOREM TypeInit == Init => TypeOK
<1>. SUFFICES ASSUME Init PROVE TypeOK
  OBVIOUS
<1>1. Main \in Branch
  BY DEF Branch
<1>2. ShippedTree.logs \in [SessionId -> NoteText] /\ ShippedTree.matters \in [Matter -> MatterState]
  BY DEF ShippedTree, NoteText, MatterState
<1>3. ShippedTree \in TreeType
  BY <1>2, ShippedTyped DEF ShippedTree, TreeType, NoteText, MatterState
<1>4. clock \in Second
  BY FilesAssumption DEF Init, Second
<1>. QED
  BY <1>1, <1>2, <1>3, <1>4, ShippedTyped, NoJobType, MemoryAssumption
     DEF Init, TypeOK, NoteText

(* The step names, options and constants of the types are what they are. *)
LEMMA TypedSets ==
    /\ \A step \in {"mkdir", "fill", "rollback", "clean", "tracked", "branch", "target",
                     "switch", "addWorktree", "currentBranch", "noteOpen", "noteTemplate",
                     "logRead", "logOpen", "logWrite", "indexRead", "indexOpen",
                     "indexWrite", "currentRead", "currentOpen", "currentWrite", "idle"} :
          step \in Steps \cup {"idle"}
    /\ "absent" \in NoteText
    /\ Main \in Branch
BY DEF Steps, MatterSteps, GitSteps, NoteSteps, IndexSteps, CurrentSteps, NoteText, Branch

LEMMA StepNames ==
    \A step \in {"tracked", "branch", "target", "switch", "addWorktree"} : step \in Steps
BY DEF Steps, GitSteps

LEMMA JobFields ==
    ASSUME NEW j \in Job
    PROVE  /\ \A b \in Branch : /\ WithBranch(j, b) \in Job
                               /\ WithBranch(j, b).cmd = j.cmd
                               /\ WithBranch(j, b).option = j.option
                               /\ WithBranch(j, b).work = j.work
                               /\ WithBranch(j, b).root = j.root
                               /\ WithBranch(j, b).id = j.id
                               /\ WithBranch(j, b).matter = j.matter
           /\ \A i \in SUBSET SessionId : /\ WithIds(j, i) \in Job
                                         /\ WithIds(j, i).cmd = j.cmd
                                         /\ WithIds(j, i).option = j.option
                                         /\ WithIds(j, i).work = j.work
                                         /\ WithIds(j, i).root = j.root
                                         /\ WithIds(j, i).id = j.id
                                         /\ WithIds(j, i).matter = j.matter
BY DEF Job, WithBranch, WithIds

LEMMA TypeOfExit ==
    ASSUME TypeOK, NEW p \in Proc, Exit(p)
    PROVE  /\ pc' \in [Proc -> Steps \cup {"idle"}]
           /\ job' \in [Proc -> Job]
           /\ indexText' \in [Proc -> IndexText]
           /\ currentText' \in [Proc -> CurrentText]
           /\ logText' \in [Proc -> NoteText]
BY NoJobType, ShippedTyped, TypedSets DEF TypeOK, Exit

LEMMA TypeOfRefuse ==
    ASSUME TypeOK, NEW p \in Proc, Refuse(p)
    PROVE  TypeOK'
BY TypeOfExit DEF TypeOK, Refuse, gitVars, fileVars

LEMMA TypeOfPass ==
    ASSUME TypeOK, NEW p \in Proc, NEW step \in Steps, Pass(p, step)
    PROVE  TypeOK'
BY DEF TypeOK, Pass, Goto, gitVars, fileVars, textVars

LEMMA TypeOfSetMatter ==
    ASSUME TypeOK, NEW p \in Proc, NEW state \in MatterState, SetMatter(p, state)
    PROVE  matters' \in [Worktree -> [Matter -> MatterState]]
BY DEF TypeOK, SetMatter, Job

LEMMA TypeOfStep ==
    ASSUME TypeOK, NEW p \in Proc, Step(p)
    PROVE  TypeOK'
<1>1. /\ job[p] \in Job
      /\ job[p].root \in Worktree /\ job[p].work \in Worktree
      /\ job[p].matter \in Matter /\ job[p].id \in SessionId
      /\ job[p].branch \in Branch /\ job[p].ids \in SUBSET SessionId
  BY DEF TypeOK, Job
<1>2. EntryOf(p) \in Entry
  BY <1>1 DEF EntryOf, Entry
<1>3. TRUE
  OBVIOUS
<1>4. CASE MakeMatter(p)
  <2>1. matters' \in [Worktree -> [Matter -> MatterState]]
    <3>1. SetMatter(p, "copying") \/ UNCHANGED matters
      BY <1>4 DEF MakeMatter
    <3>2. "copying" \in MatterState
      BY DEF MatterState
    <3>. QED BY <3>1, <3>2, TypeOfSetMatter DEF TypeOK
  <2>2. pc' \in [Proc -> Steps \cup {"idle"}]
    BY <1>4, TypedSets DEF TypeOK, MakeMatter, Goto
  <2>. QED BY <1>4, <2>1, <2>2 DEF TypeOK, MakeMatter, gitVars, textVars
<1>5. CASE FillMatter(p)
  <2>1. matters' \in [Worktree -> [Matter -> MatterState]]
    <3>1. SetMatter(p, "ready") \/ UNCHANGED matters
      BY <1>5 DEF FillMatter
    <3>2. "ready" \in MatterState
      BY DEF MatterState
    <3>. QED BY <3>1, <3>2, TypeOfSetMatter DEF TypeOK
  <2>2. acked' \in [Worktree -> SUBSET Matter]
    BY <1>1, <1>5 DEF TypeOK, FillMatter
  <2>3. /\ pc' \in [Proc -> Steps \cup {"idle"}]
        /\ job' \in [Proc -> Job]
        /\ indexText' \in [Proc -> IndexText]
        /\ currentText' \in [Proc -> CurrentText]
        /\ logText' \in [Proc -> NoteText]
    <3>1. CASE Exit(p)
      BY <3>1, TypeOfExit
    <3>2. CASE UNCHANGED <<job, textVars>> /\ (Goto(p, "indexRead") \/ Goto(p, "rollback"))
      BY <3>2, TypedSets DEF TypeOK, Goto, textVars
    <3>. QED BY <1>5, <3>1, <3>2 DEF FillMatter
  <2>. QED BY <1>5, <2>1, <2>2, <2>3 DEF TypeOK, FillMatter, gitVars
<1>6. CASE Rollback(p)
  BY <1>1, <1>2, <1>3, <1>6, ShippedTyped, NoJobType, TypedSets
     DEF TypeOK, Rollback, Goto, SetMatter, MatterState, Exit, gitVars, fileVars, textVars
<1>7. CASE CheckClean(p)
  BY <1>7, TypeOfRefuse, TypeOfPass, StepNames DEF CheckClean
<1>8. CASE CheckTracked(p)
  BY <1>8, TypeOfRefuse, TypeOfPass, StepNames DEF CheckTracked
<1>9. CASE CheckBranch(p)
  BY <1>1, <1>2, <1>3, <1>9, ShippedTyped, NoJobType, TypedSets
     DEF TypeOK, CheckBranch, Goto, Pass, Refuse, Exit, gitVars, fileVars, textVars
<1>10. CASE CheckTarget(p)
  BY <1>1, <1>2, <1>3, <1>10, ShippedTyped, NoJobType, TypedSets
     DEF TypeOK, CheckTarget, Goto, Pass, Refuse, Exit, gitVars, fileVars, textVars
<1>11. CASE SwitchBranch(p)
  <2>1. CASE Refuse(p)
    BY <2>1, TypeOfRefuse
  <2>2. CASE ~ Refuse(p)
    <3>1. committed' \in [Branch -> TreeType]
      BY <1>1, <1>11, <2>2 DEF TypeOK, SwitchBranch
    <3>2. head' \in [Worktree -> Branch] /\ branches' \subseteq Branch
      BY <1>1, <1>11, <2>2 DEF TypeOK, SwitchBranch
    <3>3. pc' \in [Proc -> Steps \cup {"idle"}]
      BY <1>11, <2>2, TypedSets DEF TypeOK, SwitchBranch, Goto
    <3>. QED BY <1>11, <2>2, <3>1, <3>2, <3>3
             DEF TypeOK, SwitchBranch, fileVars, textVars
  <2>. QED BY <2>1, <2>2
<1>12. CASE AddWorktree(p)
  <2>1. CASE Refuse(p)
    BY <2>1, TypeOfRefuse
  <2>2. CASE ~ Refuse(p)
    <3>. DEFINE tree == committed[head[job[p].root]]
    <3>1. /\ tree \in TreeType
          /\ tree.index \in IndexText /\ tree.current \in CurrentText
          /\ tree.logs \in [SessionId -> NoteText] /\ tree.matters \in [Matter -> MatterState]
      BY <1>1 DEF TypeOK, TreeType
    <3>2. /\ committed' = [committed EXCEPT ![job[p].branch] = tree]
          /\ head' = [head EXCEPT ![job[p].work] = job[p].branch]
          /\ branches' = branches \cup {job[p].branch}
          /\ present' = present \cup {job[p].work}
          /\ index' = [index EXCEPT ![job[p].work] = tree.index]
          /\ current' = [current EXCEPT ![job[p].work] = tree.current]
          /\ logs' = [logs EXCEPT ![job[p].work] = tree.logs]
          /\ matters' = [matters EXCEPT ![job[p].work] = tree.matters]
          /\ pc' = [pc EXCEPT ![p] = "noteOpen"]
          /\ UNCHANGED <<clock, launches, faults, acked, job, textVars>>
      BY <1>12, <2>2 DEF AddWorktree, Goto
    <3>. HIDE DEF tree
    <3>3. committed' \in [Branch -> TreeType] /\ head' \in [Worktree -> Branch]
          /\ branches' \subseteq Branch /\ present' \subseteq Worktree
      BY <1>1, <3>1, <3>2 DEF TypeOK
    <3>4. /\ index' \in [Worktree -> IndexText] /\ current' \in [Worktree -> CurrentText]
          /\ logs' \in [Worktree -> [SessionId -> NoteText]]
          /\ matters' \in [Worktree -> [Matter -> MatterState]]
      BY <1>1, <3>1, <3>2 DEF TypeOK
    <3>5. pc' \in [Proc -> Steps \cup {"idle"}]
      BY <3>2, TypedSets DEF TypeOK
    <3>. QED BY <3>2, <3>3, <3>4, <3>5 DEF TypeOK, textVars
  <2>. QED BY <2>1, <2>2
<1>13. CASE RecordBranch(p)
  <2>1. job' \in [Proc -> Job]
    BY <1>1, <1>13, JobFields DEF TypeOK, RecordBranch
  <2>2. pc' \in [Proc -> Steps \cup {"idle"}]
    BY <1>13, TypedSets DEF TypeOK, RecordBranch, Goto
  <2>. QED BY <1>13, <2>1, <2>2 DEF TypeOK, RecordBranch, gitVars, fileVars, textVars
<1>14. CASE OpenNote(p)
  BY <1>1, <1>2, <1>3, <1>14, ShippedTyped, NoJobType, TypedSets
     DEF TypeOK, OpenNote, Goto, SetLog, NoteText, gitVars, fileVars, textVars
<1>15. CASE WriteTemplate(p)
  BY <1>1, <1>2, <1>3, <1>15, ShippedTyped, NoJobType, TypedSets
     DEF TypeOK, WriteTemplate, Goto, SetLog, NoteText, gitVars, fileVars, textVars
<1>16. CASE ReadLog(p)
  <2>1. logs[job[p].work][job[p].id] \in NoteText
    BY <1>1 DEF TypeOK
  <2>2. logText' \in [Proc -> NoteText]
    BY <1>16, <2>1, NoteOpsTyped DEF TypeOK, ReadLog
  <2>3. HeaderIds(logs[job[p].work][job[p].id], job[p].id) \in SUBSET SessionId
    BY <1>1 DEF HeaderIds
  <2>4. job' \in [Proc -> Job]
    <3>1. CASE UNCHANGED job
      BY <3>1 DEF TypeOK
    <3>2. CASE job' = [job EXCEPT ![p] = WithIds(job[p], HeaderIds(logs[job[p].work][job[p].id], job[p].id))]
      BY <3>2, <1>1, <2>3, JobFields DEF TypeOK
    <3>. QED BY <1>16, <3>1, <3>2 DEF ReadLog
  <2>5. pc' \in [Proc -> Steps \cup {"idle"}]
    BY <1>16, TypedSets DEF TypeOK, ReadLog, Goto
  <2>. QED BY <1>16, <2>2, <2>4, <2>5 DEF TypeOK, ReadLog, gitVars, fileVars
<1>17. CASE OpenLog(p)
  BY <1>1, <1>2, <1>3, <1>17, ShippedTyped, NoJobType, TypedSets
     DEF TypeOK, OpenLog, Goto, SetLog, NoteText, gitVars, fileVars, textVars
<1>18. CASE WriteLog(p)
  BY <1>1, <1>2, <1>3, <1>18, ShippedTyped, NoJobType, TypedSets
     DEF TypeOK, WriteLog, Goto, SetLog, NoteText, gitVars, fileVars, textVars
<1>19. CASE ReadIndex(p)
  <2>1. index[job[p].work] \in IndexText
    BY <1>1 DEF TypeOK
  <2>2. NewIndexText(p) \in IndexText
    BY <1>1, <1>2, <2>1, IndexOpsTyped DEF NewIndexText, Job
  <2>3. indexText' \in [Proc -> IndexText]
    BY <1>19, <2>2 DEF TypeOK, ReadIndex
  <2>4. pc' \in [Proc -> Steps \cup {"idle"}]
    BY <1>19, TypedSets DEF TypeOK, ReadIndex, Goto
  <2>. QED BY <1>19, <2>3, <2>4 DEF TypeOK, ReadIndex, gitVars, fileVars
<1>20. CASE OpenIndex(p)
  BY <1>1, <1>2, <1>3, <1>20, ShippedTyped, NoJobType, TypedSets
     DEF TypeOK, OpenIndex, Goto, gitVars, fileVars, textVars
<1>21. CASE WriteIndex(p)
  <2>1. index' \in [Worktree -> IndexText]
    BY <1>1, <1>21 DEF TypeOK, WriteIndex
  <2>2. /\ pc' \in [Proc -> Steps \cup {"idle"}]
        /\ job' \in [Proc -> Job]
        /\ indexText' \in [Proc -> IndexText]
        /\ currentText' \in [Proc -> CurrentText]
        /\ logText' \in [Proc -> NoteText]
    <3>1. CASE Exit(p)
      BY <3>1, TypeOfExit
    <3>2. CASE ~ Exit(p)
      BY <1>21, <3>2, TypedSets, ShippedTyped DEF TypeOK, WriteIndex, Goto
    <3>. QED BY <3>1, <3>2
  <2>. QED BY <1>21, <2>1, <2>2 DEF TypeOK, WriteIndex, gitVars
<1>22. CASE ReadCurrent(p)
  <2>1. current[job[p].work] \in CurrentText
    BY <1>1 DEF TypeOK
  <2>2. NewCurrentText(p) \in CurrentText
    BY <1>1, <1>2, <2>1, AddToTyped, HandoffTyped
       DEF NewCurrentText, UpdateCurrentMatter, AddCurrentSession, Job
  <2>3. currentText' \in [Proc -> CurrentText]
    BY <1>22, <2>2 DEF TypeOK, ReadCurrent
  <2>4. pc' \in [Proc -> Steps \cup {"idle"}]
    BY <1>22, TypedSets DEF TypeOK, ReadCurrent, Goto
  <2>. QED BY <1>22, <2>3, <2>4 DEF TypeOK, ReadCurrent, gitVars, fileVars
<1>23. CASE OpenCurrent(p)
  BY <1>1, <1>2, <1>3, <1>23, ShippedTyped, NoJobType, TypedSets
     DEF TypeOK, OpenCurrent, Goto, gitVars, fileVars, textVars
<1>24. CASE WriteCurrent(p)
  BY <1>1, <1>2, <1>3, <1>24, ShippedTyped, NoJobType, TypedSets
     DEF TypeOK, WriteCurrent, Goto, Exit, gitVars, fileVars, textVars
<1>. QED
  BY <1>4, <1>5, <1>6, <1>7, <1>8, <1>9, <1>10, <1>11, <1>12, <1>13, <1>14, <1>15, <1>16, <1>17, <1>18, <1>19, <1>20, <1>21, <1>22, <1>23, <1>24 DEF Step

LEMMA TypeOfLaunch ==
    ASSUME TypeOK, NEW p \in Proc, NEW j \in Job, NEW first \in Steps, Launch(p, j, first)
    PROVE  TypeOK'
<1>1. pc' \in [Proc -> Steps \cup {"idle"}]
  BY DEF TypeOK, Launch
<1>. QED BY <1>1 DEF TypeOK, Launch, gitVars, fileVars, textVars

(* The arguments a user may give make a well-typed job. *)
LEMMA LaunchedJob ==
    /\ \A w \in Worktree, m \in Matter, o \in MatterOptions :
          [NoJob EXCEPT !.cmd = "new", !.option = o, !.root = w, !.work = w, !.matter = m] \in Job
    /\ \A w, t \in Worktree, m \in Matter, o \in StartOptions, id \in SessionId, b \in Branch :
          [NoJob EXCEPT !.cmd = "start", !.option = o, !.root = w, !.work = t, !.matter = m,
                        !.id = id, !.branch = b] \in Job
    /\ \A w \in Worktree, id \in SessionId, o \in FinishOptions :
          [NoJob EXCEPT !.cmd = "finish", !.option = o, !.root = w, !.work = w, !.id = id] \in Job
BY NoJobType DEF Job

LEMMA TypeOfLaunches ==
    ASSUME TypeOK, NEW p \in Proc, Launches(p)
    PROVE  TypeOK'
<1>1. PICK w \in Worktree :
         \/ \E m \in Matter, o \in MatterOptions : NewMatter(p, w, m, o)
         \/ \E m \in Matter, t \in Worktree, slug \in Slug, o \in StartOptions :
               StartSession(p, w, t, slug, m, o)
         \/ \E id \in SessionId, o \in FinishOptions : FinishSession(p, w, id, o)
  BY DEF Launches
<1>. {"mkdir", "currentBranch", "clean", "logRead"} \subseteq Steps
  BY DEF Steps, MatterSteps, GitSteps, NoteSteps
<1>2. ASSUME NEW m \in Matter, NEW o \in MatterOptions, NewMatter(p, w, m, o)
      PROVE  TypeOK'
  BY <1>2, LaunchedJob, TypeOfLaunch DEF NewMatter
<1>3. ASSUME NEW m \in Matter, NEW t \in Worktree, NEW slug \in Slug, NEW o \in StartOptions,
             StartSession(p, w, t, slug, m, o)
      PROVE  TypeOK'
  <2>1. [at |-> clock, slug |-> slug] \in SessionId
    BY DEF TypeOK, SessionId
  <2>2. SessionBranch(clock, slug) \in Branch
    BY FilesAssumption DEF TypeOK, SessionBranch, Branch
  <2>. QED BY <1>3, <2>1, <2>2, LaunchedJob, TypeOfLaunch DEF StartSession
<1>4. ASSUME NEW id \in SessionId, NEW o \in FinishOptions, FinishSession(p, w, id, o)
      PROVE  TypeOK'
  BY <1>4, LaunchedJob, TypeOfLaunch DEF FinishSession
<1>. QED BY <1>1, <1>2, <1>3, <1>4

(* The types of all variables are an invariant. *)
THEOREM TypeCorrect == Spec => []TypeOK
<1>1. ASSUME TypeOK, [Next]_vars PROVE TypeOK'
  <2>1. CASE \E p \in Proc : Launches(p)
    BY <2>1, <1>1, TypeOfLaunches
  <2>2. CASE \E p \in Proc : Step(p)
    BY <2>2, <1>1, TypeOfStep
  <2>3. CASE \E p \in Proc : Abort(p)
    BY <2>3, <1>1, TypeOfExit DEF TypeOK, Abort, gitVars, fileVars
  <2>4. CASE \E p \in Proc : MatterOsError(p)
    BY <2>4, <1>1, TypedSets DEF TypeOK, MatterOsError, Goto, gitVars, fileVars, textVars
  <2>5. CASE \E w \in Worktree : Commit(w)
    <3>1. \A w \in Worktree : Tree(w) \in TreeType
      BY <1>1 DEF TypeOK, Tree, TreeType
    <3>. QED BY <3>1, <2>5, <1>1 DEF TypeOK, Commit, fileVars, textVars
  <2>6. CASE Tick
    BY <2>6, <1>1, FilesAssumption DEF TypeOK, Tick, Second, gitVars, fileVars, textVars
  <2>7. CASE UNCHANGED vars
    BY <2>7, <1>1 DEF TypeOK, vars, gitVars, fileVars, textVars
  <2>. QED BY <1>1, <2>1, <2>2, <2>3, <2>4, <2>5, <2>6, <2>7 DEF Next
<1>. QED BY <1>1, TypeInit, PTL DEF Spec

-----------------------------------------------------------------------------
(* What the text functions of CURRENT.md do to the sessions it shows.      *)

(* Min is the least element of a set of positions. *)
LEMMA MinOfPositions ==
    ASSUME NEW S, S \subseteq Nat, S # {}
    PROVE  Min(S) \in S
<1>. DEFINE R == {ss \in Nat \X Nat : ss[1] < ss[2]}
<1>1. IsWellFoundedOn(R, Nat)
  BY NatLessThanWellFounded DEF OpToRel
<1>2. PICK x \in S : \A y \in S : ~ (<<y, x>> \in R)
  <2>. HIDE DEF R
  <2>. QED BY <1>1, WFMin
<1>3. ASSUME NEW y \in S PROVE x =< y
  <2>1. x \in Nat /\ y \in Nat
    OBVIOUS
  <2>2. ~ (y < x)
    <3>1. ~ (<<y, x>> \in R)
      BY <1>2
    <3>2. ASSUME y < x PROVE <<y, x>> \in R
      BY <2>1, <3>2
    <3>. QED BY <3>1, <3>2
  <2>. QED BY <2>1, <2>2
<1>. QED BY <1>3 DEF Min

LEMMA SectionTyped ==
    ASSUME NEW text \in CurrentText, NEW i \in DOMAIN text
    PROVE  text[i] \in Section
BY ElementOfSeq, LenProperties DEF CurrentText

LEMMA SessionsOfAppend ==
    ASSUME NEW text \in CurrentText,
           NEW kind \in {"matters", "branches", "handoff", "other"},
           NEW body \in SUBSET (Matter \cup Entry \cup SessionId)
    PROVE  CurrentSessions(AppendSection(text, kind, body))
             \subseteq CurrentSessions(text) \cup (IF kind = "branches" THEN body ELSE {})
<1>. DEFINE new == [kind |-> kind, body |-> body]
            longer == Append(text, new)
<1>1. new \in Section
  BY DEF Section
<1>2. /\ longer \in Seq(Section) /\ Len(longer) = Len(text) + 1
      /\ \A i \in 1..Len(text) : longer[i] = text[i]
      /\ longer[Len(text) + 1] = new
  BY <1>1, AppendProperties DEF CurrentText
<1>3. /\ DOMAIN longer = 1..(Len(text) + 1) /\ DOMAIN text = 1..Len(text) /\ Len(text) \in Nat
  BY <1>2, LenProperties DEF CurrentText
<1>4. AppendSection(text, kind, body) = longer
  BY DEF AppendSection
<1>. HIDE DEF longer
<1>5. \A i \in DOMAIN longer : longer[i].kind = "branches" =>
         longer[i].body \subseteq CurrentSessions(text) \cup (IF kind = "branches" THEN body ELSE {})
  BY <1>2, <1>3 DEF CurrentSessions, Sections
<1>. QED BY <1>4, <1>5 DEF CurrentSessions, Sections

LEMMA SessionsOfRewrite ==
    ASSUME NEW text \in CurrentText, NEW i \in DOMAIN text,
           NEW body \in SUBSET (Matter \cup Entry \cup SessionId)
    PROVE  CurrentSessions(RewriteSection(text, i, body))
             \subseteq CurrentSessions(text) \cup (IF text[i].kind = "branches" THEN body ELSE {})
<1>. DEFINE longer == RewriteSection(text, i, body)
<1>1. /\ DOMAIN longer = DOMAIN text
      /\ \A j \in DOMAIN text :
            longer[j] = IF j = i THEN [kind |-> text[i].kind, body |-> body] ELSE text[j]
  <2>1. i \in DOMAIN text => body \in SUBSET (Matter \cup Entry \cup SessionId)
    OBVIOUS
  <2>. QED BY <2>1, RewriteTyped
<1>. HIDE DEF longer
<1>2. \A j \in DOMAIN longer : longer[j].kind = "branches" =>
         longer[j].body \subseteq CurrentSessions(text)
                                  \cup (IF text[i].kind = "branches" THEN body ELSE {})
  BY <1>1 DEF CurrentSessions, Sections
<1>. QED BY <1>2 DEF CurrentSessions, Sections, longer

LEMMA SessionsOfAddTo ==
    ASSUME NEW text \in CurrentText,
           NEW kind \in {"matters", "branches", "handoff", "other"},
           NEW item \in Matter \cup Entry \cup SessionId
    PROVE  CurrentSessions(AddTo(text, kind, item))
             \subseteq CurrentSessions(text) \cup (IF kind = "branches" THEN {item} ELSE {})
<1>1. CASE Followed(text, kind) = {}
  BY <1>1, SessionsOfAppend DEF AddTo
<1>2. CASE Followed(text, kind) # {}
  <2>. DEFINE i == Min(Followed(text, kind))
  <2>1. Followed(text, kind) \subseteq Nat
    BY LenProperties DEF Followed, Sections, CurrentText
  <2>2. i \in Followed(text, kind)
    BY <1>2, <2>1, MinOfPositions
  <2>3. i \in DOMAIN text /\ text[i].kind = kind
    BY <2>2 DEF Followed, Sections
  <2>. HIDE DEF i
  <2>4. text[i].body \in SUBSET (Matter \cup Entry \cup SessionId)
    BY <2>3, SectionTyped DEF Section
  <2>5. kind = "branches" => text[i].body \subseteq CurrentSessions(text)
    BY <2>3 DEF CurrentSessions, Sections
  <2>6. AddTo(text, kind, item) = RewriteSection(text, i, text[i].body \cup {item})
    BY <1>2 DEF AddTo, i
  <2>. QED BY <2>3, <2>4, <2>5, <2>6, SessionsOfRewrite
<1>. QED BY <1>1, <1>2

LEMMA SessionsOfHandoff ==
    ASSUME NEW text \in CurrentText, NEW ids \in SUBSET SessionId
    PROVE  CurrentSessions(UpdateCurrentHandoff(text, ids)) \subseteq CurrentSessions(text)
<1>. DEFINE pruned == PruneBranches(text, ids)
<1>0. pruned \in CurrentText
  BY HandoffTyped
<1>1. CurrentSessions(pruned) \subseteq CurrentSessions(text)
  <2>1. CASE Followed(text, "branches") = {}
    BY <2>1 DEF PruneBranches
  <2>2. CASE Followed(text, "branches") # {}
    <3>. DEFINE i == Min(Followed(text, "branches"))
    <3>1. Followed(text, "branches") \subseteq Nat
      BY LenProperties DEF Followed, Sections, CurrentText
    <3>2. i \in Followed(text, "branches")
      BY <2>2, <3>1, MinOfPositions
    <3>3. i \in DOMAIN text /\ text[i].kind = "branches"
      BY <3>2 DEF Followed, Sections
    <3>. HIDE DEF i
    <3>4. text[i].body \in SUBSET (Matter \cup Entry \cup SessionId)
      BY <3>3, SectionTyped DEF Section
    <3>5. Without(text[i].body, ids) \subseteq text[i].body
      BY DEF Without
    <3>6. text[i].body \subseteq CurrentSessions(text)
      BY <3>3 DEF CurrentSessions, Sections
    <3>7. pruned = RewriteSection(text, i, Without(text[i].body, ids))
      BY <2>2 DEF PruneBranches, i
    <3>. QED BY <3>3, <3>4, <3>5, <3>6, <3>7, SessionsOfRewrite
  <2>. QED BY <2>1, <2>2
<1>. HIDE DEF pruned
<1>2. CurrentSessions(ReplaceHandoff(pruned, ids)) \subseteq CurrentSessions(pruned)
  <2>1. CASE Sections(pruned, "handoff") = {}
    BY <1>0, <2>1, SessionsOfAppend DEF ReplaceHandoff
  <2>2. CASE Sections(pruned, "handoff") # {}
    <3>. DEFINE i == Min(Sections(pruned, "handoff"))
    <3>1. Sections(pruned, "handoff") \subseteq Nat
      BY <1>0, LenProperties DEF Sections, CurrentText
    <3>2. i \in Sections(pruned, "handoff")
      BY <2>2, <3>1, MinOfPositions
    <3>3. i \in DOMAIN pruned /\ pruned[i].kind = "handoff"
      BY <3>2 DEF Sections
    <3>. HIDE DEF i
    <3>4. ReplaceHandoff(pruned, ids) = RewriteSection(pruned, i, ids)
      BY <2>2 DEF ReplaceHandoff, i
    <3>. QED BY <1>0, <3>3, <3>4, SessionsOfRewrite
  <2>. QED BY <2>1, <2>2
<1>. QED BY <1>1, <1>2 DEF UpdateCurrentHandoff, pruned

-----------------------------------------------------------------------------
(* While CURRENT.md has one section of branches, and another section after *)
(* it, the text functions change just the sessions they mean to.           *)

(* The one section of branches holds all the sessions. *)
LEMMA BranchesBody ==
    ASSUME NEW text, NEW i, Sections(text, "branches") = {i}
    PROVE  CurrentSessions(text) = text[i].body
BY DEF CurrentSessions

LEMMA OneBranchesAt ==
    ASSUME NEW text \in CurrentText, OneBranches(text)
    PROVE  \E i \in DOMAIN text :
              /\ Sections(text, "branches") = {i} /\ text[i].kind = "branches"
              /\ Followed(text, "branches") = {i} /\ Min(Followed(text, "branches")) = i
<1>1. PICK i \in DOMAIN text : Sections(text, "branches") = {i} /\ i < Len(text)
  BY DEF OneBranches
<1>2. text[i].kind = "branches"
  BY <1>1 DEF Sections
<1>3. Followed(text, "branches") = {i}
  BY <1>1 DEF Followed
<1>4. Followed(text, "branches") \subseteq Nat
  BY LenProperties DEF Followed, Sections, CurrentText
<1>5. Min(Followed(text, "branches")) \in Followed(text, "branches")
  BY <1>3, <1>4, MinOfPositions
<1>. QED BY <1>1, <1>2, <1>3, <1>5

LEMMA AppendKeepsBranches ==
    ASSUME NEW text \in CurrentText, OneBranches(text),
           NEW kind \in {"matters", "handoff", "other"},
           NEW body \in SUBSET (Matter \cup Entry \cup SessionId)
    PROVE  LET longer == AppendSection(text, kind, body) IN
           OneBranches(longer) /\ CurrentSessions(longer) = CurrentSessions(text)
<1>. DEFINE new == [kind |-> kind, body |-> body]
            longer == Append(text, new)
<1>1. new \in Section
  BY DEF Section
<1>2. /\ Len(longer) = Len(text) + 1
      /\ \A j \in 1..Len(text) : longer[j] = text[j]
      /\ longer[Len(text) + 1] = new
      /\ longer \in Seq(Section)
  BY <1>1, AppendProperties DEF CurrentText
<1>3. /\ DOMAIN longer = 1..(Len(text) + 1) /\ DOMAIN text = 1..Len(text) /\ Len(text) \in Nat
  BY <1>2, LenProperties DEF CurrentText
<1>4. AppendSection(text, kind, body) = longer
  BY DEF AppendSection
<1>5. new.kind # "branches"
  OBVIOUS
<1>. HIDE DEF longer, new
<1>6. PICK i \in DOMAIN text : Sections(text, "branches") = {i} /\ i < Len(text)
  BY DEF OneBranches
<1>7. Sections(longer, "branches") = {i}
  BY <1>2, <1>3, <1>5, <1>6 DEF Sections
<1>8. i \in DOMAIN longer /\ i < Len(longer) /\ longer[i] = text[i]
  BY <1>2, <1>3, <1>6
<1>9. OneBranches(longer)
  BY <1>7, <1>8 DEF OneBranches
<1>10. CurrentSessions(longer) = CurrentSessions(text)
  BY <1>6, <1>7, <1>8, BranchesBody
<1>. QED BY <1>4, <1>9, <1>10

LEMMA RewriteKeepsBranches ==
    ASSUME NEW text \in CurrentText, OneBranches(text), NEW i \in DOMAIN text,
           NEW body \in SUBSET (Matter \cup Entry \cup SessionId)
    PROVE  LET new == RewriteSection(text, i, body) IN
           /\ OneBranches(new)
           /\ CurrentSessions(new) =
                 IF text[i].kind = "branches" THEN body ELSE CurrentSessions(text)
<1>. DEFINE new == RewriteSection(text, i, body)
<1>1. /\ DOMAIN new = DOMAIN text /\ new \in CurrentText
      /\ \A j \in DOMAIN text :
            new[j] = IF j = i THEN [kind |-> text[i].kind, body |-> body] ELSE text[j]
  <2>1. i \in DOMAIN text => body \in SUBSET (Matter \cup Entry \cup SessionId)
    OBVIOUS
  <2>. QED BY <2>1, RewriteTyped
<1>2. Len(new) = Len(text)
  BY <1>1, LenProperties DEF CurrentText
<1>. HIDE DEF new
<1>3. PICK k \in DOMAIN text : Sections(text, "branches") = {k} /\ k < Len(text)
  BY DEF OneBranches
<1>4. \A j \in DOMAIN text : new[j].kind = text[j].kind
  BY <1>1
<1>5. Sections(new, "branches") = {k}
  BY <1>1, <1>3, <1>4 DEF Sections
<1>6. OneBranches(new)
  BY <1>1, <1>2, <1>3, <1>5 DEF OneBranches
<1>7. CurrentSessions(new) = new[k].body /\ CurrentSessions(text) = text[k].body
  BY <1>3, <1>5, BranchesBody
<1>8. text[i].kind = "branches" <=> i = k
  BY <1>3 DEF Sections
<1>9. new[k].body = IF k = i THEN body ELSE text[k].body
  BY <1>1, <1>3
<1>. QED BY <1>6, <1>7, <1>8, <1>9 DEF new

(* new_matter.py and start_session.py: an item goes to its section.        *)
LEMMA AddToBranches ==
    ASSUME NEW text \in CurrentText, OneBranches(text)
    PROVE  /\ \A m \in Matter :
                 LET new == UpdateCurrentMatter(text, m) IN
                 OneBranches(new) /\ CurrentSessions(new) = CurrentSessions(text)
           /\ \A entry \in Entry :
                 LET new == AddCurrentSession(text, entry) IN
                 OneBranches(new) /\ CurrentSessions(new) = CurrentSessions(text) \cup {entry}
<1>1. ASSUME NEW m \in Matter
      PROVE  LET new == AddTo(text, "matters", m) IN
             OneBranches(new) /\ CurrentSessions(new) = CurrentSessions(text)
  <2>1. CASE Followed(text, "matters") = {}
    BY <2>1, AppendKeepsBranches DEF AddTo
  <2>2. CASE Followed(text, "matters") # {}
    <3>. DEFINE i == Min(Followed(text, "matters"))
    <3>1. Followed(text, "matters") \subseteq Nat
      BY LenProperties DEF Followed, Sections, CurrentText
    <3>2. i \in Followed(text, "matters")
      BY <2>2, <3>1, MinOfPositions
    <3>3. i \in DOMAIN text /\ text[i].kind = "matters"
      BY <3>2 DEF Followed, Sections
    <3>4. AddTo(text, "matters", m) = RewriteSection(text, i, text[i].body \cup {m})
      BY <2>2 DEF AddTo
    <3>. HIDE DEF i
    <3>5. text[i].body \cup {m} \in SUBSET (Matter \cup Entry \cup SessionId)
      BY <3>3, SectionTyped DEF Section
    <3>. QED BY <3>3, <3>4, <3>5, RewriteKeepsBranches
  <2>. QED BY <2>1, <2>2
<1>2. ASSUME NEW entry \in Entry
      PROVE  LET new == AddTo(text, "branches", entry) IN
             OneBranches(new) /\ CurrentSessions(new) = CurrentSessions(text) \cup {entry}
  <2>1. PICK i \in DOMAIN text :
              /\ Sections(text, "branches") = {i} /\ text[i].kind = "branches"
              /\ Followed(text, "branches") = {i} /\ Min(Followed(text, "branches")) = i
    BY OneBranchesAt
  <2>2. AddTo(text, "branches", entry) = RewriteSection(text, i, text[i].body \cup {entry})
    BY <2>1 DEF AddTo
  <2>3. text[i].body \cup {entry} \in SUBSET (Matter \cup Entry \cup SessionId)
    BY SectionTyped DEF Section
  <2>4. CurrentSessions(text) = text[i].body
    BY <2>1, BranchesBody
  <2>. QED BY <2>1, <2>2, <2>3, <2>4, RewriteKeepsBranches
<1>. QED BY <1>1, <1>2 DEF UpdateCurrentMatter, AddCurrentSession

(* finish_session.py: the bullets of the session go, the others stay.      *)
LEMMA HandoffOfBranches ==
    ASSUME NEW text \in CurrentText, OneBranches(text), NEW ids \in SUBSET SessionId
    PROVE  LET new == UpdateCurrentHandoff(text, ids) IN
           OneBranches(new) /\ CurrentSessions(new) = Without(CurrentSessions(text), ids)
<1>. DEFINE pruned == PruneBranches(text, ids)
<1>0. pruned \in CurrentText
  BY HandoffTyped
<1>1. OneBranches(pruned) /\ CurrentSessions(pruned) = Without(CurrentSessions(text), ids)
  <2>1. PICK i \in DOMAIN text :
              /\ Sections(text, "branches") = {i} /\ text[i].kind = "branches"
              /\ Followed(text, "branches") = {i} /\ Min(Followed(text, "branches")) = i
    BY OneBranchesAt
  <2>2. pruned = RewriteSection(text, i, Without(text[i].body, ids))
    BY <2>1 DEF PruneBranches
  <2>. HIDE DEF pruned
  <2>3. text[i].body \in SUBSET (Matter \cup Entry \cup SessionId)
    BY SectionTyped DEF Section
  <2>4. Without(text[i].body, ids) \in SUBSET (Matter \cup Entry \cup SessionId)
    BY <2>3 DEF Without
  <2>5. CurrentSessions(text) = text[i].body
    BY <2>1, BranchesBody
  <2>. QED BY <2>1, <2>2, <2>4, <2>5, RewriteKeepsBranches
<1>. HIDE DEF pruned
<1>2. /\ OneBranches(ReplaceHandoff(pruned, ids))
      /\ CurrentSessions(ReplaceHandoff(pruned, ids)) = CurrentSessions(pruned)
  <2>1. CASE Sections(pruned, "handoff") = {}
    BY <1>0, <1>1, <2>1, AppendKeepsBranches DEF ReplaceHandoff
  <2>2. CASE Sections(pruned, "handoff") # {}
    <3>. DEFINE i == Min(Sections(pruned, "handoff"))
    <3>1. Sections(pruned, "handoff") \subseteq Nat
      BY <1>0, LenProperties DEF Sections, CurrentText
    <3>2. i \in Sections(pruned, "handoff")
      BY <2>2, <3>1, MinOfPositions
    <3>3. i \in DOMAIN pruned /\ pruned[i].kind = "handoff"
      BY <3>2 DEF Sections
    <3>4. ReplaceHandoff(pruned, ids) = RewriteSection(pruned, i, ids)
      BY <2>2 DEF ReplaceHandoff
    <3>. HIDE DEF i
    <3>. QED BY <1>0, <1>1, <3>3, <3>4, RewriteKeepsBranches
  <2>. QED BY <2>1, <2>2
<1>. QED BY <1>1, <1>2 DEF UpdateCurrentHandoff, pruned

=============================================================================
