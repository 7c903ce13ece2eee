-------------------------- MODULE WorkspaceInitProofs --------------------------
(***************************************************************************)
(* Safety of init_workspace.py, for any number of launches, kills, user    *)
(* commits and extracted releases.                                         *)
(***************************************************************************)
EXTENDS WorkspaceInit, TLAPS

-----------------------------------------------------------------------------
(* The record operators, field by field.                                   *)

LEMMA JobFields ==
    ASSUME NEW j \in Job, NEW c \in Nat
    PROVE  /\ WithExisting(j) \in Job /\ WithCommit(j, c) \in Job
           /\ WithExisting(j).mode = j.mode /\ WithExisting(j).version = j.version
           /\ WithExisting(j).existing = TRUE
           /\ WithCommit(j, c).mode = j.mode /\ WithCommit(j, c).version = j.version
           /\ WithCommit(j, c).existing = j.existing
BY DEF Job, WithExisting, WithCommit

LEMMA Constants ==
    /\ NoTree \in Tree /\ NoConfig \in Config /\ NoJob \in Job
    /\ ~ NoJob.existing
    /\ \A v \in Version : Release(v) \in Tree /\ Release(v).code = v
    /\ Version \cap {"absent", "unset"} = {}
BY InitAssumption DEF NoTree, Tree, Ignore, NoConfig, Config, NoJob, Job, Release

-----------------------------------------------------------------------------
(* Type correctness. *)


LEMMA TypeInit == Init => TypeOK /\ JobInv
BY Constants DEF Init, TypeOK, JobInv, Running, Counters, Release

(* A step of script p that leaves the shared state alone or changes it     *)
(* within its types.                                                       *)
Shared == <<repo, files, staged, head, commits, config, identity, remote, count,
            first, made, reported>>

SharedType ==
    /\ repo \in {"none", "parent", "own"}
    /\ files \in Tree /\ files.code \in Version
    /\ staged \in Tree
    /\ head \in Tree
    /\ commits \in Nat
    /\ config \in Config
    /\ identity \subseteq {"name", "email"}
    /\ remote \in BOOLEAN
    /\ count \in Counters
    /\ first \in [tree : Tree, by : {"nobody", "init", "user"}]
    /\ made \in Nat
    /\ reported \subseteq [mode : Mode, version : Version]

LocalType ==
    /\ pc \in [Proc -> Steps \cup {"idle"}]
    /\ job \in [Proc -> Job]
    /\ JobInv

LEMMA Split == TypeOK /\ JobInv <=> SharedType /\ LocalType
BY DEF TypeOK, SharedType, LocalType

LEMMA ExitLocal ==
    ASSUME LocalType, NEW p \in Proc, Exit(p)
    PROVE  LocalType'
BY Constants DEF LocalType, JobInv, Running, Exit, Goto

LEMMA GotoLocal ==
    ASSUME LocalType, NEW p \in Proc, NEW step \in Steps, Goto(p, step), UNCHANGED job,
           pc[p] # "idle",
           step \in {"ignore", "truncate", "block"} =>
              pc[p] \in {"ignore", "truncate", "block"} \/ job[p].mode \in Blocks
    PROVE  LocalType'
BY DEF LocalType, JobInv, Running, Goto

LEMMA JobLocal ==
    ASSUME LocalType, NEW p \in Proc, NEW step \in Steps, Goto(p, step),
           NEW j \in Job, job' = [job EXCEPT ![p] = j],
           j.mode \in Mode, j.version \in Version,
           step \notin {"ignore", "truncate", "block"}
    PROVE  LocalType'
BY DEF LocalType, JobInv, Running, Goto

LEMMA LocalStep ==
    ASSUME SharedType, LocalType, Next
    PROVE  LocalType'
<1>1. ASSUME NEW p \in Proc, Blocked(p) PROVE LocalType'
    BY <1>1, ExitLocal DEF Blocked
<1>2. ASSUME NEW p \in Proc, NEW step \in Steps, Pass(p, step), pc[p] # "idle",
             step \in {"ignore", "truncate", "block"} =>
                pc[p] \in {"ignore", "truncate", "block"} \/ job[p].mode \in Blocks
      PROVE  LocalType'
    BY <1>2, GotoLocal DEF Pass
<1>3. ASSUME NEW p \in Proc, NEW mode \in Mode, NEW named \in BOOLEAN,
             Launch(p, mode, named)
      PROVE  LocalType'
    <2>1. files.code \in Version
        BY DEF SharedType
    <2> DEFINE j == NewJob(mode, named, files.code)
    <2>2. j \in Job /\ j.mode \in Mode /\ j.version \in Version
        BY <2>1 DEF NewJob, Job
    <2>3. Goto(p, "root") /\ job' = [job EXCEPT ![p] = j] /\ "root" \in Steps
        BY <1>3 DEF Launch, Steps
    <2> HIDE DEF j
    <2> QED BY <2>2, <2>3, JobLocal
<1>4. ASSUME NEW p \in Proc, CheckRoot(p) PROVE LocalType'
    <2>1. pc[p] # "idle" /\ repo \in {"none", "parent", "own"}
        BY <1>4 DEF CheckRoot, SharedType
    <2>2. CASE repo = "parent"
        BY <1>4, <2>2, <1>1 DEF CheckRoot
    <2>3. CASE repo = "none"
        BY <1>4, <2>1, <2>3, <1>2 DEF CheckRoot, Steps
    <2>4. CASE repo = "own"
        <3> DEFINE j == WithExisting(job[p])
        <3>1. job[p] \in Job /\ job[p].mode \in Mode /\ job[p].version \in Version
            BY <2>1 DEF LocalType, JobInv, Running
        <3>2. j \in Job /\ j.mode \in Mode /\ j.version \in Version
            BY <3>1, JobFields, 0 \in Nat
        <3>3. Goto(p, "head") /\ job' = [job EXCEPT ![p] = j] /\ "head" \in Steps
            BY <1>4, <2>4 DEF CheckRoot, Steps
        <3> HIDE DEF j
        <3> QED BY <3>2, <3>3, JobLocal
    <2> QED BY <2>1, <2>2, <2>3, <2>4
<1>5. ASSUME NEW p \in Proc, ReadCommit(p) PROVE LocalType'
    <2> DEFINE j == WithCommit(job[p], commits)
    <2>1. pc[p] # "idle" /\ commits \in Nat
        BY <1>5 DEF ReadCommit, SharedType
    <2>2. job[p] \in Job /\ job[p].mode \in Mode /\ job[p].version \in Version
        BY <2>1 DEF LocalType, JobInv, Running
    <2>3. j \in Job /\ j.mode \in Mode /\ j.version \in Version
        BY <2>1, <2>2, JobFields
    <2>4. Goto(p, "initialized") /\ job' = [job EXCEPT ![p] = j] /\ "initialized" \in Steps
        BY <1>5 DEF ReadCommit, Steps
    <2> HIDE DEF j
    <2> QED BY <2>3, <2>4, JobLocal
<1>6. ASSUME NEW p \in Proc,
             CheckHead(p) \/ CheckExisting(p) \/ Validate(p) \/ CheckRemote(p)
                \/ ReadIgnore(p) \/ CheckStaged(p)
      PROVE  LocalType'
    BY <1>6, <1>1, <1>2
       DEF CheckHead, CheckExisting, Validate, CheckRemote, ReadIgnore, CheckStaged, Steps
<1>7. ASSUME NEW p \in Proc, CheckIdentity(p) PROVE LocalType'
    <2>1. pc[p] # "idle" /\ job[p].mode \in Mode
        BY <1>7 DEF CheckIdentity, LocalType, JobInv, Running
    <2> QED BY <1>7, <2>1, <1>1, <1>2 DEF CheckIdentity, Mode, Steps
<1>8. ASSUME NEW p \in Proc, CheckRecorded(p) \/ FinalCheck(p) PROVE LocalType'
    BY <1>8, <1>1, ExitLocal DEF CheckRecorded, FinalCheck
<1>9. ASSUME NEW p \in Proc,
             GitInit(p) \/ SetIdentity(p, "name", "email") \/ SetIdentity(p, "email", "identity")
                \/ TruncateIgnore(p) \/ WriteIgnore(p) \/ RecordKeys(p)
      PROVE  LocalType'
    BY <1>9, GotoLocal
       DEF GitInit, SetIdentity, TruncateIgnore, WriteIgnore, RecordKeys, Record, Steps
<1>10. ASSUME NEW p \in Proc, Stage(p) PROVE LocalType'
    BY <1>10, GotoLocal, ExitLocal DEF Stage, Steps
<1>11. ASSUME NEW p \in Proc, Commit(p) PROVE LocalType'
    BY <1>11, <1>1, GotoLocal DEF Commit, Steps
<1>12. ASSUME NEW p \in Proc, Abort(p) PROVE LocalType'
    BY <1>12, ExitLocal DEF Abort
<1>14. ASSUME NEW p \in Proc, Misread(p) PROVE LocalType'
    BY <1>14, GotoLocal DEF Misread, Steps
<1>13. ASSUME Environment PROVE LocalType'
    <2>1. UNCHANGED <<pc, job>>
        BY <1>13 DEF Environment, EditMemory, UserCommit, AddRemote, Extract
    <2> QED BY <2>1 DEF LocalType, JobInv, Running
<1> QED
    BY <1>3, <1>4, <1>5, <1>6, <1>7, <1>8, <1>9, <1>10, <1>11, <1>12, <1>13, <1>14
       DEF Next, Step

LEMMA SharedStep ==
    ASSUME SharedType, LocalType, Next
    PROVE  SharedType'
<1> USE DEF gitVars, history
<1>1. ASSUME UNCHANGED <<repo, files, staged, head, commits, config, identity, remote,
                         count, first, made, reported>>
      PROVE  SharedType'
    BY <1>1 DEF SharedType
<1>2. ASSUME NEW p \in Proc, Blocked(p) PROVE SharedType'
    BY <1>1, <1>2 DEF Blocked
<1>3. ASSUME NEW p \in Proc, NEW step \in Steps, Pass(p, step) PROVE SharedType'
    BY <1>1, <1>3 DEF Pass
<1>4. ASSUME NEW p \in Proc, NEW mode \in Mode, NEW named \in BOOLEAN,
             Launch(p, mode, named)
      PROVE  SharedType'
    BY <1>4 DEF Launch, Bump, SharedType, Counters
<1>5. ASSUME NEW p \in Proc, CheckRoot(p) PROVE SharedType'
    BY <1>5, <1>1 DEF CheckRoot, Blocked, Pass, SharedType
<1>6. ASSUME NEW p \in Proc,
             CheckHead(p) \/ CheckExisting(p) \/ Validate(p) \/ CheckRemote(p)
                \/ ReadIgnore(p) \/ CheckStaged(p) \/ CheckIdentity(p) \/ ReadCommit(p)
      PROVE  SharedType'
    BY <1>6, <1>1
       DEF CheckHead, CheckExisting, Validate, CheckRemote, ReadIgnore, CheckStaged,
           CheckIdentity, ReadCommit, Blocked, Pass
<1>7. ASSUME NEW p \in Proc, CheckRecorded(p) \/ FinalCheck(p) PROVE SharedType'
    <2>1. job[p].mode \in Mode /\ job[p].version \in Version
        BY <1>7 DEF CheckRecorded, FinalCheck, LocalType, JobInv, Running
    <2> QED BY <1>7, <2>1, <1>2 DEF CheckRecorded, FinalCheck, SharedType
<1>8. ASSUME NEW p \in Proc,
             GitInit(p) \/ SetIdentity(p, "name", "email") \/ SetIdentity(p, "email", "identity")
      PROVE  SharedType'
    BY <1>8 DEF GitInit, SetIdentity, SharedType
<1>9. ASSUME NEW p \in Proc, TruncateIgnore(p) \/ WriteIgnore(p) PROVE SharedType'
    <2>1. PICK text \in Ignore : SetIgnore(text)
        <3>1. CASE TruncateIgnore(p) BY <3>1 DEF TruncateIgnore, Ignore
        <3>2. CASE WriteIgnore(p)
            BY <3>2 DEF WriteIgnore, Ignore, LocalType, JobInv, Running
        <3> QED BY <1>9, <3>1, <3>2
    <2>2. files' \in Tree /\ files'.code \in Version
        BY <2>1 DEF SetIgnore, SharedType, Tree
    <2> QED BY <1>9, <2>2 DEF TruncateIgnore, WriteIgnore, SharedType
<1>10. ASSUME NEW p \in Proc, RecordKeys(p) PROVE SharedType'
    <2>1. /\ job[p] \in Job /\ job[p].mode \in Mode /\ job[p].version \in Version
        BY <1>10 DEF RecordKeys, Record, LocalType, JobInv, Running
    <2>2. job[p].commit \in Nat
        BY <2>1 DEF Job
    <2>3. config' \in Config
        BY <1>10, <2>1, <2>2 DEF RecordKeys, Record, SharedType, Config
    <2> QED BY <1>10, <2>3 DEF RecordKeys, Record, SharedType
<1>11. ASSUME NEW p \in Proc, Stage(p) PROVE SharedType'
    <2>1. staged' \in Tree
        BY <1>11 DEF Stage, SharedType, Tree
    <2> QED BY <1>11, <2>1 DEF Stage, SharedType
<1>12. ASSUME NEW author \in {"init", "user"}, staged' \in Tree, AddCommit(author)
       PROVE  /\ head' \in Tree /\ commits' \in Nat
              /\ first' \in [tree : Tree, by : {"nobody", "init", "user"}]
    BY <1>12 DEF AddCommit, SharedType
<1>13. ASSUME NEW p \in Proc, Commit(p) PROVE SharedType'
    <2>1. CASE Blocked(p) BY <2>1, <1>2
    <2>2. CASE ~ Blocked(p)
        <3>1. AddCommit("init") /\ staged' \in Tree
            BY <1>13, <2>2 DEF Commit, SharedType
        <3>2. /\ head' \in Tree /\ commits' \in Nat
              /\ first' \in [tree : Tree, by : {"nobody", "init", "user"}]
            BY <3>1, <1>12
        <3>3. /\ made' = made + 1
              /\ UNCHANGED <<repo, config, identity, remote, files, count, reported>>
            BY <1>13, <2>2 DEF Commit
        <3> QED BY <3>1, <3>2, <3>3 DEF SharedType
    <2> QED BY <2>1, <2>2
<1>14. ASSUME UserCommit PROVE SharedType'
    <2>1. staged' \in Tree
        BY <1>14 DEF UserCommit, SharedType, Tree
    <2>2. AddCommit("user")
        BY <1>14 DEF UserCommit
    <2> QED BY <1>14, <2>1, <2>2, <1>12 DEF UserCommit, Bump, SharedType, Counters
<1>15. ASSUME NEW p \in Proc, Abort(p) PROVE SharedType'
    BY <1>15 DEF Abort, Bump, SharedType, Counters
<1>19. ASSUME NEW p \in Proc, Misread(p) PROVE SharedType'
    BY <1>19 DEF Misread, Bump, SharedType, Counters
<1>16. ASSUME EditMemory PROVE SharedType'
    BY <1>16 DEF EditMemory, SharedType, Tree
<1>17. ASSUME NEW v \in Version, Extract(v) PROVE SharedType'
    BY <1>17, Constants DEF Extract, Bump, SharedType, Counters
<1>18. ASSUME AddRemote PROVE SharedType'
    BY <1>18 DEF AddRemote, SharedType
<1> QED
    BY <1>4, <1>5, <1>6, <1>7, <1>8, <1>9, <1>10, <1>11, <1>13, <1>14, <1>15, <1>16,
       <1>17, <1>18, <1>19
       DEF Next, Step, Environment

LEMMA TypeStep == TypeOK /\ JobInv /\ [Next]_vars => TypeOK' /\ JobInv'
<1>1. CASE Next
    BY <1>1, Split, LocalStep, SharedStep DEF TypeOK, SharedType, LocalType
<1>2. CASE UNCHANGED vars
    BY <1>2 DEF TypeOK, JobInv, Running, vars, gitVars, history
<1> QED BY <1>1, <1>2

(* Every reachable state has the types of TypeOK. *)
THEOREM InitTypeCorrect == Spec => [](TypeOK /\ JobInv)
BY TypeInit, TypeStep, PTL DEF Spec

-----------------------------------------------------------------------------
(* The safety properties, for exclusive use of the directory.              *)

LEMMA Alone ==
    ASSUME LocalType, OneRuns, NEW p \in Proc, pc[p] # "idle", NEW step, Goto(p, step)
    PROVE  /\ pc'[p] = step
           /\ OneRuns'
           /\ \A q \in Running' : q = p
BY DEF LocalType, OneRuns, Running, Goto

(* Who misreads Git is no longer sure, and nobody gets sure again.         *)
LEMMA MisreadCounts ==
    ASSUME SharedType, NEW p \in Proc, Misread(p)
    PROVE  ~ Sure'
BY DEF Misread, Bump, SharedType, Counters, Sure

LEMMA SureBefore ==
    ASSUME SharedType, Next, Sure'
    PROVE  Sure
<1> USE DEF gitVars, history, SharedType, Counters, Sure
<1>1. ASSUME count' = count PROVE Sure
    BY <1>1
<1>2. ASSUME NEW p \in Proc, Step(p) PROVE Sure
    BY <1>1, <1>2
       DEF Step, CheckRoot, CheckHead, CheckExisting, CheckRecorded, Validate, GitInit,
           CheckRemote, SetIdentity, CheckIdentity, ReadIgnore, TruncateIgnore, WriteIgnore,
           Stage, CheckStaged, Commit, ReadCommit, RecordKeys, Record, FinalCheck, Blocked, Pass
<1>3. ASSUME NEW p \in Proc, NEW mode \in Mode, NEW named \in BOOLEAN, Launch(p, mode, named)
      PROVE  Sure
    BY <1>3 DEF Launch, Bump
<1>4. ASSUME NEW p \in Proc, Misread(p) PROVE Sure
    BY <1>4, MisreadCounts
<1>5. ASSUME NEW p \in Proc, Abort(p) PROVE Sure
    BY <1>5 DEF Abort, Bump
<1>6. CASE Environment
    BY <1>6 DEF Environment, EditMemory, UserCommit, AddRemote, Extract, Bump
<1> QED BY <1>2, <1>3, <1>4, <1>5, <1>6 DEF Next

(* With exclusive use one script runs, or none.                            *)
LEMMA OneRunsStep ==
    ASSUME Exclusive, SharedType, LocalType, OneRuns, Next
    PROVE  OneRuns'
<1> USE DEF LocalType, OneRuns, Running, Goto
<1>1. ASSUME NEW p \in Proc, NEW mode \in Mode, NEW named \in BOOLEAN, Launch(p, mode, named)
      PROVE  OneRuns'
    BY <1>1 DEF Launch
<1>2. ASSUME NEW p \in Proc, Step(p) \/ Misread(p) \/ Abort(p)
      PROVE  OneRuns'
    <2>1. pc[p] # "idle" /\ \E step : Goto(p, step)
        BY <1>2
           DEF Step, Misread, Abort, CheckRoot, CheckHead, CheckExisting, CheckRecorded, Validate,
               GitInit, CheckRemote, SetIdentity, CheckIdentity, ReadIgnore, TruncateIgnore,
               WriteIgnore, Stage, CheckStaged, Commit, ReadCommit, RecordKeys, Record, FinalCheck,
               Blocked, Pass, Exit, SharedType
    <2> QED BY <2>1, Alone
<1>3. CASE Environment
    BY <1>3 DEF Environment, EditMemory, UserCommit, AddRemote, Extract
<1> QED BY <1>1, <1>2, <1>3 DEF Next

LEMMA InitHolds == Init => InitInv
BY DEF Init, InitInv, OneRuns, Running, UnbornInv, NoConfig, RunInv, ReportInv

(* A script that exits. *)
LEMMA ExitKeeps ==
    ASSUME LocalType, InitInv, NEW p \in Proc, Exit(p), pc[p] # "idle", ReportInv',
           UNCHANGED <<repo, head, commits, config, first, made>>
    PROVE  InitInv'
<1>1. OneRuns' /\ Running' = {}
    <2>1. Goto(p, "idle")
        BY DEF Exit
    <2>2. pc'[p] = "idle" /\ OneRuns' /\ \A q \in Running' : q = p
        BY <2>1, Alone DEF InitInv
    <2> QED BY <2>2 DEF Running
<1> QED BY <1>1 DEF InitInv, UnbornInv, RunInv

(* A script that goes on towards the commit. *)
LEMMA FreshKeeps ==
    ASSUME LocalType, InitInv, NEW p \in Proc, NEW step \in Fresh, Goto(p, step),
           pc[p] \in Fresh \cup {"root", "head"}, UNCHANGED job, head = NoTree,
           step \in {"validate", "init"} \/ repo = "own",
           UNCHANGED <<repo, head, commits, config, first, made, reported>>
    PROVE  InitInv'
<1>1. pc[p] # "idle"
    BY DEF Fresh
<1>2. pc'[p] = step /\ OneRuns' /\ \A q \in Running' : q = p
    BY <1>1, Alone DEF InitInv
<1>3. job[p].existing => repo = "own"
    BY <1>1 DEF InitInv, RunInv, Placed, Running
<1>4. Placed(p)'
    BY <1>2, <1>3 DEF Placed, Fresh, Recording
<1>5. Recorded(p)'
    BY <1>2 DEF Recorded, Fresh
<1> QED BY <1>2, <1>4, <1>5 DEF InitInv, UnbornInv, RunInv, ReportInv

LEMMA InitStep ==
    ASSUME Exclusive, SharedType, LocalType, InitInv, Next, Sure'
    PROVE  InitInv'
<1> USE DEF gitVars, history
<1>1. ASSUME NEW p \in Proc, pc[p] # "idle", Blocked(p) PROVE InitInv'
    BY <1>1, ExitKeeps DEF Blocked, InitInv, ReportInv
<1>2. ASSUME NEW p \in Proc, NEW step \in Fresh, Pass(p, step),
             pc[p] \in Fresh \cup {"root", "head"}, head = NoTree,
             step \in {"validate", "init"} \/ repo = "own"
      PROVE  InitInv'
    BY <1>2, FreshKeeps DEF Pass
<1>3. ASSUME NEW p \in Proc, NEW mode \in Mode, NEW named \in BOOLEAN,
             Launch(p, mode, named)
      PROVE  InitInv'
    <2>1. Running = {} /\ Goto(p, "root")
        BY <1>3 DEF Launch
    <2>2. pc'[p] = "root" /\ OneRuns' /\ \A q \in Running' : q = p
        BY <2>1 DEF LocalType, OneRuns, Running, Goto
    <2>3. ~ job'[p].existing
        BY <1>3 DEF Launch, NewJob, LocalType
    <2>4. Placed(p)' /\ Recorded(p)'
        BY <2>2, <2>3 DEF Placed, Recorded, Fresh, Recording
    <2> QED BY <1>3, <2>2, <2>4 DEF Launch, InitInv, UnbornInv, RunInv, ReportInv
<1>4. ASSUME NEW p \in Proc, CheckRoot(p) PROVE InitInv'
    <2>1. pc[p] = "root" /\ repo \in {"none", "parent", "own"}
        BY <1>4 DEF CheckRoot, SharedType
    <2>2. CASE repo = "parent"
        BY <1>4, <2>1, <2>2, <1>1 DEF CheckRoot
    <2>3. CASE repo = "none"
        <3>1. head = NoTree /\ Pass(p, "validate") /\ "validate" \in Fresh
            BY <1>4, <2>3 DEF CheckRoot, InitInv, UnbornInv, Fresh
        <3> QED BY <3>1, <2>1, <1>2
    <2>4. CASE repo = "own"
        <3>1. Goto(p, "head") /\ UNCHANGED <<gitVars, files, count, history>>
            BY <1>4, <2>4 DEF CheckRoot
        <3>2. pc'[p] = "head" /\ OneRuns' /\ \A q \in Running' : q = p
            BY <2>1, <3>1, Alone DEF InitInv
        <3>3. Placed(p)' /\ Recorded(p)'
            BY <2>4, <3>1, <3>2 DEF Placed, Recorded, Fresh, Recording
        <3> QED BY <3>1, <3>2, <3>3 DEF InitInv, UnbornInv, RunInv, ReportInv
    <2> QED BY <2>1, <2>2, <2>3, <2>4
<1>5. ASSUME NEW p \in Proc, NEW step \in {"existing", "check"}, Pass(p, step), pc[p] # "idle"
      PROVE  InitInv'
    <2>1. Goto(p, step) /\ UNCHANGED <<gitVars, files, count, history, job>>
        BY <1>5 DEF Pass
    <2>2. pc'[p] = step /\ OneRuns' /\ \A q \in Running' : q = p
        BY <1>5, <2>1, Alone DEF InitInv
    <2>3. job[p].existing => repo = "own"
        BY <1>5 DEF InitInv, RunInv, Placed, Running
    <2>4. Placed(p)' /\ Recorded(p)'
        BY <2>1, <2>2, <2>3 DEF Placed, Recorded, Fresh, Recording
    <2> QED BY <2>1, <2>2, <2>4 DEF InitInv, UnbornInv, RunInv, ReportInv
<1>6. ASSUME NEW p \in Proc, CheckHead(p) PROVE InitInv'
    BY <1>6, <1>2, <1>5 DEF CheckHead, Fresh
<1>7. ASSUME NEW p \in Proc, CheckExisting(p) PROVE InitInv'
    BY <1>7, <1>1, <1>5 DEF CheckExisting
<1>8. ASSUME NEW p \in Proc, CheckRecorded(p) \/ FinalCheck(p) PROVE InitInv'
    <2>1. pc[p] # "idle"
        BY <1>8 DEF CheckRecorded, FinalCheck
    <2>2. CASE Blocked(p)
        BY <2>1, <2>2, <1>1
    <2>3. CASE ~ Blocked(p)
        <3>1. /\ config.mode = job[p].mode /\ config.version = job[p].version
              /\ reported' = reported \cup {[mode |-> job[p].mode, version |-> job[p].version]}
              /\ Exit(p) /\ UNCHANGED <<gitVars, first, made>>
            BY <1>8, <2>3 DEF CheckRecorded, FinalCheck, InitInv, RunInv, Recorded, Running
        <3>2. ReportInv'
            BY <3>1 DEF InitInv, ReportInv
        <3> QED BY <2>1, <3>1, <3>2, ExitKeeps
    <2> QED BY <2>2, <2>3
<1>9. ASSUME NEW p \in Proc, pc[p] \in Fresh
      PROVE  head = NoTree /\ (pc[p] \notin {"validate", "init"} => repo = "own")
    BY <1>9 DEF InitInv, RunInv, Placed, Running, Fresh
<1>10. ASSUME NEW p \in Proc,
              Validate(p) \/ CheckRemote(p) \/ CheckIdentity(p) \/ ReadIgnore(p) \/ CheckStaged(p)
       PROVE  InitInv'
    <2>1. pc[p] \in {"validate", "remote", "identity", "ignore", "safety"}
        BY <1>10 DEF Validate, CheckRemote, CheckIdentity, ReadIgnore, CheckStaged
    <2>2. pc[p] \in Fresh /\ pc[p] # "idle"
        BY <2>1 DEF Fresh
    <2>3. CASE Blocked(p)
        BY <2>2, <2>3, <1>1
    <2>4. CASE ~ Blocked(p)
        <3>1. PICK step \in Fresh : Pass(p, step) /\ (pc[p] = "validate" => step = "init")
            BY <1>10, <2>4
               DEF Validate, CheckRemote, CheckIdentity, ReadIgnore, CheckStaged, Fresh
        <3> QED BY <2>1, <2>2, <3>1, <1>9, <1>2
    <2> QED BY <2>3, <2>4
<1>11. ASSUME NEW p \in Proc,
              SetIdentity(p, "name", "email") \/ SetIdentity(p, "email", "identity")
                 \/ TruncateIgnore(p) \/ WriteIgnore(p)
       PROVE  InitInv'
    <2>1. /\ pc[p] \in {"name", "email", "truncate", "block"}
          /\ UNCHANGED <<repo, head, commits, config, first, made, reported, job>>
        BY <1>11 DEF SetIdentity, TruncateIgnore, WriteIgnore
    <2>2. PICK step \in Fresh : Goto(p, step)
        BY <1>11 DEF SetIdentity, TruncateIgnore, WriteIgnore, Fresh
    <2>3. pc[p] \in Fresh
        BY <2>1 DEF Fresh
    <2> QED BY <2>1, <2>2, <2>3, <1>9, FreshKeeps
<1>12. ASSUME NEW p \in Proc, Stage(p) PROVE InitInv'
    <2>1. /\ pc[p] \in Fresh /\ pc[p] = "stage" /\ "safety" \in Fresh
          /\ UNCHANGED <<repo, head, commits, config, first, made, reported>>
        BY <1>12 DEF Stage, Fresh
    <2>2. CASE Exit(p)
        BY <2>1, <2>2, ExitKeeps DEF InitInv, ReportInv
    <2>3. CASE ~ Exit(p)
        <3>1. Goto(p, "safety") /\ UNCHANGED job
            BY <1>12, <2>3 DEF Stage
        <3> QED BY <2>1, <3>1, <1>9, FreshKeeps
    <2> QED BY <2>2, <2>3
<1>13. ASSUME NEW p \in Proc, GitInit(p) PROVE InitInv'
    <2>1. /\ pc[p] = "init" /\ Goto(p, "remote") /\ repo' = "own" /\ head = NoTree
          /\ UNCHANGED <<head, commits, config, first, made, reported, job>>
        BY <1>13, <1>9 DEF GitInit, InitInv, RunInv, Placed, Running, Fresh
    <2>2. pc'[p] = "remote" /\ OneRuns' /\ \A q \in Running' : q = p
        BY <2>1, Alone DEF InitInv
    <2>3. Placed(p)' /\ Recorded(p)'
        BY <2>1, <2>2 DEF Placed, Recorded, Fresh, Recording
    <2> QED BY <2>1, <2>2, <2>3 DEF InitInv, UnbornInv, RunInv, ReportInv
<1>14. ASSUME NEW p \in Proc, Commit(p) PROVE InitInv'
    <2>1. CASE Blocked(p)
        BY <1>14, <2>1, <1>1 DEF Commit
    <2>2. CASE ~ Blocked(p)
        <3>1. /\ pc[p] = "commit" /\ staged # head /\ staged' = staged
              /\ AddCommit("init") /\ made' = made + 1 /\ Goto(p, "read")
              /\ UNCHANGED <<repo, config, reported, job>>
            BY <1>14, <2>2 DEF Commit
        <3>2. head = NoTree /\ repo = "own"
            BY <3>1, <1>9 DEF Fresh
        <3>3. commits = 0 /\ made = 0 /\ config = NoConfig
            BY <3>2 DEF InitInv, UnbornInv
        <3>4. head' # NoTree /\ commits' = 1 /\ made' = 1 /\ first'.by = "init"
            BY <3>1, <3>2, <3>3 DEF AddCommit
        <3>5. pc'[p] = "read" /\ OneRuns' /\ \A q \in Running' : q = p
            BY <3>1, Alone DEF InitInv
        <3>6. Placed(p)' /\ Recorded(p)'
            BY <3>1, <3>2, <3>3, <3>4, <3>5 DEF Placed, Recorded, Fresh, Recording
        <3> QED BY <3>1, <3>2, <3>3, <3>4, <3>5, <3>6
                DEF InitInv, UnbornInv, RunInv, ReportInv, NoConfig
    <2> QED BY <2>1, <2>2
<1>15. ASSUME NEW p \in Proc, ReadCommit(p) PROVE InitInv'
    <2>1. /\ pc[p] = "read" /\ Goto(p, "initialized")
          /\ UNCHANGED <<repo, head, commits, config, first, made, reported>>
        BY <1>15 DEF ReadCommit
    <2>2. pc'[p] = "initialized" /\ OneRuns' /\ \A q \in Running' : q = p
        BY <2>1, Alone DEF InitInv
    <2>3. repo = "own" /\ made = 1 /\ config = NoConfig
        BY <2>1 DEF InitInv, RunInv, Placed, Recorded, Running, Recording
    <2>4. Placed(p)' /\ Recorded(p)'
        BY <2>1, <2>2, <2>3 DEF Placed, Recorded, Fresh, Recording
    <2> QED BY <2>1, <2>2, <2>4 DEF InitInv, UnbornInv, RunInv, ReportInv
<1>16. ASSUME NEW p \in Proc, RecordKeys(p) PROVE InitInv'
    <2>1. PICK step \in {"mode", "version", "initial", "final"} : Goto(p, step)
        BY <1>16 DEF RecordKeys, Record
    <2>2. /\ pc[p] \in {"initialized", "mode", "version", "initial"} /\ pc[p] # "idle"
          /\ UNCHANGED <<repo, head, commits, first, made, reported, job>>
        BY <1>16 DEF RecordKeys, Record
    <2>3. pc'[p] = step /\ OneRuns' /\ \A q \in Running' : q = p
        BY <2>1, <2>2, Alone DEF InitInv
    <2>4. Placed(p) /\ Recorded(p) /\ made = 1 /\ repo = "own"
        BY <2>2 DEF InitInv, RunInv, Placed, Running, Recording
    <2>5. Placed(p)'
        BY <2>2, <2>3, <2>4 DEF Placed, Fresh, Recording
    <2>6. Recorded(p)'
        BY <1>16, <2>2, <2>3, <2>4
           DEF Recorded, RecordKeys, Record, Goto, LocalType, SharedType, Config, NoConfig
    <2>7. ReportInv'
        <3>1. \A r \in reported : r.mode # "unset" /\ r.version # "unset"
            BY Constants DEF SharedType, Mode, Blocks
        <3> QED BY <1>16, <2>2, <2>4, <3>1
                DEF InitInv, ReportInv, Recorded, RecordKeys, Record, NoConfig, SharedType, Config
    <2> QED BY <2>2, <2>3, <2>4, <2>5, <2>6, <2>7
            DEF InitInv, UnbornInv, RunInv, SharedType
<1>17. ASSUME NEW p \in Proc, Abort(p) PROVE InitInv'
    BY <1>17, ExitKeeps DEF Abort, InitInv, ReportInv
<1>18. ASSUME UserCommit PROVE InitInv'
    <2>1. Running = {} /\ repo = "own" /\ AddCommit("user")
        BY <1>18 DEF UserCommit, Undisturbed
    <2>2. UNCHANGED <<repo, config, made, reported, pc>>
        BY <1>18 DEF UserCommit
    <2>3. staged'.code # "absent"
        BY <1>18, Constants DEF UserCommit, SharedType, Tree
    <2>4. head' # NoTree
        BY <2>1, <2>3 DEF AddCommit, NoTree
    <2>5. commits' # 0 /\ (made = 1 => first'.by = "init")
        BY <2>1 DEF AddCommit, SharedType, InitInv, UnbornInv
    <2> QED BY <2>1, <2>2, <2>4, <2>5
            DEF InitInv, OneRuns, UnbornInv, RunInv, ReportInv, Running
<1>19. ASSUME EditMemory \/ AddRemote \/ \E v \in Version : Extract(v) PROVE InitInv'
    <2>1. UNCHANGED <<repo, head, commits, config, first, made, reported, pc, job>>
        BY <1>19 DEF EditMemory, AddRemote, Extract
    <2> QED BY <2>1
            DEF InitInv, OneRuns, UnbornInv, RunInv, Placed, Recorded, ReportInv, Running
<1> QED
    BY <1>3, <1>4, <1>6, <1>7, <1>8, <1>10, <1>11, <1>12, <1>13, <1>14, <1>15, <1>16,
       <1>17, <1>18, <1>19, MisreadCounts
       DEF Next, Step, Environment

LEMMA KeepsStep ==
    ASSUME Exclusive, SharedType, LocalType, InitInv, Next, Sure'
    PROVE  KeepsRecorded
<1>1. ASSUME UNCHANGED <<config, made>> PROVE KeepsRecorded
    BY <1>1 DEF KeepsRecorded
<1>2. ASSUME NEW p \in Proc, Commit(p), ~ Blocked(p) PROVE KeepsRecorded
    <2>1. pc[p] = "commit" /\ UNCHANGED config
        BY <1>2 DEF Commit
    <2>2. made = 0
        BY <2>1 DEF InitInv, RunInv, UnbornInv, Placed, Running, Fresh
    <2> QED BY <2>1, <2>2 DEF KeepsRecorded
<1>3. ASSUME NEW p \in Proc, RecordKeys(p) PROVE KeepsRecorded
    <2>1. pc[p] \in {"initialized", "mode", "version", "initial"} /\ UNCHANGED made
        BY <1>3 DEF RecordKeys, Record, history
    <2>2. Recorded(p)
        BY <2>1 DEF InitInv, RunInv, Running
    <2> QED BY <1>3, <2>1, <2>2
            DEF KeepsRecorded, RecordKeys, Record, Recorded, NoConfig, SharedType, Config
<1> USE DEF gitVars, history
<1>4. ASSUME NEW p \in Proc,
             Blocked(p) \/ CheckRoot(p) \/ CheckHead(p) \/ CheckExisting(p) \/ CheckRecorded(p)
                \/ Validate(p) \/ GitInit(p) \/ CheckRemote(p) \/ SetIdentity(p, "name", "email")
                \/ SetIdentity(p, "email", "identity") \/ CheckIdentity(p)
      PROVE  KeepsRecorded
    BY <1>1, <1>4
       DEF CheckRoot, CheckHead, CheckExisting, CheckRecorded, Validate, GitInit, CheckRemote,
           SetIdentity, CheckIdentity, Pass, Blocked, SharedType
<1>5. ASSUME NEW p \in Proc,
             ReadIgnore(p) \/ TruncateIgnore(p) \/ WriteIgnore(p) \/ Stage(p) \/ CheckStaged(p)
                \/ ReadCommit(p) \/ FinalCheck(p) \/ Abort(p)
      PROVE  KeepsRecorded
    BY <1>1, <1>5
       DEF ReadIgnore, TruncateIgnore, WriteIgnore, Stage, CheckStaged, ReadCommit, FinalCheck,
           Abort, Pass, Blocked
<1>6. ASSUME NEW p \in Proc, NEW mode \in Mode, NEW named \in BOOLEAN, Launch(p, mode, named)
      PROVE  KeepsRecorded
    BY <1>1, <1>6 DEF Launch
<1>7. ASSUME Environment PROVE KeepsRecorded
    BY <1>1, <1>7 DEF Environment, EditMemory, UserCommit, AddRemote, Extract
<1> QED
    BY <1>2, <1>3, <1>4, <1>5, <1>6, <1>7, MisreadCounts DEF Next, Step

(* A script gets past the validator only if the memory is as released, and *)
(* nobody uses the memory while a script runs.                             *)
LEMMA UsedStep ==
    ASSUME Exclusive, SharedType, LocalType, UsedInv, Next
    PROVE  UsedInv'
<1> USE DEF gitVars, history, UsedInv, Running, LocalType, Goto
<1>1. ASSUME NEW p \in Proc, NEW mode \in Mode, NEW named \in BOOLEAN, Launch(p, mode, named)
      PROVE  UsedInv'
    BY <1>1 DEF Launch
<1>2. ASSUME NEW p \in Proc, Exit(p), files' = files PROVE UsedInv'
    BY <1>2 DEF Exit
<1>3. ASSUME NEW p \in Proc,
             CheckRoot(p) \/ CheckHead(p) \/ CheckExisting(p) \/ CheckRecorded(p) \/ Misread(p)
                \/ Abort(p)
      PROVE  UsedInv'
    BY <1>2, <1>3
       DEF CheckRoot, CheckHead, CheckExisting, CheckRecorded, Misread, Abort, Blocked, Pass,
           SharedType
<1>4. ASSUME NEW p \in Proc, Validate(p) PROVE UsedInv'
    BY <1>2, <1>4 DEF Validate, Blocked, Pass, Release
<1>5. ASSUME NEW p \in Proc,
             GitInit(p) \/ CheckRemote(p) \/ SetIdentity(p, "name", "email")
                \/ SetIdentity(p, "email", "identity") \/ CheckIdentity(p) \/ ReadIgnore(p)
                \/ TruncateIgnore(p) \/ WriteIgnore(p) \/ Stage(p) \/ CheckStaged(p) \/ Commit(p)
                \/ ReadCommit(p) \/ RecordKeys(p) \/ FinalCheck(p)
      PROVE  UsedInv'
    <2>1. pc[p] \notin {"idle", "root", "head", "existing", "check", "validate"}
        BY <1>5
           DEF GitInit, CheckRemote, SetIdentity, CheckIdentity, ReadIgnore, TruncateIgnore,
               WriteIgnore, Stage, CheckStaged, Commit, ReadCommit, RecordKeys, Record, FinalCheck
    <2>2. files.memory # "used"
        BY <2>1
    <2>3. files'.memory = files.memory
        BY <1>5
           DEF GitInit, CheckRemote, SetIdentity, CheckIdentity, ReadIgnore, TruncateIgnore,
               WriteIgnore, SetIgnore, Stage, CheckStaged, Commit, ReadCommit, RecordKeys, Record,
               FinalCheck, Blocked, Pass, SharedType, Tree
    <2> QED BY <2>2, <2>3
<1>6. CASE EditMemory \/ \E v \in Version : Extract(v)
    BY <1>6 DEF EditMemory, Extract, Undisturbed
<1>7. CASE UserCommit \/ AddRemote
    BY <1>7 DEF UserCommit, AddRemote
<1> QED BY <1>1, <1>3, <1>4, <1>5, <1>6, <1>7 DEF Next, Step, Environment

LEMMA UsedKeeps ==
    ASSUME SharedType, UsedInv, files.memory = "used", Next
    PROVE  KeepsRecorded
<1> USE DEF gitVars, history
<1>1. ASSUME UNCHANGED <<config, made>> PROVE KeepsRecorded
    BY <1>1 DEF KeepsRecorded
<1>2. ASSUME NEW p \in Proc, Step(p) \/ Misread(p) \/ Abort(p) PROVE KeepsRecorded
    <2>1. pc[p] # "commit" /\ pc[p] \notin {"initialized", "mode", "version", "initial"}
        BY DEF UsedInv, Running
    <2> QED BY <1>1, <1>2, <2>1
            DEF Step, Misread, Abort, CheckRoot, CheckHead, CheckExisting, CheckRecorded, Validate,
                GitInit, CheckRemote, SetIdentity, CheckIdentity, ReadIgnore, TruncateIgnore,
                WriteIgnore, Stage, CheckStaged, Commit, ReadCommit, RecordKeys, Record,
                FinalCheck, Blocked, Pass, SharedType
<1>3. ASSUME NEW p \in Proc, NEW mode \in Mode, NEW named \in BOOLEAN, Launch(p, mode, named)
      PROVE  KeepsRecorded
    BY <1>1, <1>3 DEF Launch
<1>4. CASE Environment
    BY <1>1, <1>4 DEF Environment, EditMemory, UserCommit, AddRemote, Extract
<1> QED BY <1>2, <1>3, <1>4 DEF Next

SureInv ==
    /\ SharedType /\ LocalType
    /\ OneRuns
    /\ UsedInv
    /\ Sure => InitInv

LEMMA AllInv == Exclusive => (Spec => []SureInv)
<1> SUFFICES ASSUME Exclusive PROVE Spec => []SureInv
    OBVIOUS
<1>1. Init => SureInv
    BY TypeInit, Split, InitHolds DEF SureInv, InitInv, UsedInv, Running, Init
<1>2. SureInv /\ [Next]_vars => SureInv'
    <2>1. CASE Next
        BY <2>1, SharedStep, LocalStep, OneRunsStep, UsedStep, SureBefore, InitStep DEF SureInv
    <2>2. CASE UNCHANGED vars
        BY <2>2 DEF vars, gitVars, history, SureInv, SharedType, LocalType, JobInv, Running,
           InitInv, UsedInv, Sure, OneRuns, UnbornInv, RunInv, Placed, Recorded, ReportInv
    <2> QED BY <2>1, <2>2
<1> QED BY <1>1, <1>2, PTL DEF Spec

(* No run of init_workspace.py changes what an earlier one has recorded,   *)
(* or adds a commit of its own to a repository that has one, unless it     *)
(* misreads Git; and not even then where the memory has been used.         *)
THEOREM RecordedAlwaysStays ==
    ASSUME Exclusive PROVE Spec => RecordedStays
<1>1. Spec => []SureInv
    BY AllInv
<1>2. SureInv /\ [Next]_vars => [Sure' \/ files.memory = "used" => KeepsRecorded]_vars
    BY KeepsStep, UsedKeeps, SureBefore DEF SureInv
<1> QED BY <1>1, <1>2, PTL DEF Spec, RecordedStays

(* All runs that exit with 0 report the same mode and version, as long as  *)
(* none misread Git.                                                       *)
THEOREM ReportsAlwaysAgree ==
    ASSUME Exclusive PROVE Spec => []ReportsAgree
<1>1. Spec => []SureInv
    BY AllInv
<1>2. SureInv => ReportsAgree
    <2> SUFFICES ASSUME SharedType, InitInv, NEW r1 \in reported, NEW r2 \in reported
                 PROVE  r1 = r2
        BY DEF ReportsAgree, SureInv
    <2>1. r1 \in [mode : Mode, version : Version] /\ r2 \in [mode : Mode, version : Version]
        BY DEF SharedType
    <2>2. r1.mode = r2.mode /\ r1.version = r2.version
        BY DEF InitInv, ReportInv
    <2> QED BY <2>1, <2>2
<1> QED BY <1>1, <1>2, PTL

(* The other scripts only ever accept a workspace whose root commit was    *)
(* made by init_workspace.py, as long as no run misread Git.               *)
THEOREM ReadyAlwaysCommitted ==
    ASSUME Exclusive PROVE Spec => []ReadyIsCommitted
<1>1. Spec => []SureInv
    BY AllInv
<1>2. SureInv => ReadyIsCommitted
    BY DEF SureInv, InitInv, UnbornInv, ReadyIsCommitted, Ready
<1> QED BY <1>1, <1>2, PTL

-----------------------------------------------------------------------------
(* The memory mode. *)

LEMMA ModeHolds == Init => ModeInv
BY DEF Init, ModeInv, Running, NoTree, NoConfig

(* Nothing Fits and Prepared look at changes, and the script that moved is *)
(* where it has nothing to show or shows it.                               *)
LEMMA ModeKeeps ==
    ASSUME ModeInv, NEW p \in Proc, UNCHANGED <<files, staged, head, first, config, count>>,
           \A q \in Running' : q = p,
           count.extracts = 0 /\ pc'[p] # "idle" =>
              Prepared(p)' /\ (pc'[p] \in Recording => Fits(job[p].mode) /\ job'[p].mode = job[p].mode)
    PROVE  ModeInv'
BY DEF ModeInv, Fits, Running

LEMMA ExitMode ==
    ASSUME LocalType, OneRuns, ModeInv, NEW p \in Proc, pc[p] # "idle", Exit(p),
           UNCHANGED <<files, head, first, config>>,
           count'.extracts = count.extracts,
           count.extracts = 0 =>
              (head = NoTree /\ staged'.memory # "absent" => files.ignore # "shipped"),
           staged' = staged \/ config.mode = "unset"
    PROVE  ModeInv'
<1>1. Goto(p, "idle")
    BY DEF Exit
<1>2. pc'[p] = "idle" /\ \A q \in Running' : q = p
    BY <1>1, Alone
<1>3. Running' = {}
    BY <1>2 DEF Running
<1> QED BY <1>3 DEF ModeInv, Fits

LEMMA ModeStep ==
    ASSUME Exclusive, SharedType, LocalType, InitInv, ModeInv, Next, Sure'
    PROVE  ModeInv'
<1> USE DEF gitVars, history
<1>0. OneRuns
    BY DEF InitInv
<1>1. ASSUME NEW p \in Proc, pc[p] # "idle", Blocked(p) PROVE ModeInv'
    BY <1>0, <1>1, ExitMode DEF Blocked, ModeInv
<1>2. ASSUME NEW p \in Proc, NEW step \in Steps, pc[p] # "idle", Goto(p, step),
             UNCHANGED <<files, staged, head, first, config, count>>,
             job'[p].mode = job[p].mode,
             count.extracts = 0 /\ Prepared(p) /\ pc'[p] = step => Prepared(p)',
             step \in Recording => pc[p] \in Recording
      PROVE  ModeInv'
    <2>1. pc'[p] = step /\ \A q \in Running' : q = p
        BY <1>0, <1>2, Alone
    <2>2. count.extracts = 0 => Prepared(p) /\ (pc[p] \in Recording => Fits(job[p].mode))
        BY <1>2 DEF ModeInv, Running
    <2> QED BY <1>2, <2>1, <2>2, ModeKeeps
<1>3. ASSUME NEW p \in Proc, NEW mode \in Mode, NEW named \in BOOLEAN, Launch(p, mode, named)
      PROVE  ModeInv'
    <2>1. Running = {} /\ Goto(p, "root")
        BY <1>3 DEF Launch
    <2>2. pc'[p] = "root" /\ \A q \in Running' : q = p
        BY <2>1 DEF LocalType, Running, Goto
    <2>3. UNCHANGED <<files, staged, head, first, config>> /\ count'.extracts = count.extracts
        BY <1>3 DEF Launch, Bump, SharedType, Counters
    <2>4. Prepared(p)' /\ pc'[p] \notin Recording
        BY <2>2 DEF Prepared, Recording
    <2> QED BY <2>2, <2>3, <2>4 DEF ModeInv, Fits, Running
<1>4. ASSUME NEW p \in Proc, CheckRoot(p) PROVE ModeInv'
    <2>1. pc[p] = "root" /\ repo \in {"none", "parent", "own"}
        BY <1>4 DEF CheckRoot, SharedType
    <2>2. CASE repo = "parent"
        BY <1>4, <2>1, <2>2, <1>1 DEF CheckRoot
    <2>3. CASE repo # "parent"
        <3>1. PICK step \in {"validate", "head"} : Goto(p, step)
            BY <1>4, <2>1, <2>3 DEF CheckRoot, Pass
        <3>2. UNCHANGED <<files, staged, head, first, config, count>>
            BY <1>4, <2>1, <2>3 DEF CheckRoot, Pass
        <3>3. pc'[p] = step /\ \A q \in Running' : q = p
            BY <1>0, <2>1, <3>1, Alone
        <3>4. Prepared(p)' /\ pc'[p] \notin Recording
            BY <3>3 DEF Prepared, Recording
        <3> QED BY <3>2, <3>3, <3>4, ModeKeeps
    <2> QED BY <2>2, <2>3
<1>5. ASSUME NEW p \in Proc, CheckHead(p) \/ CheckExisting(p) PROVE ModeInv'
    <2>1. CASE Blocked(p)
        BY <1>5, <2>1, <1>1 DEF CheckHead, CheckExisting
    <2>2. CASE ~ Blocked(p)
        <3>1. PICK step \in {"validate", "existing", "check"} : Pass(p, step)
            BY <1>5, <2>2 DEF CheckHead, CheckExisting
        <3>2. pc[p] # "idle" /\ step \in Steps /\ step \notin Recording
            BY <1>5 DEF CheckHead, CheckExisting, Steps, Recording
        <3>3. pc'[p] = step => Prepared(p)'
            BY DEF Prepared
        <3> QED BY <3>1, <3>2, <3>3, <1>2 DEF Pass
    <2> QED BY <2>1, <2>2
<1>6. ASSUME NEW p \in Proc, CheckRecorded(p) \/ FinalCheck(p) PROVE ModeInv'
    BY <1>0, <1>1, <1>6, ExitMode DEF CheckRecorded, FinalCheck, ModeInv
<1>7. ASSUME NEW p \in Proc, Validate(p) PROVE ModeInv'
    <2>1. CASE Blocked(p)
        BY <1>7, <2>1, <1>1 DEF Validate
    <2>2. CASE ~ Blocked(p)
        <3>1. /\ pc[p] # "idle" /\ Pass(p, "init") /\ "init" \in Steps
              /\ "init" \notin Recording
              /\ files.ignore = "shipped" /\ files.memory = "shipped"
            BY <1>7, <2>2 DEF Validate, Release, Steps, Recording
        <3>2. pc'[p] = "init" => Prepared(p)'
            BY <3>1 DEF Prepared, Pass
        <3> QED BY <3>1, <3>2, <1>2 DEF Pass
    <2> QED BY <2>1, <2>2
<1>8. ASSUME NEW p \in Proc,
             GitInit(p) \/ SetIdentity(p, "name", "email") \/ SetIdentity(p, "email", "identity")
      PROVE  ModeInv'
    <2>1. PICK step \in {"remote", "email", "identity"} : Goto(p, step)
        BY <1>8 DEF GitInit, SetIdentity
    <2>2. /\ pc[p] \in {"init", "name", "email"} /\ pc[p] # "idle"
          /\ step \in Steps /\ step \notin Recording
          /\ UNCHANGED <<files, staged, head, first, config, count, job>>
        BY <1>8 DEF GitInit, SetIdentity, Steps, Recording
    <2>3. Prepared(p) /\ pc'[p] = step => Prepared(p)'
        BY <2>2 DEF Prepared
    <2> QED BY <2>1, <2>2, <2>3, <1>2
<1>9. ASSUME NEW p \in Proc, CheckRemote(p) \/ CheckIdentity(p) PROVE ModeInv'
    <2>1. CASE Blocked(p)
        BY <1>9, <2>1, <1>1 DEF CheckRemote, CheckIdentity
    <2>2. CASE ~ Blocked(p)
        <3>1. PICK step \in {"name", "identity", "stage", "ignore"} :
                 /\ Pass(p, step)
                 /\ step = "stage" => job[p].mode = "untracked"
            BY <1>9, <2>2 DEF CheckRemote, CheckIdentity
        <3>2. /\ pc[p] \in {"remote", "identity"} /\ pc[p] # "idle"
              /\ step \in Steps /\ step \notin Recording
            BY <1>9 DEF CheckRemote, CheckIdentity, Steps, Recording
        <3>3. Prepared(p) /\ pc'[p] = step => Prepared(p)'
            BY <3>1, <3>2 DEF Prepared, Pass
        <3> QED BY <3>1, <3>2, <3>3, <1>2 DEF Pass
    <2> QED BY <2>1, <2>2
<1>10. ASSUME NEW p \in Proc, ReadIgnore(p) \/ CheckStaged(p) PROVE ModeInv'
    <2>1. CASE Blocked(p)
        BY <1>10, <2>1, <1>1 DEF ReadIgnore, CheckStaged
    <2>2. CASE ~ Blocked(p)
        <3>1. PICK step \in {"truncate", "commit"} :
                 /\ Pass(p, step)
                 /\ pc[p] = IF step = "truncate" THEN "ignore" ELSE "safety"
            BY <1>10, <2>2 DEF ReadIgnore, CheckStaged
        <3>2. pc[p] # "idle" /\ step \in Steps /\ step \notin Recording
            BY <3>1 DEF Steps, Recording
        <3>3. Prepared(p) /\ pc'[p] = step => Prepared(p)'
            BY <3>1 DEF Prepared, Pass
        <3> QED BY <3>1, <3>2, <3>3, <1>2 DEF Pass
    <2> QED BY <2>1, <2>2
<1>11. ASSUME NEW p \in Proc, pc[p] \in Fresh
       PROVE  /\ pc[p] # "idle" /\ head = NoTree /\ commits = 0
              /\ config.mode = "unset" /\ job[p].mode \in Mode
              /\ pc[p] = "block" => job[p].mode \in Blocks
    BY <1>11
       DEF InitInv, RunInv, UnbornInv, Placed, Running, Fresh, NoConfig, LocalType, JobInv
<1>12. ASSUME NEW p \in Proc, TruncateIgnore(p) \/ WriteIgnore(p) PROVE ModeInv'
    <2>1. PICK step \in {"block", "stage"} :
             /\ Goto(p, step)
             /\ pc[p] = IF step = "block" THEN "truncate" ELSE "block"
             /\ SetIgnore(IF step = "block" THEN "empty" ELSE job[p].mode)
        BY <1>12 DEF TruncateIgnore, WriteIgnore
    <2>2. UNCHANGED <<staged, head, first, config, count, job>>
        BY <1>12 DEF TruncateIgnore, WriteIgnore
    <2>3. pc[p] \in Fresh /\ pc[p] # "idle" /\ step \notin Recording
        BY <2>1 DEF Fresh, Recording
    <2>4. config.mode = "unset" /\ (step = "stage" => job[p].mode \in Blocks)
        BY <2>1, <2>3, <1>11
    <2>5. pc'[p] = step /\ \A q \in Running' : q = p
        BY <1>0, <2>1, <2>3, Alone
    <2>6. files'.ignore # "shipped" /\ files'.memory = files.memory
        BY <2>1, <2>4 DEF SetIgnore, SharedType, Tree, Blocks
    <2>7. step = "stage" => files'.ignore = job[p].mode
        BY <2>1 DEF SetIgnore, SharedType, Tree
    <2>8. count.extracts = 0 => Prepared(p)'
        <3>1. count.extracts = 0 => Prepared(p)
            BY <2>3 DEF ModeInv, Running
        <3> QED BY <3>1, <2>1, <2>2, <2>4, <2>5, <2>6, <2>7 DEF Prepared, Blocks
    <2> QED BY <2>2, <2>3, <2>4, <2>5, <2>6, <2>8 DEF ModeInv, Running
<1>13. ASSUME NEW p \in Proc, Stage(p) PROVE ModeInv'
    <2>1. /\ pc[p] = "stage" /\ pc[p] \in Fresh
          /\ UNCHANGED <<files, head, first, config, count>>
        BY <1>13 DEF Stage, Fresh
    <2>2. head = NoTree /\ config.mode = "unset" /\ job[p].mode \in Mode /\ pc[p] # "idle"
        BY <2>1, <1>11
    <2>3. count.extracts = 0 =>
             IF job[p].mode = "untracked" THEN files.ignore = "shipped" /\ staged.memory = "absent"
             ELSE files.ignore = job[p].mode /\ files.memory = "shipped" /\ files.ignore # "shipped"
        BY <2>1, <2>2 DEF ModeInv, Prepared, Running, Mode, Blocks
    <2>4. \/ staged' = staged
          \/ /\ staged'.ignore = files.ignore
             /\ \/ staged'.memory = staged.memory
                \/ staged'.memory = files.memory /\ job[p].mode # "untracked"
        BY <1>13 DEF Stage, SharedType, Tree
    <2>5. count.extracts = 0 /\ staged'.memory # "absent" => files.ignore # "shipped"
        BY <2>3, <2>4
    <2>6. CASE Exit(p)
        BY <1>0, <2>1, <2>2, <2>5, <2>6, ExitMode
    <2>7. CASE ~ Exit(p)
        <3>1. /\ Goto(p, "safety") /\ UNCHANGED job
              /\ staged'.ignore = files.ignore
              /\ staged'.memory = IF job[p].mode = "untracked" THEN staged.memory
                                  ELSE files.memory
            BY <1>13, <2>7 DEF Stage, SharedType, Tree
        <3>2. pc'[p] = "safety" /\ \A q \in Running' : q = p
            BY <1>0, <2>2, <3>1, Alone
        <3>3. count.extracts = 0 => Prepared(p)'
            BY <2>1, <2>3, <3>1, <3>2 DEF Prepared
        <3> QED BY <2>1, <2>2, <2>5, <3>2, <3>3 DEF ModeInv, Running, Recording
    <2> QED BY <2>6, <2>7
<1>14. ASSUME NEW p \in Proc, Commit(p) PROVE ModeInv'
    <2>1. CASE Blocked(p)
        BY <1>14, <2>1, <1>1 DEF Commit
    <2>2. CASE ~ Blocked(p)
        <3>1. /\ pc[p] = "commit" /\ pc[p] \in Fresh /\ staged # head /\ staged' = staged
              /\ AddCommit("init") /\ Goto(p, "read")
              /\ UNCHANGED <<files, config, count, job>>
            BY <1>14, <2>2 DEF Commit, Fresh
        <3>2. head = NoTree /\ commits = 0 /\ config.mode = "unset" /\ pc[p] # "idle"
            BY <3>1, <1>11
        <3>3. head' = staged /\ first'.tree = staged /\ head' # NoTree
            BY <3>1, <3>2 DEF AddCommit
        <3>4. pc'[p] = "read" /\ \A q \in Running' : q = p
            BY <1>0, <3>1, <3>2, Alone
        <3>5. count.extracts = 0 => Fits(job[p].mode)'
            BY <3>1, <3>2, <3>3 DEF ModeInv, Prepared, Running, Fits
        <3>6. Prepared(p)'
            BY <3>4 DEF Prepared
        <3> QED BY <3>1, <3>2, <3>3, <3>4, <3>5, <3>6 DEF ModeInv, Running
    <2> QED BY <2>1, <2>2
<1>15. ASSUME NEW p \in Proc, ReadCommit(p) PROVE ModeInv'
    <2>1. /\ pc[p] = "read" /\ Goto(p, "initialized") /\ "initialized" \in Steps
          /\ UNCHANGED <<files, staged, head, first, config, count>>
          /\ job' = [job EXCEPT ![p] = WithCommit(@, commits)]
        BY <1>15 DEF ReadCommit, Steps
    <2>2. job'[p].mode = job[p].mode
        BY <2>1 DEF LocalType, WithCommit, Job
    <2>3. pc'[p] = "initialized" => Prepared(p)'
        BY DEF Prepared
    <2> QED BY <2>1, <2>2, <2>3, <1>2 DEF Recording
<1>16. ASSUME NEW p \in Proc, RecordKeys(p) PROVE ModeInv'
    <2>1. PICK step \in {"mode", "version", "initial", "final"} : Goto(p, step)
        BY <1>16 DEF RecordKeys, Record
    <2>2. /\ pc[p] \in {"initialized", "mode", "version", "initial"} /\ pc[p] # "idle"
          /\ UNCHANGED <<files, staged, head, first, count, job>>
          /\ config'.mode \in {config.mode, job[p].mode}
        BY <1>16 DEF RecordKeys, Record, SharedType, Config
    <2>3. pc'[p] = step /\ \A q \in Running' : q = p
        BY <1>0, <2>1, <2>2, Alone
    <2>4. count.extracts = 0 => Fits(job[p].mode)
        BY <2>2 DEF ModeInv, Running, Recording
    <2>5. Prepared(p)'
        BY <2>3 DEF Prepared
    <2> QED BY <2>2, <2>3, <2>4, <2>5 DEF ModeInv, Fits, Running
<1>17. ASSUME NEW p \in Proc, Abort(p) PROVE ModeInv'
    <2>1. count'.extracts = count.extracts
        BY <1>17 DEF Abort, Bump, SharedType, Counters
    <2> QED BY <1>0, <1>17, <2>1, ExitMode DEF Abort, ModeInv
<1>18. ASSUME UserCommit PROVE ModeInv'
    <2>1. /\ Running = {} /\ AddCommit("user")
          /\ UNCHANGED <<files, config, pc>> /\ count'.extracts = count.extracts
        BY <1>18 DEF UserCommit, Undisturbed, Bump, SharedType, Counters
    <2>2. head' # NoTree
        BY <1>18, <2>1, Constants DEF UserCommit, AddCommit, NoTree, SharedType, Tree
    <2>3. config.mode # "unset" => commits # 0
        BY DEF InitInv, UnbornInv, NoConfig
    <2>4. staged.memory = "absent" /\ files.ignore = "shipped" => staged'.memory = "absent"
        BY <1>18 DEF UserCommit, SharedType, Tree
    <2> QED BY <2>1, <2>2, <2>3, <2>4 DEF ModeInv, Fits, AddCommit, Running
<1>19. ASSUME EditMemory PROVE ModeInv'
    <2>1. Running = {} /\ files'.ignore = files.ignore
        BY <1>19 DEF EditMemory, Undisturbed, SharedType, Tree
    <2> QED BY <1>19, <2>1 DEF EditMemory, ModeInv, Fits, Running
<1>20. ASSUME AddRemote PROVE ModeInv'
    BY <1>20 DEF AddRemote, ModeInv, Fits, Prepared, Running
<1>21. ASSUME NEW v \in Version, Extract(v) PROVE ModeInv'
    <2>1. count'.extracts # 0
        BY <1>21 DEF Extract, Bump, SharedType, Counters
    <2> QED BY <2>1 DEF ModeInv
<1> QED
    BY <1>3, <1>4, <1>5, <1>6, <1>7, <1>8, <1>9, <1>10, <1>12, <1>13, <1>14, <1>15, <1>16,
       <1>17, <1>18, <1>19, <1>20, <1>21, MisreadCounts
       DEF Next, Step, Environment

(* The mode that is recorded is the one the root commit was made for, and  *)
(* in untracked mode the memory never enters Git, as long as no release is *)
(* extracted again and no run misreads Git.                                *)
THEOREM ModeAlwaysMatches ==
    ASSUME Exclusive PROVE Spec => []ModeMatchesHistory
<1>1. Spec => []SureInv
    BY AllInv
<1>2. SureInv /\ (Sure => ModeInv) /\ [Next]_vars => (Sure => ModeInv)'
    <2>1. ASSUME UNCHANGED vars, Sure => ModeInv PROVE (Sure => ModeInv)'
        BY <2>1 DEF vars, gitVars, history, ModeInv, Fits, Prepared, Running, Sure
    <2> QED BY <2>1, ModeStep, SureBefore DEF SureInv
<1>3. (Sure => ModeInv) => ModeMatchesHistory
    BY DEF ModeInv, ModeMatchesHistory, Fits, Blocks
<1> QED BY <1>1, <1>2, <1>3, ModeHolds, PTL DEF Spec

-----------------------------------------------------------------------------
(* The refusal of an existing repository. *)

(* A step changes what UnrecordedInv looks at by a kill, by the root commit *)
(* and between it and the record.                                          *)
LEMMA UnrecordedStep ==
    ASSUME SharedType, LocalType, UnrecordedInv, Next
    PROVE  UnrecordedInv'
<1> USE DEF gitVars, history
<1> DEFINE Owes(q) == pc[q] \in {"read", "initialized"}
<1>1. ASSUME NEW p \in Proc, ~ Owes(p), UNCHANGED <<first, config>>,
             \A q \in Proc \ {p} : pc'[q] = pc[q],
             count'.faults = 0 => count.faults = 0
      PROVE  UnrecordedInv'
    BY <1>1 DEF UnrecordedInv
<1>2. ASSUME NEW p \in Proc, NEW step, Goto(p, step)
      PROVE  /\ pc'[p] = step
             /\ \A q \in Proc \ {p} : pc'[q] = pc[q]
    BY <1>2 DEF Goto, LocalType
<1>3. ASSUME NEW p \in Proc, NEW mode \in Mode, NEW named \in BOOLEAN,
             Launch(p, mode, named)
      PROVE  UnrecordedInv'
    <2>1. Goto(p, "root") /\ ~ Owes(p) /\ UNCHANGED <<first, config>>
        BY <1>3 DEF Launch
    <2>2. count'.faults = count.faults
        BY <1>3 DEF Launch, Bump, SharedType, Counters
    <2> QED BY <1>1, <1>2, <2>1, <2>2
<1>4. ASSUME NEW p \in Proc,
             CheckRoot(p) \/ CheckHead(p) \/ CheckExisting(p) \/ CheckRecorded(p)
                \/ Validate(p) \/ GitInit(p) \/ CheckRemote(p)
                \/ SetIdentity(p, "name", "email") \/ SetIdentity(p, "email", "identity")
                \/ CheckIdentity(p) \/ ReadIgnore(p) \/ TruncateIgnore(p) \/ WriteIgnore(p)
                \/ Stage(p) \/ CheckStaged(p) \/ FinalCheck(p) \/ Misread(p)
      PROVE  UnrecordedInv'
    <2>1. /\ ~ Owes(p) /\ UNCHANGED <<first, config>> /\ count'.faults = count.faults
          /\ \E step : Goto(p, step)
        BY <1>4
           DEF CheckRoot, CheckHead, CheckExisting, CheckRecorded, Validate, GitInit,
               CheckRemote, SetIdentity, CheckIdentity, ReadIgnore, TruncateIgnore,
               WriteIgnore, Stage, CheckStaged, FinalCheck, Misread, Bump, Blocked, Pass, Exit,
               SharedType, Counters
    <2> QED BY <1>1, <1>2, <2>1
<1>5. ASSUME NEW p \in Proc, Commit(p) PROVE UnrecordedInv'
    <2>1. CASE Blocked(p)
        BY <1>1, <1>2, <1>5, <2>1 DEF Commit, Blocked, Exit
    <2>2. CASE ~ Blocked(p)
        BY <1>2, <1>5, <2>2 DEF Commit, UnrecordedInv
    <2> QED BY <2>1, <2>2
<1>6. ASSUME NEW p \in Proc, ReadCommit(p) PROVE UnrecordedInv'
    BY <1>2, <1>6 DEF ReadCommit, UnrecordedInv
<1>7. ASSUME NEW p \in Proc, RecordKeys(p) PROVE UnrecordedInv'
    <2>1. CASE pc[p] = "initialized"
        BY <1>7, <2>1 DEF RecordKeys, Record, UnrecordedInv, SharedType, Config
    <2>2. CASE pc[p] # "initialized"
        <3>1. /\ ~ Owes(p) /\ UNCHANGED <<first, count>>
              /\ config'.initialized = config.initialized
              /\ \E step : Goto(p, step)
            BY <1>7, <2>2 DEF RecordKeys, Record, SharedType, Config
        <3> QED BY <1>2, <3>1 DEF UnrecordedInv
    <2> QED BY <2>1, <2>2
<1>8. ASSUME NEW p \in Proc, Abort(p) PROVE UnrecordedInv'
    <2>1. count'.faults # 0
        BY <1>8 DEF Abort, Bump, SharedType, Counters
    <2> QED BY <2>1 DEF UnrecordedInv
<1>9. ASSUME Environment PROVE UnrecordedInv'
    <2>1. UNCHANGED <<config, pc>> /\ count'.faults = count.faults
        BY <1>9 DEF Environment, EditMemory, UserCommit, AddRemote, Extract, Bump,
                    SharedType, Counters
    <2>2. first'.by = "init" => first.by = "init"
        BY <1>9 DEF Environment, EditMemory, UserCommit, AddRemote, Extract, AddCommit
    <2> QED BY <2>1, <2>2 DEF UnrecordedInv
<1> QED
    BY <1>3, <1>4, <1>5, <1>6, <1>7, <1>8, <1>9 DEF Next, Step

(* Until a run was killed, or a command of it failed, the refusal "Existing *)
(* Git history was not created by init_workspace.py" is true. The run      *)
(* init_refusal shows that one kill is enough for a false one.             *)
THEOREM RefusedTruthfullyUnlessKilled ==
    ASSUME Exclusive PROVE Spec => [](count.faults = 0 => RefusalIsTruthful)
<1>1. Spec => []SureInv
    BY AllInv
<1>2. Init => UnrecordedInv
    BY DEF Init, UnrecordedInv
<1>3. SureInv /\ UnrecordedInv /\ [Next]_vars => UnrecordedInv'
    <2>1. ASSUME UNCHANGED vars, UnrecordedInv PROVE UnrecordedInv'
        BY <2>1 DEF vars, gitVars, history, UnrecordedInv
    <2> QED BY <2>1, UnrecordedStep DEF SureInv
<1>4. SureInv /\ UnrecordedInv => (count.faults = 0 => RefusalIsTruthful)
    <2> SUFFICES ASSUME OneRuns, UnrecordedInv, count.faults = 0, first.by = "init",
                        ~ config.initialized, NEW p \in Proc, pc[p] = "existing"
                 PROVE  FALSE
        BY DEF SureInv, RefusalIsTruthful
    <2>1. PICK q \in Proc : pc[q] \in {"read", "initialized"}
        BY DEF UnrecordedInv
    <2> QED BY <2>1 DEF OneRuns, Running
<1> QED BY <1>1, <1>2, <1>3, <1>4, PTL DEF Spec

===============================================================================
