--------------------------- MODULE RuntimeProbeProofs ---------------------------
(***************************************************************************)
(* Safety of the runtime probe, for any deadlines and any server.          *)
(***************************************************************************)
EXTENDS RuntimeProbe, TLAPS

(* The constants the code fixes.                                           *)
LEMMA Constants ==
    /\ Requests = 5
    /\ \A i \in 1 .. 5 : CheckOf[i] \in REQUIRED_CHECKS /\ CheckOf[i] # "none"
    /\ "app_server_initialize" \in REQUIRED_CHECKS
    /\ "workspace_git_root" \in REQUIRED_CHECKS
    /\ "codex_version" \in REQUIRED_CHECKS
    /\ "workspace_unchanged" \in REQUIRED_CHECKS
    /\ "app_server_initialize" # "none"
    /\ "none" \notin REQUIRED_CHECKS /\ "none" \notin Status
    /\ CheckOf[1] = "app_server_initialize"
BY RequestsAssumption, StatusAssumption DEF Methods, CheckOf, REQUIRED_CHECKS

(* No answers yet.                                                         *)
LEMMA EmptyAnswers == <<>> \in Seq(0 .. Requests - 1)
OBVIOUS

(* answers is a sequence.                                                  *)
LEMMA AnswersLength == TypeOK => Len(answers) \in Nat
BY DEF TypeOK

(* Lines stay lines when they are appended.                                *)
LEMMA AppendLine ==
    /\ \A s \in Seq(Line), e \in Line : Append(s, e) \in Seq(Line)
    /\ \A s \in Seq(Line \cup {Eof}), e \in Line \cup {Eof} :
         Append(s, e) \in Seq(Line \cup {Eof})
OBVIOUS

(* Every step keeps the types.                                             *)
LEMMA TypeStep ==
    ASSUME ProbeInv, [Next]_vars
    PROVE  TypeOK'
<1> USE DEF ProbeInv, TypeOK, ClientTypeOK, Steps
<1>1. CASE CheckArguments
  <2>1. CASE Goto("version") /\ home' = TRUE /\ UNCHANGED checks
    BY <1>1, <2>1, Constants DEF CheckArguments, Goto, clientVars
  <2>2. ASSUME NEW c \in {"workspace_git_root", "app_server_initialize"}, RecordFailure(c),
               Goto("report"), UNCHANGED home
        PROVE  TypeOK'
    <3>1. c \in REQUIRED_CHECKS
      BY Constants
    <3> QED
      BY <1>1, <2>2, <3>1 DEF CheckArguments, RecordFailure, Goto, clientVars
  <2> QED
    BY <1>1, <2>1, <2>2 DEF CheckArguments
<1>2. CASE CodexVersion
  BY <1>2, Constants, ClientAssumption DEF CodexVersion, Goto, Validate, Judge,
       RecordPass, RecordFailure, clientVars, resultVars
<1>3. CASE GitRoot
  BY <1>3, Constants, ClientAssumption DEF GitRoot, Goto, Judge, RecordPass,
       RecordFailure, clientVars, resultVars
<1>4. CASE StaticConfig
  BY <1>4, Constants, ClientAssumption DEF StaticConfig, Goto, Validate, Judge,
       RecordPass, RecordFailure, clientVars, resultVars
<1>5. CASE Roles
  BY <1>5, Constants, ClientAssumption DEF Roles, Goto, Validate, Judge, RecordPass,
       RecordFailure, clientVars, resultVars
<1>6. CASE CannotStart
  BY <1>6, Constants, ClientAssumption DEF CannotStart, Goto, KeepResult, clientVars,
       resultVars
<1>7. CASE Start
  BY <1>7, Constants, ClientAssumption DEF Start, Goto, Connect, KeepResult, clientVars,
       resultVars
<1>8. CASE Request
  <2>1. /\ nextId \in 0 .. 4 /\ CheckOf[nextId + 1] \in REQUIRED_CHECKS
    BY <1>8, Constants DEF Request, RequestInv
  <2>2. CASE SendRequest /\ Goto("deadline") /\ UNCHANGED <<answers, failure>>
    BY <1>8, <2>1, <2>2, Constants, ClientAssumption DEF Request, SendRequest, Goto,
         KeepResult, resultVars
  <2>3. CASE SendFails /\ Unwind(CheckOf[nextId + 1])
    BY <1>8, <2>1, <2>3, Constants, ClientAssumption, EmptyAnswers DEF Request,
         SendFails, Unwind, Goto, KeepResult, resultVars
  <2> QED
    BY <1>8, <2>2, <2>3 DEF Request
<1>9. CASE CheckDeadline
  <2>1. CheckOf[nextId] \in REQUIRED_CHECKS
    BY <1>9, Constants, AnswersLength DEF CheckDeadline, RequestInv
  <2>2. CASE clock > 0 /\ Goto("get") /\ UNCHANGED <<clientVars, answers, failure>>
    BY <1>9, <2>2 DEF CheckDeadline, Goto, KeepResult, clientVars, resultVars
  <2>3. CASE clock = 0 /\ Unwind(CheckOf[nextId]) /\ UNCHANGED clientVars
    BY <1>9, <2>1, <2>3, EmptyAnswers DEF CheckDeadline, Goto, Unwind, KeepResult,
         clientVars, resultVars
  <2> QED
    BY <1>9, <2>2, <2>3 DEF CheckDeadline
<1>10. CASE Get
  <2>1. /\ queue \in Seq(Line \cup {Eof}) /\ queue # <<>> /\ nextId \in 1 .. 5
        /\ Head(queue) \in Line \cup {Eof} /\ Tail(queue) \in Seq(Line \cup {Eof})
    BY <1>10, Constants DEF Get, RequestInv
  <2>2. IsAnswer(Head(queue)) => Head(queue).id \in 0 .. 4
    BY <2>1, Constants DEF IsAnswer, Line, Eof
  <2>3. answers' \in Seq(0 .. Requests - 1)
    <3>1. CASE answers' = Append(answers, Head(queue).id) /\ IsAnswer(Head(queue))
      BY <2>2, <3>1, Constants
    <3> QED
      BY <1>10, <3>1, EmptyAnswers DEF Get, Unwind
  <2>4. failure' \in REQUIRED_CHECKS \cup {"none"} /\ pc' \in Steps
    BY <1>10, <2>1, Constants DEF Get, Unwind, Goto, Returned
  <2> QED
    BY <1>10, <2>1, <2>3, <2>4 DEF Get, Take, KeepResult, resultVars
<1>11. CASE GetTimesOut
  BY <1>11, Constants, ClientAssumption DEF GetTimesOut, Goto, Unwind, KeepResult,
       clientVars, resultVars, RequestInv
<1>12. CASE Notify
  <2>1. answers' \in Seq(0 .. Requests - 1)
    BY <1>12, EmptyAnswers DEF Notify, Unwind
  <2>2. failure' \in REQUIRED_CHECKS \cup {"none"} /\ pc' \in Steps
    BY <1>12, Constants DEF Notify, Goto, Unwind
  <2> QED
    BY <1>12, <2>1, <2>2 DEF Notify, KeepResult, clientVars, resultVars
<1>13. CASE Close
  BY <1>13, Constants, ClientAssumption DEF Close, Goto, CloseStdin, KeepResult,
       clientVars, resultVars
<1>14. CASE ChildEnded
  BY <1>14, Constants, ClientAssumption DEF ChildEnded, Goto, Drop, Waiting, KeepResult,
       clientVars, resultVars
<1>15. CASE Terminate
  BY <1>15, Constants, ClientAssumption DEF Terminate, Goto, SendSignal, KeepResult,
       clientVars, resultVars
<1>16. CASE Kill
  BY <1>16, Constants, ClientAssumption DEF Kill, Goto, SendSignal, KeepResult,
       clientVars, resultVars
<1>17. CASE GiveUp
  BY <1>17, Constants, ClientAssumption DEF GiveUp, Goto, clientVars, resultVars
<1>18. CASE NotCollected
  BY <1>18, Constants, ClientAssumption DEF NotCollected, Goto, RecordFailure,
       clientVars, resultVars
<1>19. CASE Collected
  BY <1>19, Constants, ClientAssumption DEF Collected, Goto, clientVars, resultVars
<1>20. CASE ValidateInitialize
  BY <1>20, Constants, ClientAssumption DEF ValidateInitialize, Goto, Validate, Judge,
       RecordPass, RecordFailure, clientVars, resultVars
<1>21. CASE ValidateRuntimeConfig
  BY <1>21, Constants, ClientAssumption DEF ValidateRuntimeConfig, Goto, Validate,
       Judge, RecordPass, RecordFailure, clientVars, resultVars
<1>22. CASE ValidateSkills
  BY <1>22, Constants, ClientAssumption DEF ValidateSkills, Goto, Validate, Judge,
       RecordPass, RecordFailure, clientVars, resultVars
<1>23. CASE ValidateHooks
  BY <1>23, Constants, ClientAssumption DEF ValidateHooks, Goto, Validate, Judge,
       RecordPass, RecordFailure, clientVars, resultVars
<1>24. CASE ValidateThread
  BY <1>24, Constants, ClientAssumption DEF ValidateThread, Goto, Judge, RecordPass,
       RecordFailure, clientVars, resultVars
<1>25. CASE UnexpectedError
  BY <1>25, Constants, ClientAssumption DEF UnexpectedError, Goto, clientVars,
       resultVars
<1>26. CASE EvaluateExecpolicy
  BY <1>26, Constants, ClientAssumption DEF EvaluateExecpolicy, Goto, Judge, RecordPass,
       RecordFailure, clientVars, resultVars
<1>27. CASE FinalSnapshot
  BY <1>27, Constants, ClientAssumption DEF FinalSnapshot, Goto, RecordPass,
       RecordFailure, FinalCheck, clientVars, resultVars
<1>28. CASE RemoveHome
  BY <1>28, Constants, ClientAssumption DEF RemoveHome, Goto, clientVars, resultVars
<1>29. CASE GiveVerdict
  BY <1>29, Constants, ClientAssumption DEF GiveVerdict, Goto, clientVars, resultVars
<1>30. CASE Clock
  BY <1>30, Constants, ClientAssumption DEF Clock, Tick, probeVars, resultVars
<1>31. CASE Reader
  <2>1. CASE ReadLine
    <3>1. /\ Head(stdout) \in Line /\ Tail(stdout) \in Seq(Line)
          /\ Append(queue, Head(stdout)) \in Seq(Line \cup {Eof})
      BY <2>1, AppendLine DEF ReadLine
    <3> QED
      BY <1>31, <2>1, <3>1 DEF Reader, ReadLine, probeVars, resultVars
  <2>2. CASE ReadEof
    BY <1>31, <2>2, AppendLine DEF Reader, ReadEof, probeVars, resultVars
  <2> QED
    BY <1>31, <2>1, <2>2 DEF Reader, ReadStdout
<1>32. CASE Environment
  <2>1. ASSUME NEW line \in Line, Write(line)
        PROVE  stdout' \in Seq(Line)
    BY <2>1, AppendLine DEF Write
  <2> QED
    BY <1>32, <2>1 DEF Environment, Write, End, ChangeWorkspace, probeVars, resultVars,
         clientVars
<1>33. CASE UNCHANGED vars
  BY <1>33, Constants, ClientAssumption DEF vars, clientVars, resultVars
<1> QED
  BY <1>1, <1>2, <1>3, <1>4, <1>5, <1>6, <1>7, <1>8, <1>9, <1>10, <1>11, <1>12, <1>13,
       <1>14, <1>15, <1>16, <1>17, <1>18, <1>19, <1>20, <1>21, <1>22, <1>23, <1>24,
       <1>25, <1>26, <1>27, <1>28, <1>29, <1>30, <1>31, <1>32, <1>33 DEF Next, Main

(* No step changes a check that has been judged.                           *)
LEMMA ChecksStay ==
    ASSUME ProbeInv, [Next]_vars
    PROVE  \A c \in REQUIRED_CHECKS : checks[c] # "NOT_RUN" => checks'[c] = checks[c]
<1> USE DEF ProbeInv, TypeOK, ChecksInv, Judged, REQUIRED_CHECKS, ToVersion, ToGit,
     ToStatic, ToRoles, ToInitialize, ToConfig, ToSkills, ToHooks, ToThread,
     ToExecpolicy, ToFinal, InWith
<1>1. CASE CheckArguments
  BY <1>1 DEF CheckArguments, Goto, RecordFailure, clientVars, resultVars
<1>2. CASE CodexVersion
  BY <1>2 DEF CodexVersion, Goto, Validate, Judge, RecordPass, RecordFailure,
       clientVars, resultVars
<1>3. CASE GitRoot
  BY <1>3 DEF GitRoot, Goto, Judge, RecordPass, RecordFailure, clientVars, resultVars
<1>4. CASE StaticConfig
  BY <1>4 DEF StaticConfig, Goto, Validate, Judge, RecordPass, RecordFailure,
       clientVars, resultVars
<1>5. CASE Roles
  BY <1>5 DEF Roles, Goto, Validate, Judge, RecordPass, RecordFailure, clientVars,
       resultVars
<1>6. CASE CannotStart
  BY <1>6 DEF CannotStart, Goto, KeepResult, clientVars, resultVars
<1>7. CASE Start
  BY <1>7 DEF Start, Goto, Connect, KeepResult, clientVars, resultVars
<1>8. CASE Request
  BY <1>8 DEF Request, Goto, SendRequest, SendFails, Unwind, KeepResult, clientVars,
       resultVars
<1>9. CASE CheckDeadline
  BY <1>9 DEF CheckDeadline, Goto, Unwind, KeepResult, clientVars, resultVars
<1>10. CASE Get
  BY <1>10 DEF Get, Goto, Take, Unwind, KeepResult, Returned, IsAnswer, IsNotification,
       clientVars, resultVars
<1>11. CASE GetTimesOut
  BY <1>11 DEF GetTimesOut, Goto, Unwind, KeepResult, clientVars, resultVars
<1>12. CASE Notify
  BY <1>12 DEF Notify, Goto, Unwind, KeepResult, clientVars, resultVars
<1>13. CASE Close
  BY <1>13 DEF Close, Goto, CloseStdin, KeepResult, clientVars, resultVars
<1>14. CASE ChildEnded
  BY <1>14 DEF ChildEnded, Goto, Drop, Waiting, KeepResult, clientVars, resultVars
<1>15. CASE Terminate
  BY <1>15 DEF Terminate, Goto, SendSignal, KeepResult, clientVars, resultVars
<1>16. CASE Kill
  BY <1>16 DEF Kill, Goto, SendSignal, KeepResult, clientVars, resultVars
<1>17. CASE GiveUp
  BY <1>17 DEF GiveUp, Goto, clientVars, resultVars
<1>18. CASE NotCollected
  BY <1>18 DEF NotCollected, Goto, RecordFailure, clientVars, resultVars, RequestInv,
       CheckOf
<1>19. CASE Collected
  BY <1>19 DEF Collected, Goto, clientVars, resultVars
<1>20. CASE ValidateInitialize
  BY <1>20 DEF ValidateInitialize, Goto, Validate, Judge, RecordPass, RecordFailure,
       clientVars, resultVars
<1>21. CASE ValidateRuntimeConfig
  BY <1>21 DEF ValidateRuntimeConfig, Goto, Validate, Judge, RecordPass, RecordFailure,
       clientVars, resultVars
<1>22. CASE ValidateSkills
  BY <1>22 DEF ValidateSkills, Goto, Validate, Judge, RecordPass, RecordFailure,
       clientVars, resultVars
<1>23. CASE ValidateHooks
  BY <1>23 DEF ValidateHooks, Goto, Validate, Judge, RecordPass, RecordFailure,
       clientVars, resultVars
<1>24. CASE ValidateThread
  BY <1>24 DEF ValidateThread, Goto, Judge, RecordPass, RecordFailure, clientVars,
       resultVars
<1>25. CASE UnexpectedError
  BY <1>25 DEF UnexpectedError, Goto, clientVars, resultVars
<1>26. CASE EvaluateExecpolicy
  BY <1>26 DEF EvaluateExecpolicy, Goto, Judge, RecordPass, RecordFailure, clientVars,
       resultVars
<1>27. CASE FinalSnapshot
  BY <1>27 DEF FinalSnapshot, Goto, RecordPass, RecordFailure, FinalCheck, clientVars,
       resultVars
<1>28. CASE RemoveHome
  BY <1>28 DEF RemoveHome, Goto, clientVars, resultVars
<1>29. CASE GiveVerdict
  BY <1>29 DEF GiveVerdict, Goto, clientVars, resultVars
<1>30. CASE Clock
  BY <1>30 DEF Clock, Tick, probeVars, resultVars
<1>31. CASE Reader
  BY <1>31 DEF Reader, ReadStdout, ReadLine, ReadEof, probeVars, resultVars
<1>32. CASE Environment
  BY <1>32 DEF Environment, Write, End, ChangeWorkspace, probeVars, resultVars,
       clientVars
<1>33. CASE UNCHANGED vars
  BY <1>33 DEF vars, clientVars, resultVars
<1> QED
  BY <1>1, <1>2, <1>3, <1>4, <1>5, <1>6, <1>7, <1>8, <1>9, <1>10, <1>11, <1>12, <1>13,
       <1>14, <1>15, <1>16, <1>17, <1>18, <1>19, <1>20, <1>21, <1>22, <1>23, <1>24,
       <1>25, <1>26, <1>27, <1>28, <1>29, <1>30, <1>31, <1>32, <1>33 DEF Next, Main

(* Each check is judged at a step of its own.                              *)
LEMMA ChecksStep ==
    ASSUME ProbeInv, [Next]_vars
    PROVE  ChecksInv'
<1> USE DEF ProbeInv, TypeOK, ChecksInv, Judged, Failed, REQUIRED_CHECKS, ToVersion,
     ToGit, ToStatic, ToRoles, ToInitialize, ToConfig, ToSkills, ToHooks, ToThread,
     ToExecpolicy, ToFinal, InWith
<1>1. CASE CheckArguments
  BY <1>1, Constants DEF CheckArguments, Goto, RecordFailure, clientVars, resultVars
<1>2. CASE CodexVersion
  BY <1>2, Constants DEF CodexVersion, Goto, Validate, Judge, RecordPass, RecordFailure,
       clientVars, resultVars
<1>3. CASE GitRoot
  BY <1>3, Constants DEF GitRoot, Goto, Judge, RecordPass, RecordFailure, clientVars,
       resultVars
<1>4. CASE StaticConfig
  BY <1>4, Constants DEF StaticConfig, Goto, Validate, Judge, RecordPass, RecordFailure,
       clientVars, resultVars
<1>5. CASE Roles
  BY <1>5, Constants DEF Roles, Goto, Validate, Judge, RecordPass, RecordFailure,
       clientVars, resultVars
<1>6. CASE CannotStart
  BY <1>6, Constants DEF CannotStart, Goto, KeepResult, clientVars, resultVars
<1>7. CASE Start
  BY <1>7, Constants DEF Start, Goto, Connect, KeepResult, clientVars, resultVars
<1>8. CASE Request
  BY <1>8, Constants DEF Request, Goto, SendRequest, SendFails, Unwind, KeepResult,
       clientVars, resultVars
<1>9. CASE CheckDeadline
  BY <1>9, Constants DEF CheckDeadline, Goto, Unwind, KeepResult, clientVars, resultVars
<1>10. CASE Get
  BY <1>10, Constants DEF Get, Goto, Take, Unwind, KeepResult, Returned, IsAnswer,
       IsNotification, clientVars, resultVars
<1>11. CASE GetTimesOut
  BY <1>11, Constants DEF GetTimesOut, Goto, Unwind, KeepResult, clientVars, resultVars
<1>12. CASE Notify
  BY <1>12, Constants DEF Notify, Goto, Unwind, KeepResult, clientVars, resultVars
<1>13. CASE Close
  BY <1>13, Constants DEF Close, Goto, CloseStdin, KeepResult, clientVars, resultVars
<1>14. CASE ChildEnded
  BY <1>14, Constants DEF ChildEnded, Goto, Drop, Waiting, KeepResult, clientVars,
       resultVars
<1>15. CASE Terminate
  BY <1>15, Constants DEF Terminate, Goto, SendSignal, KeepResult, clientVars,
       resultVars
<1>16. CASE Kill
  BY <1>16, Constants DEF Kill, Goto, SendSignal, KeepResult, clientVars, resultVars
<1>17. CASE GiveUp
  BY <1>17, Constants DEF GiveUp, Goto, clientVars, resultVars
<1>18. CASE NotCollected
  BY <1>18, Constants DEF NotCollected, Goto, RecordFailure, clientVars, resultVars,
       RequestInv, CheckOf
<1>19. CASE Collected
  BY <1>19, Constants DEF Collected, Goto, clientVars, resultVars
<1>20. CASE ValidateInitialize
  BY <1>20, Constants DEF ValidateInitialize, Goto, Validate, Judge, RecordPass,
       RecordFailure, clientVars, resultVars
<1>21. CASE ValidateRuntimeConfig
  BY <1>21, Constants DEF ValidateRuntimeConfig, Goto, Validate, Judge, RecordPass,
       RecordFailure, clientVars, resultVars
<1>22. CASE ValidateSkills
  BY <1>22, Constants DEF ValidateSkills, Goto, Validate, Judge, RecordPass,
       RecordFailure, clientVars, resultVars
<1>23. CASE ValidateHooks
  BY <1>23, Constants DEF ValidateHooks, Goto, Validate, Judge, RecordPass,
       RecordFailure, clientVars, resultVars
<1>24. CASE ValidateThread
  BY <1>24, Constants DEF ValidateThread, Goto, Judge, RecordPass, RecordFailure,
       clientVars, resultVars
<1>25. CASE UnexpectedError
  BY <1>25, Constants DEF UnexpectedError, Goto, clientVars, resultVars
<1>26. CASE EvaluateExecpolicy
  BY <1>26, Constants DEF EvaluateExecpolicy, Goto, Judge, RecordPass, RecordFailure,
       clientVars, resultVars
<1>27. CASE FinalSnapshot
  BY <1>27, Constants DEF FinalSnapshot, Goto, RecordPass, RecordFailure, FinalCheck,
       clientVars, resultVars
<1>28. CASE RemoveHome
  BY <1>28, Constants DEF RemoveHome, Goto, clientVars, resultVars
<1>29. CASE GiveVerdict
  BY <1>29, Constants DEF GiveVerdict, Goto, clientVars, resultVars
<1>30. CASE Clock
  BY <1>30, Constants DEF Clock, Tick, probeVars, resultVars
<1>31. CASE Reader
  BY <1>31, Constants DEF Reader, ReadStdout, ReadLine, ReadEof, probeVars, resultVars
<1>32. CASE Environment
  BY <1>32, Constants DEF Environment, Write, End, ChangeWorkspace, probeVars,
       resultVars, clientVars
<1>33. CASE UNCHANGED vars
  BY <1>33, Constants DEF vars, clientVars, resultVars
<1> QED
  BY <1>1, <1>2, <1>3, <1>4, <1>5, <1>6, <1>7, <1>8, <1>9, <1>10, <1>11, <1>12, <1>13,
       <1>14, <1>15, <1>16, <1>17, <1>18, <1>19, <1>20, <1>21, <1>22, <1>23, <1>24,
       <1>25, <1>26, <1>27, <1>28, <1>29, <1>30, <1>31, <1>32, <1>33 DEF Next, Main

(* At the verdict each check has passed, unless one has failed.            *)
LEMMA AllJudged ==
    ASSUME ChecksInv, pc = "verdict"
    PROVE  Failed \/ \A c \in REQUIRED_CHECKS : checks[c] = "PASS"
BY DEF ChecksInv, Judged, REQUIRED_CHECKS, ToVersion, ToGit, ToStatic, ToRoles,
     ToInitialize, ToConfig, ToSkills, ToHooks, ToThread, ToExecpolicy, ToFinal, InWith

(* A failure is never forgotten.                                           *)
LEMMA FailedStays ==
    ASSUME ProbeInv, [Next]_vars, Failed
    PROVE  Failed'
BY ChecksStay DEF Failed, ProbeInv, TypeOK

(* The verdict comes last; a probe that stops early has failed a check.    *)
LEMMA VerdictStep ==
    ASSUME ProbeInv, [Next]_vars
    PROVE  VerdictInv'
<1> USE DEF ProbeInv, TypeOK, VerdictInv
<1>1. CASE CheckArguments
  BY <1>1, Constants, FailedStays DEF CheckArguments, Goto, RecordFailure, clientVars,
       resultVars, Failed
<1>2. CASE CodexVersion
  BY <1>2, Constants, FailedStays DEF CodexVersion, Goto, Validate, Judge, RecordPass,
       RecordFailure, clientVars, resultVars, Failed
<1>3. CASE GitRoot
  BY <1>3, Constants, FailedStays DEF GitRoot, Goto, Judge, RecordPass, RecordFailure,
       clientVars, resultVars, Failed
<1>4. CASE StaticConfig
  BY <1>4, Constants, FailedStays DEF StaticConfig, Goto, Validate, Judge, RecordPass,
       RecordFailure, clientVars, resultVars
<1>5. CASE Roles
  BY <1>5, Constants, FailedStays DEF Roles, Goto, Validate, Judge, RecordPass,
       RecordFailure, clientVars, resultVars
<1>6. CASE CannotStart
  BY <1>6, Constants, FailedStays DEF CannotStart, Goto, KeepResult, clientVars,
       resultVars
<1>7. CASE Start
  BY <1>7, Constants, FailedStays DEF Start, Goto, Connect, KeepResult, clientVars,
       resultVars
<1>8. CASE Request
  BY <1>8, Constants, FailedStays DEF Request, Goto, SendRequest, SendFails, Unwind,
       KeepResult, clientVars, resultVars
<1>9. CASE CheckDeadline
  BY <1>9, Constants, FailedStays DEF CheckDeadline, Goto, Unwind, KeepResult,
       clientVars, resultVars
<1>10. CASE Get
  BY <1>10, Constants, FailedStays DEF Get, Goto, Take, Unwind, KeepResult, Returned,
       IsAnswer, IsNotification, clientVars, resultVars
<1>11. CASE GetTimesOut
  BY <1>11, Constants, FailedStays DEF GetTimesOut, Goto, Unwind, KeepResult,
       clientVars, resultVars
<1>12. CASE Notify
  BY <1>12, Constants, FailedStays DEF Notify, Goto, Unwind, KeepResult, clientVars,
       resultVars
<1>13. CASE Close
  BY <1>13, Constants, FailedStays DEF Close, Goto, CloseStdin, KeepResult, clientVars,
       resultVars
<1>14. CASE ChildEnded
  BY <1>14, Constants, FailedStays DEF ChildEnded, Goto, Drop, Waiting, KeepResult,
       clientVars, resultVars
<1>15. CASE Terminate
  BY <1>15, Constants, FailedStays DEF Terminate, Goto, SendSignal, KeepResult,
       clientVars, resultVars
<1>16. CASE Kill
  BY <1>16, Constants, FailedStays DEF Kill, Goto, SendSignal, KeepResult, clientVars,
       resultVars
<1>17. CASE GiveUp
  BY <1>17, Constants, FailedStays DEF GiveUp, Goto, clientVars, resultVars
<1>18. CASE NotCollected
  BY <1>18, Constants, FailedStays DEF NotCollected, Goto, RecordFailure, clientVars,
       resultVars
<1>19. CASE Collected
  BY <1>19, Constants, FailedStays DEF Collected, Goto, clientVars, resultVars
<1>20. CASE ValidateInitialize
  BY <1>20, Constants, FailedStays DEF ValidateInitialize, Goto, Validate, Judge,
       RecordPass, RecordFailure, clientVars, resultVars
<1>21. CASE ValidateRuntimeConfig
  BY <1>21, Constants, FailedStays DEF ValidateRuntimeConfig, Goto, Validate, Judge,
       RecordPass, RecordFailure, clientVars, resultVars
<1>22. CASE ValidateSkills
  BY <1>22, Constants, FailedStays DEF ValidateSkills, Goto, Validate, Judge,
       RecordPass, RecordFailure, clientVars, resultVars
<1>23. CASE ValidateHooks
  BY <1>23, Constants, FailedStays DEF ValidateHooks, Goto, Validate, Judge, RecordPass,
       RecordFailure, clientVars, resultVars
<1>24. CASE ValidateThread
  BY <1>24, Constants, FailedStays DEF ValidateThread, Goto, Judge, RecordPass,
       RecordFailure, clientVars, resultVars
<1>25. CASE UnexpectedError
  BY <1>25, Constants, FailedStays DEF UnexpectedError, Goto, clientVars, resultVars
<1>26. CASE EvaluateExecpolicy
  BY <1>26, Constants, FailedStays DEF EvaluateExecpolicy, Goto, Judge, RecordPass,
       RecordFailure, clientVars, resultVars
<1>27. CASE FinalSnapshot
  BY <1>27, Constants, FailedStays DEF FinalSnapshot, Goto, RecordPass, RecordFailure,
       FinalCheck, clientVars, resultVars
<1>28. CASE RemoveHome
  BY <1>28, Constants, FailedStays DEF RemoveHome, Goto, clientVars, resultVars
<1>29. CASE GiveVerdict
  BY <1>29, Constants, FailedStays, AllJudged DEF GiveVerdict, Goto, clientVars,
       resultVars, Failed
<1>30. CASE Clock
  BY <1>30, Constants, FailedStays DEF Clock, Tick, probeVars, resultVars
<1>31. CASE Reader
  BY <1>31, Constants, FailedStays DEF Reader, ReadStdout, ReadLine, ReadEof, probeVars,
       resultVars
<1>32. CASE Environment
  BY <1>32, Constants, FailedStays DEF Environment, Write, End, ChangeWorkspace,
       probeVars, resultVars, clientVars
<1>33. CASE UNCHANGED vars
  BY <1>33, Constants, FailedStays DEF vars, clientVars, resultVars
<1> QED
  BY <1>1, <1>2, <1>3, <1>4, <1>5, <1>6, <1>7, <1>8, <1>9, <1>10, <1>11, <1>12, <1>13,
       <1>14, <1>15, <1>16, <1>17, <1>18, <1>19, <1>20, <1>21, <1>22, <1>23, <1>24,
       <1>25, <1>26, <1>27, <1>28, <1>29, <1>30, <1>31, <1>32, <1>33 DEF Next, Main

(* An exception in the `with` goes to close() with its check.              *)
LEMMA UnwindKeeps ==
    ASSUME NEW check \in {CheckOf[i] : i \in 1 .. 5}, check # "none", Unwind(check)
    PROVE  RequestInv'
BY DEF RequestInv, Unwind, Goto, ToRoles, ToStatic, ToGit, ToVersion

(* An answer has an id.                                                    *)
LEMMA ResultIds ==
    ASSUME TypeOK, queue # <<>>, IsAnswer(Head(queue))
    PROVE  Head(queue).id \in Nat
<1>1. Head(queue) \in Line \cup {Eof}
  BY DEF TypeOK, ClientTypeOK
<1> QED
  BY <1>1, Constants DEF IsAnswer, Line, Eof

(* One answer, its own, for each request that has returned.                *)
LEMMA RequestStep ==
    ASSUME ProbeInv, [Next]_vars
    PROVE  RequestInv'
<1> USE DEF ProbeInv, TypeOK, ClientTypeOK, RequestInv, ToRoles, ToStatic, ToGit,
     ToVersion
<1>1. CASE CheckArguments
  BY <1>1, Constants, FailedStays DEF CheckArguments, Goto, RecordFailure, clientVars,
       resultVars, Failed
<1>2. CASE CodexVersion
  BY <1>2, Constants, FailedStays DEF CodexVersion, Goto, Validate, Judge, RecordPass,
       RecordFailure, clientVars, resultVars, Failed
<1>3. CASE GitRoot
  BY <1>3, Constants, FailedStays DEF GitRoot, Goto, Judge, RecordPass, RecordFailure,
       clientVars, resultVars, Failed
<1>4. CASE StaticConfig
  BY <1>4, Constants, FailedStays DEF StaticConfig, Goto, Validate, Judge, RecordPass,
       RecordFailure, clientVars, resultVars
<1>5. CASE Roles
  BY <1>5, Constants, FailedStays DEF Roles, Goto, Validate, Judge, RecordPass,
       RecordFailure, clientVars, resultVars
<1>6. CASE CannotStart
  BY <1>6, Constants, FailedStays DEF CannotStart, Goto, KeepResult, clientVars,
       resultVars
<1>7. CASE Start
  BY <1>7, Constants, FailedStays DEF Start, Goto, Connect, KeepResult, clientVars,
       resultVars
<1>8. CASE Request
  <2>1. /\ nextId \in 0 .. 4 /\ failure = "none"
        /\ CheckOf[nextId + 1] \in {CheckOf[i] : i \in 1 .. 5} /\ CheckOf[nextId + 1] # "none"
    BY <1>8, Constants DEF Request
  <2>2. CASE SendRequest /\ Goto("deadline") /\ UNCHANGED <<answers, failure>>
    BY <1>8, <2>1, <2>2, Constants DEF Request, SendRequest, Goto, KeepResult,
         resultVars
  <2>3. CASE SendFails /\ Unwind(CheckOf[nextId + 1])
    BY <1>8, <2>1, <2>3, Constants, UnwindKeeps DEF Request, SendFails
  <2> QED
    BY <1>8, <2>2, <2>3 DEF Request
<1>9. CASE CheckDeadline
  BY <1>9, Constants, FailedStays DEF CheckDeadline, Goto, Unwind, KeepResult,
       clientVars, resultVars
<1>10. CASE Get
  <2>1. /\ nextId \in 1 .. 5 /\ failure = "none" /\ nextId' = nextId
        /\ CheckOf[nextId] \in {CheckOf[i] : i \in 1 .. 5} /\ CheckOf[nextId] # "none"
    BY <1>10, Constants DEF Get, Take
  <2>2. CASE Unwind(CheckOf[nextId])
    BY <2>1, <2>2, Constants, UnwindKeeps
  <2>3. CASE Goto("deadline") /\ UNCHANGED <<answers, failure>>
    BY <1>10, <2>1, <2>3, Constants DEF Get, Goto
  <2>4. ASSUME IsAnswer(Head(queue)), answers' = Append(answers, Head(queue).id),
               Goto(Returned), UNCHANGED failure
        PROVE  RequestInv'
    <3>1. /\ Head(queue).id = Len(answers) /\ Len(answers) \in Nat
          /\ Len(answers') = Len(answers) + 1
          /\ \A i \in DOMAIN answers' : answers'[i] = i - 1
      <4>1. Head(queue).id + 1 = nextId /\ Len(answers) + 1 = nextId /\ pc = "get"
        BY <1>10, <2>4 DEF Get, IsAnswer
      <4>2. Head(queue).id \in Nat
        BY <2>4, ResultIds, <1>10 DEF Get
      <4>3. Head(queue).id = Len(answers) /\ Len(answers) \in Nat
        BY <4>1, <4>2
      <4> QED
        BY <2>4, <4>3
    <3> QED
      BY <1>10, <2>1, <2>4, <3>1, Constants DEF Get, Goto, Returned
  <2> QED
    BY <1>10, <2>2, <2>3, <2>4 DEF Get
<1>11. CASE GetTimesOut
  BY <1>11, Constants, FailedStays DEF GetTimesOut, Goto, Unwind, KeepResult,
       clientVars, resultVars
<1>12. CASE Notify
  <2>1. /\ failure = "none" /\ nextId' = nextId /\ nextId \in 0 .. 4
        /\ "app_server_initialize" \in {CheckOf[i] : i \in 1 .. 5}
    BY <1>12, Constants DEF Notify, clientVars
  <2>2. CASE Unwind("app_server_initialize")
    BY <2>1, <2>2, Constants, UnwindKeeps
  <2>3. CASE Goto("request") /\ UNCHANGED <<answers, failure>>
    BY <1>12, <2>1, <2>3, Constants DEF Notify, Goto
  <2> QED
    BY <1>12, <2>2, <2>3 DEF Notify
<1>13. CASE Close
  BY <1>13, Constants, FailedStays DEF Close, Goto, CloseStdin, KeepResult, clientVars,
       resultVars
<1>14. CASE ChildEnded
  BY <1>14, Constants, FailedStays DEF ChildEnded, Goto, Drop, Waiting, KeepResult,
       clientVars, resultVars
<1>15. CASE Terminate
  BY <1>15, Constants, FailedStays DEF Terminate, Goto, SendSignal, KeepResult,
       clientVars, resultVars
<1>16. CASE Kill
  BY <1>16, Constants, FailedStays DEF Kill, Goto, SendSignal, KeepResult, clientVars,
       resultVars
<1>17. CASE GiveUp
  BY <1>17, Constants, FailedStays DEF GiveUp, Goto, clientVars, resultVars
<1>18. CASE NotCollected
  BY <1>18, Constants, FailedStays DEF NotCollected, Goto, RecordFailure, clientVars,
       resultVars, Failed
<1>19. CASE Collected
  BY <1>19, Constants, FailedStays DEF Collected, Goto, clientVars, resultVars
<1>20. CASE ValidateInitialize
  BY <1>20, Constants, FailedStays DEF ValidateInitialize, Goto, Validate, Judge,
       RecordPass, RecordFailure, clientVars, resultVars
<1>21. CASE ValidateRuntimeConfig
  BY <1>21, Constants, FailedStays DEF ValidateRuntimeConfig, Goto, Validate, Judge,
       RecordPass, RecordFailure, clientVars, resultVars
<1>22. CASE ValidateSkills
  BY <1>22, Constants, FailedStays DEF ValidateSkills, Goto, Validate, Judge,
       RecordPass, RecordFailure, clientVars, resultVars
<1>23. CASE ValidateHooks
  BY <1>23, Constants, FailedStays DEF ValidateHooks, Goto, Validate, Judge, RecordPass,
       RecordFailure, clientVars, resultVars
<1>24. CASE ValidateThread
  BY <1>24, Constants, FailedStays DEF ValidateThread, Goto, Judge, RecordPass,
       RecordFailure, clientVars, resultVars
<1>25. CASE UnexpectedError
  BY <1>25, Constants, FailedStays DEF UnexpectedError, Goto, clientVars, resultVars
<1>26. CASE EvaluateExecpolicy
  BY <1>26, Constants, FailedStays DEF EvaluateExecpolicy, Goto, Judge, RecordPass,
       RecordFailure, clientVars, resultVars
<1>27. CASE FinalSnapshot
  BY <1>27, Constants, FailedStays DEF FinalSnapshot, Goto, RecordPass, RecordFailure,
       FinalCheck, clientVars, resultVars
<1>28. CASE RemoveHome
  BY <1>28, Constants, FailedStays DEF RemoveHome, Goto, clientVars, resultVars
<1>29. CASE GiveVerdict
  BY <1>29, Constants, FailedStays DEF GiveVerdict, Goto, clientVars, resultVars
<1>30. CASE Clock
  BY <1>30, Constants, FailedStays DEF Clock, Tick, probeVars, resultVars
<1>31. CASE Reader
  BY <1>31, Constants, FailedStays DEF Reader, ReadStdout, ReadLine, ReadEof, probeVars,
       resultVars
<1>32. CASE Environment
  BY <1>32, Constants, FailedStays DEF Environment, Write, End, ChangeWorkspace,
       probeVars, resultVars, clientVars
<1>33. CASE UNCHANGED vars
  BY <1>33, Constants, FailedStays DEF vars, clientVars, resultVars
<1> QED
  BY <1>1, <1>2, <1>3, <1>4, <1>5, <1>6, <1>7, <1>8, <1>9, <1>10, <1>11, <1>12, <1>13,
       <1>14, <1>15, <1>16, <1>17, <1>18, <1>19, <1>20, <1>21, <1>22, <1>23, <1>24,
       <1>25, <1>26, <1>27, <1>28, <1>29, <1>30, <1>31, <1>32, <1>33 DEF Next, Main

(* The child is gone when the `with` is left, or it was killed.            *)
LEMMA ChildStep ==
    ASSUME ProbeInv, [Next]_vars
    PROVE  ChildInv'
<1> USE DEF ProbeInv, ChildInv, InWith
<1>1. CASE CheckArguments
  BY <1>1 DEF CheckArguments, Goto, RecordFailure, clientVars, resultVars
<1>2. CASE CodexVersion
  BY <1>2 DEF CodexVersion, Goto, Validate, Judge, RecordPass, RecordFailure,
       clientVars, resultVars
<1>3. CASE GitRoot
  BY <1>3 DEF GitRoot, Goto, Judge, RecordPass, RecordFailure, clientVars, resultVars
<1>4. CASE StaticConfig
  BY <1>4 DEF StaticConfig, Goto, Validate, Judge, RecordPass, RecordFailure,
       clientVars, resultVars
<1>5. CASE Roles
  BY <1>5 DEF Roles, Goto, Validate, Judge, RecordPass, RecordFailure, clientVars,
       resultVars
<1>6. CASE CannotStart
  BY <1>6 DEF CannotStart, Goto, KeepResult, clientVars, resultVars
<1>7. CASE Start
  BY <1>7 DEF Start, Goto, Connect, KeepResult, clientVars, resultVars
<1>8. CASE Request
  BY <1>8 DEF Request, Goto, SendRequest, SendFails, Unwind, KeepResult, clientVars,
       resultVars
<1>9. CASE CheckDeadline
  BY <1>9 DEF CheckDeadline, Goto, Unwind, KeepResult, clientVars, resultVars
<1>10. CASE Get
  BY <1>10 DEF Get, Goto, Take, Unwind, KeepResult, Returned, IsAnswer, IsNotification,
       clientVars, resultVars
<1>11. CASE GetTimesOut
  BY <1>11 DEF GetTimesOut, Goto, Unwind, KeepResult, clientVars, resultVars
<1>12. CASE Notify
  BY <1>12 DEF Notify, Goto, Unwind, KeepResult, clientVars, resultVars
<1>13. CASE Close
  BY <1>13 DEF Close, Goto, CloseStdin, KeepResult, clientVars, resultVars
<1>14. CASE ChildEnded
  BY <1>14 DEF ChildEnded, Goto, Drop, Waiting, KeepResult, clientVars, resultVars
<1>15. CASE Terminate
  BY <1>15 DEF Terminate, Goto, SendSignal, KeepResult, clientVars, resultVars
<1>16. CASE Kill
  BY <1>16 DEF Kill, Goto, SendSignal, KeepResult, clientVars, resultVars
<1>17. CASE GiveUp
  BY <1>17 DEF GiveUp, Goto, clientVars, resultVars
<1>18. CASE NotCollected
  BY <1>18 DEF NotCollected, Goto, RecordFailure, clientVars, resultVars
<1>19. CASE Collected
  BY <1>19 DEF Collected, Goto, clientVars, resultVars
<1>20. CASE ValidateInitialize
  BY <1>20 DEF ValidateInitialize, Goto, Validate, Judge, RecordPass, RecordFailure,
       clientVars, resultVars
<1>21. CASE ValidateRuntimeConfig
  BY <1>21 DEF ValidateRuntimeConfig, Goto, Validate, Judge, RecordPass, RecordFailure,
       clientVars, resultVars
<1>22. CASE ValidateSkills
  BY <1>22 DEF ValidateSkills, Goto, Validate, Judge, RecordPass, RecordFailure,
       clientVars, resultVars
<1>23. CASE ValidateHooks
  BY <1>23 DEF ValidateHooks, Goto, Validate, Judge, RecordPass, RecordFailure,
       clientVars, resultVars
<1>24. CASE ValidateThread
  BY <1>24 DEF ValidateThread, Goto, Judge, RecordPass, RecordFailure, clientVars,
       resultVars
<1>25. CASE UnexpectedError
  BY <1>25 DEF UnexpectedError, Goto, clientVars, resultVars
<1>26. CASE EvaluateExecpolicy
  BY <1>26 DEF EvaluateExecpolicy, Goto, Judge, RecordPass, RecordFailure, clientVars,
       resultVars
<1>27. CASE FinalSnapshot
  BY <1>27 DEF FinalSnapshot, Goto, RecordPass, RecordFailure, FinalCheck, clientVars,
       resultVars
<1>28. CASE RemoveHome
  BY <1>28 DEF RemoveHome, Goto, clientVars, resultVars
<1>29. CASE GiveVerdict
  BY <1>29 DEF GiveVerdict, Goto, clientVars, resultVars
<1>30. CASE Clock
  BY <1>30 DEF Clock, Tick, probeVars, resultVars
<1>31. CASE Reader
  BY <1>31 DEF Reader, ReadStdout, ReadLine, ReadEof, probeVars, resultVars
<1>32. CASE Environment
  BY <1>32 DEF Environment, Write, End, ChangeWorkspace, probeVars, resultVars,
       clientVars
<1>33. CASE UNCHANGED vars
  BY <1>33 DEF vars, clientVars, resultVars
<1> QED
  BY <1>1, <1>2, <1>3, <1>4, <1>5, <1>6, <1>7, <1>8, <1>9, <1>10, <1>11, <1>12, <1>13,
       <1>14, <1>15, <1>16, <1>17, <1>18, <1>19, <1>20, <1>21, <1>22, <1>23, <1>24,
       <1>25, <1>26, <1>27, <1>28, <1>29, <1>30, <1>31, <1>32, <1>33 DEF Next, Main

(* Once the last snapshot has passed nothing changes the workspace.        *)
LEMMA SnapshotStep ==
    ASSUME ProbeInv, [Next]_vars
    PROVE  SnapshotInv'
<1> USE DEF ProbeInv, TypeOK, ChecksInv, Judged, SnapshotInv, ChildInv, REQUIRED_CHECKS,
     ToVersion, ToGit, ToStatic, ToRoles, ToInitialize, ToConfig, ToSkills, ToHooks,
     ToThread, ToExecpolicy, ToFinal, InWith
<1>1. CASE CheckArguments
  BY <1>1 DEF CheckArguments, Goto, RecordFailure, clientVars, resultVars
<1>2. CASE CodexVersion
  BY <1>2 DEF CodexVersion, Goto, Validate, Judge, RecordPass, RecordFailure,
       clientVars, resultVars
<1>3. CASE GitRoot
  BY <1>3 DEF GitRoot, Goto, Judge, RecordPass, RecordFailure, clientVars, resultVars
<1>4. CASE StaticConfig
  BY <1>4 DEF StaticConfig, Goto, Validate, Judge, RecordPass, RecordFailure,
       clientVars, resultVars
<1>5. CASE Roles
  BY <1>5 DEF Roles, Goto, Validate, Judge, RecordPass, RecordFailure, clientVars,
       resultVars
<1>6. CASE CannotStart
  BY <1>6 DEF CannotStart, Goto, KeepResult, clientVars, resultVars
<1>7. CASE Start
  BY <1>7 DEF Start, Goto, Connect, KeepResult, clientVars, resultVars
<1>8. CASE Request
  BY <1>8 DEF Request, Goto, SendRequest, SendFails, Unwind, KeepResult, clientVars,
       resultVars
<1>9. CASE CheckDeadline
  BY <1>9 DEF CheckDeadline, Goto, Unwind, KeepResult, clientVars, resultVars
<1>10. CASE Get
  BY <1>10 DEF Get, Goto, Take, Unwind, KeepResult, Returned, IsAnswer, IsNotification,
       clientVars, resultVars
<1>11. CASE GetTimesOut
  BY <1>11 DEF GetTimesOut, Goto, Unwind, KeepResult, clientVars, resultVars
<1>12. CASE Notify
  BY <1>12 DEF Notify, Goto, Unwind, KeepResult, clientVars, resultVars
<1>13. CASE Close
  BY <1>13 DEF Close, Goto, CloseStdin, KeepResult, clientVars, resultVars
<1>14. CASE ChildEnded
  BY <1>14 DEF ChildEnded, Goto, Drop, Waiting, KeepResult, clientVars, resultVars
<1>15. CASE Terminate
  BY <1>15 DEF Terminate, Goto, SendSignal, KeepResult, clientVars, resultVars
<1>16. CASE Kill
  BY <1>16 DEF Kill, Goto, SendSignal, KeepResult, clientVars, resultVars
<1>17. CASE GiveUp
  BY <1>17 DEF GiveUp, Goto, clientVars, resultVars
<1>18. CASE NotCollected
  BY <1>18 DEF NotCollected, Goto, RecordFailure, clientVars, resultVars
<1>19. CASE Collected
  BY <1>19 DEF Collected, Goto, clientVars, resultVars
<1>20. CASE ValidateInitialize
  BY <1>20 DEF ValidateInitialize, Goto, Validate, Judge, RecordPass, RecordFailure,
       clientVars, resultVars
<1>21. CASE ValidateRuntimeConfig
  BY <1>21 DEF ValidateRuntimeConfig, Goto, Validate, Judge, RecordPass, RecordFailure,
       clientVars, resultVars
<1>22. CASE ValidateSkills
  BY <1>22 DEF ValidateSkills, Goto, Validate, Judge, RecordPass, RecordFailure,
       clientVars, resultVars
<1>23. CASE ValidateHooks
  BY <1>23 DEF ValidateHooks, Goto, Validate, Judge, RecordPass, RecordFailure,
       clientVars, resultVars
<1>24. CASE ValidateThread
  BY <1>24 DEF ValidateThread, Goto, Judge, RecordPass, RecordFailure, clientVars,
       resultVars
<1>25. CASE UnexpectedError
  BY <1>25 DEF UnexpectedError, Goto, clientVars, resultVars
<1>26. CASE EvaluateExecpolicy
  BY <1>26 DEF EvaluateExecpolicy, Goto, Judge, RecordPass, RecordFailure, clientVars,
       resultVars
<1>27. CASE FinalSnapshot
  BY <1>27 DEF FinalSnapshot, Goto, RecordPass, RecordFailure, FinalCheck, clientVars,
       resultVars
<1>28. CASE RemoveHome
  BY <1>28 DEF RemoveHome, Goto, clientVars, resultVars
<1>29. CASE GiveVerdict
  BY <1>29 DEF GiveVerdict, Goto, clientVars, resultVars
<1>30. CASE Clock
  BY <1>30 DEF Clock, Tick, probeVars, resultVars
<1>31. CASE Reader
  BY <1>31 DEF Reader, ReadStdout, ReadLine, ReadEof, probeVars, resultVars
<1>32. CASE Environment
  BY <1>32 DEF Environment, Write, End, ChangeWorkspace, probeVars, resultVars,
       clientVars
<1>33. CASE UNCHANGED vars
  BY <1>33 DEF vars, clientVars, resultVars
<1> QED
  BY <1>1, <1>2, <1>3, <1>4, <1>5, <1>6, <1>7, <1>8, <1>9, <1>10, <1>11, <1>12, <1>13,
       <1>14, <1>15, <1>16, <1>17, <1>18, <1>19, <1>20, <1>21, <1>22, <1>23, <1>24,
       <1>25, <1>26, <1>27, <1>28, <1>29, <1>30, <1>31, <1>32, <1>33 DEF Next, Main

(* The invariant holds at first.                                           *)
LEMMA InitInv == Init => ProbeInv
<1> SUFFICES ASSUME Init PROVE ProbeInv
  OBVIOUS
<1>1. TypeOK
  <2>1. ClientTypeOK
    BY Constants DEF Init, ClientInit, ClientTypeOK
  <2> QED
    BY <2>1, EmptyAnswers DEF Init, TypeOK, Steps
<1>2. ChecksInv
  BY DEF Init, ChecksInv, Judged, REQUIRED_CHECKS, ToVersion, ToGit, ToStatic, ToRoles,
         ToInitialize, ToConfig, ToSkills, ToHooks, ToThread, ToExecpolicy, ToFinal
<1>3. VerdictInv /\ RequestInv /\ ChildInv
  BY Constants DEF Init, ClientInit, VerdictInv, RequestInv, ChildInv, InWith
<1>4. SnapshotInv
  BY DEF Init, SnapshotInv, REQUIRED_CHECKS
<1> QED
  BY <1>1, <1>2, <1>3, <1>4 DEF ProbeInv

(* The invariant is inductive.                                             *)
LEMMA StepInv ==
    ASSUME ProbeInv, [Next]_vars
    PROVE  ProbeInv'
BY TypeStep, ChecksStep, VerdictStep, RequestStep, ChildStep, SnapshotStep DEF ProbeInv

(* The invariant holds in every run of the probe.                          *)
THEOREM ProbeInvariant == Spec => []ProbeInv
BY InitInv, StepInv, PTL DEF Spec

-----------------------------------------------------------------------------
(* What it gives.                                                          *)

(* Every variable keeps its type, whatever the app-server sends: a check   *)
(* that fails is one of the required ones, and no request is sent beyond   *)
(* the fifth.                                                              *)
THEOREM ProbeTypeCorrect == Spec => []TypeOK
<1>1. ProbeInv => TypeOK
  BY DEF ProbeInv
<1> QED
  BY <1>1, ProbeInvariant, PTL

(* A recorded PASS or FAIL is never replaced: each check is judged at one  *)
(* step, and the second snapshot's failure is recorded under its own name. *)
THEOREM ChecksAlwaysFinal == Spec => ChecksAreFinal
<1>1. ProbeInv /\ [Next]_vars =>
        [\A c \in REQUIRED_CHECKS : checks[c] # "NOT_RUN" => checks'[c] = checks[c]]_vars
  BY ChecksStay
<1> QED
  BY <1>1, ProbeInvariant, PTL DEF Spec, ChecksAreFinal

(* run_probe never reports FAIL without a check that failed.               *)
THEOREM FailureAlwaysExplained == Spec => []FailureIsExplained
<1>1. ProbeInv => FailureIsExplained
  BY DEF ProbeInv, VerdictInv, FailureIsExplained, Failed
<1> QED
  BY <1>1, ProbeInvariant, PTL

(* request() returns the server's answer to its own id or raises, and a    *)
(* report that passes has all five.                                        *)
THEOREM AnswersAlwaysOwn == Spec => []AnswersAreOwn
<1>1. ASSUME ProbeInv PROVE AnswersAreOwn
  <2>1. \A i \in DOMAIN answers : answers[i] = i - 1
    BY <1>1 DEF ProbeInv, RequestInv
  <2>2. pc = "report" /\ verdict = "PASS" => ~ Failed
    BY <1>1 DEF ProbeInv, VerdictInv, Failed
  <2>3. pc = "report" => Failed \/ Len(answers) = Requests
    BY <1>1 DEF ProbeInv, RequestInv
  <2> QED
    BY <2>1, <2>2, <2>3 DEF AnswersAreOwn
<1> QED
  BY <1>1, ProbeInvariant, PTL

(* A report that passes is about a workspace that still prints the first   *)
(* snapshot's status: close() has waited for the only process that could   *)
(* change it before the last snapshot is taken.                            *)
THEOREM PassAlwaysUnchanged == Spec => []PassMeansUnchanged
<1>1. ProbeInv => PassMeansUnchanged
  BY DEF ProbeInv, VerdictInv, SnapshotInv, PassMeansUnchanged, REQUIRED_CHECKS
<1> QED
  BY <1>1, ProbeInvariant, PTL

(* The temporary Codex home is removed after the app-server has ended, or  *)
(* after it was killed.                                                    *)
THEOREM HomeAlwaysOutlives == Spec => []HomeOutlivesChild
<1>1. ProbeInv => HomeOutlivesChild
  BY DEF ProbeInv, ChildInv, InWith, HomeOutlivesChild
<1> QED
  BY <1>1, ProbeInvariant, PTL

-----------------------------------------------------------------------------
(* How long the probe goes on.                                             *)

(* A deadline, and the waits of close(), in ticks.                         *)
LEMMA Products ==
    /\ \A n \in 0 .. 5 : n * Timeout \in Nat
    /\ \A n \in 0 .. 4 : (n + 1) * Timeout = n * Timeout + Timeout
    /\ \A m, n \in 0 .. 5 : m <= n => m * Timeout <= n * Timeout
    /\ \A m, n \in 0 .. 3 : m <= n => m * Grace <= n * Grace
    /\ 0 * Grace = 0 /\ 1 * Grace = Grace /\ 2 * Grace = Grace + Grace
    /\ 3 * Grace = Grace + Grace + Grace
    /\ 0 * Timeout = 0 /\ Grace \in Nat /\ Timeout \in Nat
BY ClientAssumption

(* No time is owed.                                                        *)
LEMMA TimeIsNatural == ProbeInv => TimeLeft \in Nat
<1> SUFFICES ASSUME ProbeInv PROVE TimeLeft \in Nat
  OBVIOUS
<1>1. RequestsLeft \in 0 .. 5 /\ WaitsLeft \in 0 .. 3 /\ clock \in Nat
  BY Constants DEF ProbeInv, TypeOK, ClientTypeOK, RequestsLeft, WaitsLeft
<1>2. RequestsLeft * Timeout \in Nat /\ WaitsLeft * Grace \in Nat
  BY <1>1, ClientAssumption
<1> QED
  BY <1>1, <1>2 DEF TimeLeft

LEMMA LeftOver ==
    ASSUME ProbeInv
    PROVE  RequestsLeft \in 0 .. 5 /\ WaitsLeft \in 0 .. 3 /\ clock \in Nat /\ pc \in Steps
           /\ nextId \in 0 .. 5
BY Constants DEF ProbeInv, TypeOK, ClientTypeOK, RequestsLeft, WaitsLeft

LEMMA LeftOverNext ==
    ASSUME ProbeInv'
    PROVE  RequestsLeft' \in 0 .. 5 /\ WaitsLeft' \in 0 .. 3 /\ clock' \in Nat
           /\ pc' \in Steps /\ nextId' \in 0 .. 5
BY Constants DEF ProbeInv, TypeOK, ClientTypeOK, RequestsLeft, WaitsLeft

(* A step that starts no wait.                                             *)
LEMMA NoNewWait ==
    ASSUME ProbeInv, ProbeInv', clock' <= clock, RequestsLeft' <= RequestsLeft,
           WaitsLeft' <= WaitsLeft
    PROVE  TimeLeft' <= TimeLeft /\ (clock' < clock => TimeLeft' < TimeLeft)
<1>1. RequestsLeft' * Timeout <= RequestsLeft * Timeout /\ WaitsLeft' * Grace <= WaitsLeft * Grace
  BY LeftOver, LeftOverNext, Products
<1>2. RequestsLeft' * Timeout \in Nat /\ RequestsLeft * Timeout \in Nat
      /\ WaitsLeft' * Grace \in Nat /\ WaitsLeft * Grace \in Nat
  BY LeftOver, LeftOverNext, ClientAssumption
<1>3. TimeLeft' = clock' + RequestsLeft' * Timeout + WaitsLeft' * Grace
  BY DEF TimeLeft
<1>4. TimeLeft = clock + RequestsLeft * Timeout + WaitsLeft * Grace
  BY DEF TimeLeft
<1> QED
  BY <1>1, <1>2, <1>3, <1>4, LeftOver, LeftOverNext

(* A wait that starts uses up what was kept for it.                        *)
LEMMA RequestWait ==
    ASSUME ProbeInv, ProbeInv', clock' = Timeout, RequestsLeft' + 1 = RequestsLeft,
           WaitsLeft' = WaitsLeft
    PROVE  TimeLeft' <= TimeLeft
<1>1. RequestsLeft * Timeout = RequestsLeft' * Timeout + Timeout
  BY LeftOver, LeftOverNext, Products
<1>2. RequestsLeft' * Timeout \in Nat /\ WaitsLeft * Grace \in Nat /\ Timeout \in Nat
  BY LeftOver, LeftOverNext, ClientAssumption
<1> QED
  BY <1>1, <1>2, LeftOver DEF TimeLeft

LEMMA CloseWait ==
    ASSUME ProbeInv, ProbeInv', clock' = Grace, RequestsLeft' = RequestsLeft,
           WaitsLeft' + 1 = WaitsLeft
    PROVE  TimeLeft' <= TimeLeft
<1>1. WaitsLeft * Grace = WaitsLeft' * Grace + Grace
  BY LeftOver, LeftOverNext, Products
<1>2. RequestsLeft * Timeout \in Nat /\ WaitsLeft' * Grace \in Nat /\ Grace \in Nat
  BY LeftOver, LeftOverNext, ClientAssumption
<1> QED
  BY <1>1, <1>2, LeftOver DEF TimeLeft

(* Steps that leave the client alone, and lead on.                         *)
LEMMA Onward ==
    ASSUME ProbeInv, ProbeInv', UNCHANGED <<clock, nextId>>, Place[pc'] > Place[pc],
           pc' \in BeforeClose \/ WaitsLeft' = 0, pc' \in BeforeClose => pc \in BeforeClose
    PROVE  TimeLeft' <= TimeLeft /\ nextId' >= nextId /\ GoesOn
<1>1. RequestsLeft' <= RequestsLeft
  BY LeftOver, LeftOverNext DEF RequestsLeft
<1>2. WaitsLeft' <= WaitsLeft
  <2>1. pc \in BeforeClose => WaitsLeft = 3
    BY DEF WaitsLeft, BeforeClose
  <2>2. pc' \in BeforeClose => WaitsLeft' = 3
    BY DEF WaitsLeft, BeforeClose
  <2> QED
    BY <2>1, <2>2, LeftOver, LeftOverNext
<1> QED
  BY <1>1, <1>2, NoNewWait, LeftOver DEF GoesOn

(* Each step of the main thread leads on and starts no wait beyond those   *)
(* that are left.                                                          *)
LEMMA MainGoesOn ==
    ASSUME ProbeInv, ProbeInv', Main
    PROVE  TimeLeft' <= TimeLeft /\ nextId' >= nextId /\ (GoesOn \/ SkipsNotification)
<1> USE DEF Place, BeforeClose, RequestsLeft, WaitsLeft
<1>1. CASE CheckArguments
  BY <1>1, Onward DEF CheckArguments, Goto, clientVars
<1>2. CASE CodexVersion
  BY <1>2, Onward DEF CodexVersion, Validate, Judge, Goto, clientVars
<1>3. CASE GitRoot
  BY <1>3, Onward DEF GitRoot, Judge, Goto, clientVars
<1>4. CASE StaticConfig
  BY <1>4, Onward DEF StaticConfig, Validate, Judge, Goto, clientVars
<1>5. CASE Roles
  BY <1>5, Onward DEF Roles, Validate, Judge, Goto, clientVars
<1>6. CASE CannotStart
  BY <1>6, Onward DEF CannotStart, Goto, clientVars
<1>7. CASE Start
  BY <1>7, Onward DEF Start, Connect, Goto
<1>8. CASE Request
  <2>1. pc = "request" /\ nextId' = nextId + 1 /\ GoesOn
    BY <1>8, LeftOver DEF Request, SendRequest, SendFails, GoesOn
  <2>2. CASE SendRequest /\ Goto("deadline")
    BY <2>1, <2>2, RequestWait, LeftOver, Constants DEF SendRequest, Goto
  <2>3. CASE SendFails /\ Goto("close")
    BY <2>1, <2>3, NoNewWait, LeftOver, LeftOverNext, Constants DEF SendFails, Goto
  <2> QED
    BY <1>8, <2>1, <2>2, <2>3, LeftOver DEF Request, Unwind
<1>9. CASE CheckDeadline
  <2>1. pc = "deadline" /\ UNCHANGED <<clock, nextId>> /\ pc' \in {"get", "close"}
    BY <1>9 DEF CheckDeadline, Unwind, Goto, clientVars
  <2> QED
    BY <2>1, NoNewWait, LeftOver, LeftOverNext, Constants DEF GoesOn
<1>10. CASE Get
  <2>1. pc = "get" /\ UNCHANGED <<clock, nextId>>
        /\ pc' \in {"notify", "request", "close", "deadline"}
        /\ (pc' = "deadline" => SkipsNotification)
    BY <1>10 DEF Get, Take, Unwind, Returned, Goto, SkipsNotification
  <2> QED
    BY <2>1, NoNewWait, LeftOver, LeftOverNext, Constants DEF GoesOn
<1>11. CASE GetTimesOut
  <2>1. pc = "get" /\ UNCHANGED <<clock, nextId>> /\ pc' = "close"
    BY <1>11 DEF GetTimesOut, Unwind, Goto, clientVars
  <2> QED
    BY <2>1, NoNewWait, LeftOver, LeftOverNext, Constants DEF GoesOn
<1>12. CASE Notify
  <2>1. pc = "notify" /\ UNCHANGED <<clock, nextId>> /\ pc' \in {"request", "close"}
    BY <1>12 DEF Notify, Unwind, Goto, clientVars
  <2> QED
    BY <2>1, NoNewWait, LeftOver, LeftOverNext, Constants DEF GoesOn
<1>13. CASE Close
  BY <1>13, CloseWait, LeftOver DEF Close, CloseStdin, Goto, GoesOn
<1>14. CASE ChildEnded
  <2>1. clock' = 0 /\ nextId' = nextId /\ pc' = "collected" /\ pc \in Waiting
    BY <1>14 DEF ChildEnded, Drop, Goto
  <2> QED
    BY <2>1, NoNewWait, LeftOver, LeftOverNext DEF GoesOn, Waiting
<1>15. CASE Terminate
  BY <1>15, CloseWait, LeftOver DEF Terminate, SendSignal, Goto, GoesOn
<1>16. CASE Kill
  BY <1>16, CloseWait, LeftOver DEF Kill, SendSignal, Goto, GoesOn
<1>17. CASE GiveUp
  BY <1>17, Onward DEF GiveUp, Goto, clientVars
<1>18. CASE NotCollected
  BY <1>18, Onward DEF NotCollected, Goto, clientVars
<1>19. CASE Collected
  BY <1>19, Onward DEF Collected, Goto, clientVars
<1>20. CASE ValidateInitialize
  BY <1>20, Onward DEF ValidateInitialize, Validate, Judge, Goto, clientVars
<1>21. CASE ValidateRuntimeConfig
  BY <1>21, Onward DEF ValidateRuntimeConfig, Validate, Judge, Goto, clientVars
<1>22. CASE ValidateSkills
  BY <1>22, Onward DEF ValidateSkills, Validate, Judge, Goto, clientVars
<1>23. CASE ValidateHooks
  BY <1>23, Onward DEF ValidateHooks, Validate, Judge, Goto, clientVars
<1>24. CASE ValidateThread
  BY <1>24, Onward DEF ValidateThread, Judge, Goto, clientVars
<1>25. CASE UnexpectedError
  BY <1>25, Onward DEF UnexpectedError, Goto, clientVars
<1>26. CASE EvaluateExecpolicy
  BY <1>26, Onward DEF EvaluateExecpolicy, Judge, Goto, clientVars
<1>27. CASE FinalSnapshot
  BY <1>27, Onward DEF FinalSnapshot, Goto, clientVars
<1>28. CASE RemoveHome
  BY <1>28, Onward DEF RemoveHome, Goto, clientVars
<1>29. CASE GiveVerdict
  BY <1>29, Onward DEF GiveVerdict, Goto, clientVars
<1> QED
  BY <1>1, <1>2, <1>3, <1>4, <1>5, <1>6, <1>7, <1>8, <1>9, <1>10, <1>11, <1>12, <1>13,
     <1>14, <1>15, <1>16, <1>17, <1>18, <1>19, <1>20, <1>21, <1>22, <1>23, <1>24, <1>25,
     <1>26, <1>27, <1>28, <1>29 DEF Main

(* The time the main thread can still wait never falls below zero and      *)
(* never grows, each tick lowers it, and each step of the main thread but  *)
(* the skipping of a notification leads on: so it waits Requests deadlines *)
(* and three graces at most.                                               *)
THEOREM ProbeAlwaysGoesOn == Spec => [](TimeLeft \in Nat) /\ ProbeGoesOn
<1>1. ASSUME ProbeInv, ProbeInv', [Next]_vars
      PROVE  [/\ TimeLeft' <= TimeLeft /\ nextId' >= nextId
              /\ Clock => TimeLeft' < TimeLeft
              /\ Main => GoesOn \/ SkipsNotification]_vars
  <2>1. CASE Clock
    <3>1. pc' = pc /\ nextId' = nextId /\ clock' < clock
      BY <1>1, <2>1, LeftOver DEF Clock, Tick, probeVars
    <3>2. RequestsLeft' = RequestsLeft /\ WaitsLeft' = WaitsLeft
      BY <3>1 DEF RequestsLeft, WaitsLeft
    <3>3. TimeLeft' < TimeLeft /\ TimeLeft' <= TimeLeft
      BY <1>1, <3>1, <3>2, LeftOver, LeftOverNext, NoNewWait
    <3>4. nextId' >= nextId
      BY <1>1, <3>1, LeftOver
    <3>5. ASSUME Main PROVE GoesOn \/ SkipsNotification
      BY <1>1, <3>5, MainGoesOn
    <3> QED
      BY <3>3, <3>4, <3>5
  <2>2. CASE Main /\ ~ Clock
    BY <1>1, <2>2, MainGoesOn
  <2>3. CASE Reader \/ Environment
    <3>1. pc' = pc /\ nextId' = nextId /\ clock' = clock
      BY <2>3 DEF Reader, ReadStdout, ReadLine, ReadEof, Environment, Write, End,
           ChangeWorkspace, probeVars, clientVars
    <3>2. TimeLeft' = TimeLeft
      BY <3>1 DEF TimeLeft, RequestsLeft, WaitsLeft
    <3>3. ~ Clock
      BY <3>1, <1>1, LeftOver DEF Clock, Tick
    <3>4. TimeLeft \in Nat
      BY <1>1, TimeIsNatural
    <3> QED
      BY <1>1, <3>1, <3>2, <3>3, <3>4, LeftOver, MainGoesOn
  <2> QED
    BY <1>1, <2>1, <2>2, <2>3 DEF Next
<1> QED
  BY <1>1, TimeIsNatural, ProbeInvariant, PTL DEF Spec, ProbeGoesOn

=================================================================================
