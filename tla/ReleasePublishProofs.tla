--------------------------- MODULE ReleasePublishProofs ---------------------------
(***************************************************************************)
(* Safety of the release job, for any builds, failures and edits.          *)
(***************************************************************************)
EXTENDS ReleasePublish, TLAPS

(* What editing, pruning, uploading and maintaining do to the parts.       *)
LEMMA EditTypes ==
    ASSUME NEW r \in [state : {"none", "draft", "public"}, body : Body],
           NEW s \in {"draft", "public"}
    PROVE  LET q == [r EXCEPT !.state = s, !.body.meta = "tag"]
           IN  /\ q \in [state : {"none", "draft", "public"}, body : Body]
               /\ q.state = s
BY DEF Body

LEMMA PruneTypes ==
    ASSUME NEW r \in [state : {"none", "draft", "public"}, body : Body]
    PROVE  [r EXCEPT !.body.extra = FALSE] \in [state : {"none", "draft", "public"}, body : Body]
BY DEF Body

LEMMA AssetTypes ==
    ASSUME NEW r \in [state : {"none", "draft", "public"}, body : Body], NEW a \in Asset,
           NEW c \in Build \cup {"none", "other"}
    PROVE  [r EXCEPT !.body.assets = [@ EXCEPT ![a] = c]]
              \in [state : {"none", "draft", "public"}, body : Body]
BY DEF Body

LEMMA EmptyType == Empty \in Body
BY DEF Empty, Body

LEMMA DraftTypes ==
    ASSUME release.body \in Body
    PROVE  /\ [release.body EXCEPT !.meta = "other"] \in Body
           /\ [release.body EXCEPT !.extra = TRUE] \in Body
           /\ \A a \in Asset, c \in {"none", "other"} :
                 [release.body EXCEPT !.assets = [@ EXCEPT ![a] = c]] \in Body
BY DEF Body

(* A body with the tag's texts and the three assets of a build is full.    *)
LEMMA FullBody ==
    ASSUME NEW body \in Body, NEW b, body.meta = "tag", body.extra = FALSE,
           \A a \in Asset : body.assets[a] = b
    PROVE  body = Full(b)
BY DEF Body, Full

(* Every step keeps the types.                                             *)
LEMMA TypeStep ==
    ASSUME TypeOK, [Next]_vars
    PROVE  TypeOK'
<1> USE DEF TypeOK, Steps
<1>1. CASE \E b \in Build : Start(b)
  BY <1>1, PublishAssumption DEF Start, NoJob, Goto
<1>2. CASE Attest
  BY <1>2, PublishAssumption DEF Attest, Goto
<1>3. CASE View
  BY <1>3, PublishAssumption DEF View, Go, Goto
<1>4. CASE ViewFails
  BY <1>4, PublishAssumption DEF ViewFails, Fault, Goto
<1>5. CASE IsDraft
  BY <1>5, PublishAssumption DEF IsDraft, Go, Goto
<1>6. CASE IsDraftFails
  BY <1>6, PublishAssumption DEF IsDraftFails, Fault, Goto
<1>7. CASE Create
  <2>1. CASE SecondRelease
    BY <1>7, <2>1, PublishAssumption DEF Create, SecondRelease, Go, Fail, Exit, NoJob, Goto
  <2>2. CASE NewDraft
    BY <1>7, <2>2, EmptyType DEF Create, NewDraft, Goto
  <2> QED
    BY <1>7, <2>1, <2>2 DEF Create
<1>8. CASE Edit
  <2>1. CASE release.state = "none"
    BY <1>8, <2>1 DEF Edit, Fail, Exit, NoJob, Goto
  <2>2. CASE release.state # "none"
    <3>1. release' \in [state : {"none", "draft", "public"}, body : Body]
      BY <1>8, <2>2, EditTypes DEF Edit
    <3> QED
      BY <1>8, <2>2, <3>1 DEF Edit, Goto
  <2> QED
    BY <2>1, <2>2
<1>9. CASE Prune
  <2>1. release' \in [state : {"none", "draft", "public"}, body : Body]
    BY <1>9, PruneTypes DEF Prune
  <2> QED
    BY <1>9, <2>1, PublishAssumption DEF Prune, Goto
<1>10. CASE PruneFails
  BY <1>10, PublishAssumption DEF PruneFails, Fault, Goto
<1>11. CASE \E a \in Asset : Clobber(a)
  BY <1>11, PublishAssumption, AssetTypes DEF Clobber, SetAsset, Goto
<1>12. CASE \E a \in Asset : Upload(a)
  BY <1>12, PublishAssumption, AssetTypes DEF Upload, SetAsset, Goto
<1>13. CASE Uploaded
  BY <1>13, PublishAssumption DEF Uploaded, Go, Fail, Exit, NoJob, Goto
<1>14. CASE VerifyViews
  BY <1>14, PublishAssumption DEF VerifyViews, Go, Fail, Exit, NoJob, Goto
<1>15. CASE Compare
  BY <1>15, PublishAssumption DEF Compare, Succeed, Go, Fail, Exit, NoJob, Goto
<1>16. CASE Publish
  <2>1. CASE release.state = "none"
    BY <1>16, <2>1 DEF Publish, Fail, Exit, NoJob, Goto
  <2>2. CASE release.state # "none"
    <3>1. release' \in [state : {"none", "draft", "public"}, body : Body]
      BY <1>16, <2>2, EditTypes DEF Publish
    <3> QED
      BY <1>16, <2>2, <3>1 DEF Publish, Goto
  <2> QED
    BY <2>1, <2>2
<1>17. CASE Stop
  BY <1>17, PublishAssumption DEF Stop, Fault, Exit, NoJob, Goto
<1>18. CASE Maintain
  <2>1. release' = [state |-> "none", body |-> Empty]
           \/ \E b \in Body : release' = [state |-> "draft", body |-> b]
    BY <1>18, DraftTypes DEF Maintain, Draft
  <2>2. release' \in [state : {"none", "draft", "public"}, body : Body]
    BY <2>1, EmptyType
  <2> QED
    BY <1>18, <2>2, PublishAssumption DEF Maintain, Goto
<1>19. CASE UNCHANGED vars
  BY <1>19, PublishAssumption DEF vars, Goto
<1> QED
  BY <1>1, <1>2, <1>3, <1>4, <1>5, <1>6, <1>7, <1>8, <1>9, <1>10, <1>11, <1>12, <1>13,
       <1>14, <1>15, <1>16, <1>17, <1>18, <1>19 DEF Next, JobStep, Rerun

(* What the job has established stays so.                                  *)
LEMMA JobStepInv ==
    ASSUME TypeOK, JobInv, [Next]_vars
    PROVE  JobInv'
<1> USE DEF TypeOK, JobInv
<1>1. CASE \E b \in Build : Start(b)
  BY <1>1 DEF Start, NoJob, Goto
<1>2. CASE Attest
  BY <1>2 DEF Attest, Goto
<1>3. CASE View
  BY <1>3 DEF View, Go, Goto
<1>4. CASE ViewFails
  BY <1>4 DEF ViewFails, Fault, Goto
<1>5. CASE IsDraft
  BY <1>5 DEF IsDraft, Go, Goto
<1>6. CASE IsDraftFails
  BY <1>6 DEF IsDraftFails, Fault, Goto
<1>7. CASE Create
  BY <1>7 DEF Create, NewDraft, SecondRelease, Go, Fail, Exit, NoJob, Empty, Goto
<1>8. CASE Edit
  <2>1. CASE release.state = "none"
    BY <1>8, <2>1 DEF Edit, Fail, Exit, NoJob, Goto
  <2>2. CASE release.state # "none"
    <3>1. release'.state = "draft"
      BY <1>8, <2>2, EditTypes DEF Edit
    <3> QED
      BY <1>8, <2>2, <3>1 DEF Edit, Goto
  <2> QED
    BY <2>1, <2>2
<1>9. CASE Prune
  BY <1>9 DEF Prune, Goto
<1>10. CASE PruneFails
  BY <1>10 DEF PruneFails, Fault, Goto
<1>11. CASE \E a \in Asset : Clobber(a)
  BY <1>11 DEF Clobber, SetAsset, Goto
<1>12. CASE \E a \in Asset : Upload(a)
  BY <1>12 DEF Upload, SetAsset, Goto
<1>13. CASE Uploaded
  BY <1>13 DEF Uploaded, Go, Fail, Exit, NoJob, Goto
<1>14. CASE VerifyViews
  BY <1>14 DEF VerifyViews, Go, Fail, Exit, NoJob, Goto
<1>15. CASE Compare
  BY <1>15 DEF Compare, Succeed, Go, Fail, Exit, NoJob, Goto
<1>16. CASE Publish
  BY <1>16 DEF Publish, Fail, Exit, NoJob, Goto
<1>17. CASE Stop
  BY <1>17 DEF Stop, Fault, Exit, NoJob, Goto
<1>18. CASE Maintain
  BY <1>18 DEF Maintain, Draft, Goto
<1>19. CASE UNCHANGED vars
  BY <1>19 DEF vars, Goto
<1> QED
  BY <1>1, <1>2, <1>3, <1>4, <1>5, <1>6, <1>7, <1>8, <1>9, <1>10, <1>11, <1>12, <1>13,
       <1>14, <1>15, <1>16, <1>17, <1>18, <1>19 DEF Next, JobStep, Rerun

(* A job succeeds on what is public and no later one changes it.           *)
LEMMA SuccessStep ==
    ASSUME TypeOK, JobInv, SuccessIsPublic, [Next]_vars
    PROVE  SuccessIsPublic'
<1> USE DEF TypeOK, JobInv, SuccessIsPublic
<1>1. CASE \E b \in Build : Start(b)
  BY <1>1 DEF Start, NoJob, Goto
<1>2. CASE Attest
  BY <1>2 DEF Attest, Goto
<1>3. CASE View
  BY <1>3 DEF View, Go, Goto
<1>4. CASE ViewFails
  BY <1>4 DEF ViewFails, Fault, Goto
<1>5. CASE IsDraft
  BY <1>5 DEF IsDraft, Go, Goto
<1>6. CASE IsDraftFails
  BY <1>6 DEF IsDraftFails, Fault, Goto
<1>7. CASE Create
  BY <1>7 DEF Create, NewDraft, SecondRelease, Go, Fail, Exit, NoJob, Empty, Goto
<1>8. CASE Edit
  BY <1>8 DEF Edit, Fail, Exit, NoJob, Goto
<1>9. CASE Prune
  BY <1>9 DEF Prune, Goto
<1>10. CASE PruneFails
  BY <1>10 DEF PruneFails, Fault, Goto
<1>11. CASE \E a \in Asset : Clobber(a)
  BY <1>11 DEF Clobber, SetAsset, Goto
<1>12. CASE \E a \in Asset : Upload(a)
  BY <1>12 DEF Upload, SetAsset, Goto
<1>13. CASE Uploaded
  BY <1>13 DEF Uploaded, Go, Fail, Exit, NoJob, Goto
<1>14. CASE VerifyViews
  BY <1>14 DEF VerifyViews, Go, Fail, Exit, NoJob, Goto
<1>15. CASE Compare
  <2>1. CASE ~ \A a \in Asset : release.body.assets[a] = job.build
    BY <1>15, <2>1 DEF Compare, Fail, Exit, NoJob, Goto
  <2>2. CASE \A a \in Asset : release.body.assets[a] = job.build
    <3>1. release = [state |-> release.state, body |-> release.body] /\ release.body \in Body
      OBVIOUS
    <3>2. release.body.extra \in BOOLEAN
      BY <3>1 DEF Body
    <3>3. release.state = job.expect /\ release.body.meta = "tag" /\ release.body.extra = FALSE
             => release = [state |-> job.expect, body |-> Full(job.build)]
      BY <2>2, <3>1, FullBody
    <3>4. CASE job.expect = "draft"
      BY <1>15, <2>2, <3>2, <3>3, <3>4 DEF Compare, Go, Goto
    <3>5. CASE job.expect = "public"
      BY <1>15, <2>2, <3>2, <3>3, <3>5 DEF Compare, Succeed, Exit, NoJob, Goto
    <3> QED
      BY <3>4, <3>5
  <2> QED
    BY <2>1, <2>2
<1>16. CASE Publish
  BY <1>16 DEF Publish, Fail, Exit, NoJob, Goto
<1>17. CASE Stop
  BY <1>17 DEF Stop, Fault, Exit, NoJob, Goto
<1>18. CASE Maintain
  BY <1>18 DEF Maintain, Draft, Goto
<1>19. CASE UNCHANGED vars
  BY <1>19 DEF vars, Goto
<1> QED
  BY <1>1, <1>2, <1>3, <1>4, <1>5, <1>6, <1>7, <1>8, <1>9, <1>10, <1>11, <1>12, <1>13,
       <1>14, <1>15, <1>16, <1>17, <1>18, <1>19 DEF Next, JobStep, Rerun

(* Nothing changes the draft between its verification and its publication. *)
LEMMA VerifiedStep ==
    ASSUME TypeOK, JobInv, VerifiedInv, Exclusive, [Next]_vars
    PROVE  VerifiedInv'
<1> USE DEF TypeOK, VerifiedInv
<1>1. CASE \E b \in Build : Start(b)
  BY <1>1 DEF Start, NoJob, Goto
<1>2. CASE Attest
  BY <1>2 DEF Attest, Goto
<1>3. CASE View
  BY <1>3 DEF View, Go, Goto
<1>4. CASE ViewFails
  BY <1>4 DEF ViewFails, Fault, Goto
<1>5. CASE IsDraft
  BY <1>5 DEF IsDraft, Go, Goto
<1>6. CASE IsDraftFails
  BY <1>6 DEF IsDraftFails, Fault, Goto
<1>7. CASE Create
  BY <1>7 DEF Create, NewDraft, SecondRelease, Go, Fail, Exit, NoJob, Empty, Goto
<1>8. CASE Edit
  BY <1>8 DEF Edit, Fail, Exit, NoJob, Goto
<1>9. CASE Prune
  BY <1>9 DEF Prune, Goto
<1>10. CASE PruneFails
  BY <1>10 DEF PruneFails, Fault, Goto
<1>11. CASE \E a \in Asset : Clobber(a)
  BY <1>11 DEF Clobber, SetAsset, Goto
<1>12. CASE \E a \in Asset : Upload(a)
  BY <1>12 DEF Upload, SetAsset, Goto
<1>13. CASE Uploaded
  BY <1>13 DEF Uploaded, Go, Fail, Exit, NoJob, Goto
<1>14. CASE VerifyViews
  BY <1>14 DEF VerifyViews, Go, Fail, Exit, NoJob, Goto
<1>15. CASE Compare
  <2>1. CASE ~ \A a \in Asset : release.body.assets[a] = job.build
    BY <1>15, <2>1 DEF Compare, Fail, Exit, NoJob, Goto
  <2>2. CASE \A a \in Asset : release.body.assets[a] = job.build
    <3>1. release = [state |-> release.state, body |-> release.body] /\ release.body \in Body
      OBVIOUS
    <3>2. release.body.extra \in BOOLEAN
      BY <3>1 DEF Body
    <3>3. release.state = job.expect /\ release.body.meta = "tag" /\ release.body.extra = FALSE
             => release = [state |-> job.expect, body |-> Full(job.build)]
      BY <2>2, <3>1, FullBody
    <3>4. CASE job.expect = "draft"
      BY <1>15, <2>2, <3>2, <3>3, <3>4 DEF Compare, Go, Goto
    <3>5. CASE job.expect = "public"
      BY <1>15, <2>2, <3>2, <3>3, <3>5 DEF Compare, Succeed, Exit, NoJob, Goto
    <3> QED
      BY <3>4, <3>5
  <2> QED
    BY <2>1, <2>2
<1>16. CASE Publish
  BY <1>16 DEF Publish, Fail, Exit, NoJob, Goto
<1>17. CASE Stop
  BY <1>17 DEF Stop, Fault, Exit, NoJob, Goto
<1>18. CASE Maintain
  BY <1>18 DEF Maintain, Draft, Goto
<1>19. CASE UNCHANGED vars
  BY <1>19 DEF vars, Goto
<1> QED
  BY <1>1, <1>2, <1>3, <1>4, <1>5, <1>6, <1>7, <1>8, <1>9, <1>10, <1>11, <1>12, <1>13,
       <1>14, <1>15, <1>16, <1>17, <1>18, <1>19 DEF Next, JobStep, Rerun

(* Only Attest and Publish change what the contract sees.                  *)
LEMMA OtherSteps ==
    ASSUME TypeOK, JobInv, [Next]_vars, ~ Attest, ~ (Publish /\ release.state # "none")
    PROVE  \/ UNCHANGED <<release, attested>>
           \/ UNCHANGED attested /\ release.state # "public" /\ release'.state # "public"
<1> USE DEF TypeOK, JobInv
<1>1. CASE \E b \in Build : Start(b)
  BY <1>1 DEF Start, NoJob, Goto
<1>2. CASE Attest
  BY <1>2 DEF Attest, Goto
<1>3. CASE View
  BY <1>3 DEF View, Go, Goto
<1>4. CASE ViewFails
  BY <1>4 DEF ViewFails, Fault, Goto
<1>5. CASE IsDraft
  BY <1>5 DEF IsDraft, Go, Goto
<1>6. CASE IsDraftFails
  BY <1>6 DEF IsDraftFails, Fault, Goto
<1>7. CASE Create
  BY <1>7 DEF Create, NewDraft, SecondRelease, Go, Fail, Exit, NoJob, Empty, Goto
<1>8. CASE Edit
  BY <1>8 DEF Edit, Fail, Exit, NoJob, Goto
<1>9. CASE Prune
  BY <1>9 DEF Prune, Goto
<1>10. CASE PruneFails
  BY <1>10 DEF PruneFails, Fault, Goto
<1>11. CASE \E a \in Asset : Clobber(a)
  BY <1>11 DEF Clobber, SetAsset, Goto
<1>12. CASE \E a \in Asset : Upload(a)
  BY <1>12 DEF Upload, SetAsset, Goto
<1>13. CASE Uploaded
  BY <1>13 DEF Uploaded, Go, Fail, Exit, NoJob, Goto
<1>14. CASE VerifyViews
  BY <1>14 DEF VerifyViews, Go, Fail, Exit, NoJob, Goto
<1>15. CASE Compare
  BY <1>15 DEF Compare, Succeed, Go, Fail, Exit, NoJob, Goto
<1>16. CASE Publish
  BY <1>16 DEF Publish, Fail, Exit, NoJob, Goto
<1>17. CASE Stop
  BY <1>17 DEF Stop, Fault, Exit, NoJob, Goto
<1>18. CASE Maintain
  BY <1>18 DEF Maintain, Draft, Goto
<1>19. CASE UNCHANGED vars
  BY <1>19 DEF vars, Goto
<1> QED
  BY <1>1, <1>2, <1>3, <1>4, <1>5, <1>6, <1>7, <1>8, <1>9, <1>10, <1>11, <1>12, <1>13,
       <1>14, <1>15, <1>16, <1>17, <1>18, <1>19 DEF Next, JobStep, Rerun

(* The invariants, from the first state on.                                *)
LEMMA PublishInvariant == Spec => []PublishInv
<1>1. Init => PublishInv
  BY PublishAssumption, EmptyType
     DEF Init, PublishInv, TypeOK, JobInv, SuccessIsPublic, NoJob, Steps
<1>2. PublishInv /\ [Next]_vars => PublishInv'
  BY TypeStep, JobStepInv, SuccessStep DEF PublishInv
<1> QED
  BY <1>1, <1>2, PTL DEF Spec

-----------------------------------------------------------------------------
(* The release and the job keep their types; nothing is left to upload     *)
(* once the job verifies.                                                  *)
THEOREM PublishTypeCorrect == Spec => []TypeOK
<1>1. PublishInv => TypeOK
  BY DEF PublishInv
<1> QED
  BY <1>1, PublishInvariant, PTL

(* Every job that exits with 0 has its own build in public, even when      *)
(* maintainers edit drafts while jobs run.                                 *)
THEOREM SuccessAlwaysPublic == Spec => []SuccessIsPublic
<1>1. PublishInv => SuccessIsPublic
  BY DEF PublishInv
<1> QED
  BY <1>1, PublishInvariant, PTL

(* If nobody edits the draft while a job runs, the job implements the      *)
(* contract: a step of it publishes a complete, attested build where       *)
(* nothing was public, attests a build, or leaves both alone.              *)
THEOREM PublishImplementsContract ==
    ASSUME Exclusive PROVE Spec => ImplementsContract
<1>1. Init => Contract!Init
  BY DEF Init, Contract!Init, Public
<1>2. ASSUME PublishInv, VerifiedInv, [Next]_vars
      PROVE  [Contract!Next]_<<attested, Public>>
  <2> USE DEF Public
  <2>1. CASE Attest
    <3>1. job.build \in Build /\ Public' = Public
      BY <1>2, <2>1 DEF Attest, PublishInv, TypeOK
    <3>2. Contract!Attest(job.build)
      BY <2>1, <3>1 DEF Attest, Contract!Attest
    <3> QED
      BY <3>1, <3>2 DEF Contract!Next
  <2>2. CASE Publish /\ release.state # "none"
    <3>1. /\ job.build \in Build /\ job.build \in attested
          /\ release = [state |-> "draft", body |-> Full(job.build)]
      BY <1>2, <2>2 DEF Publish, PublishInv, TypeOK, JobInv, VerifiedInv
    <3>2. release' = [state |-> "public", body |-> Full(job.build)]
      BY <2>2, <3>1 DEF Publish, Full
    <3>3. Contract!Publish(job.build)
      BY <2>2, <3>1, <3>2 DEF Publish, Contract!Publish
    <3> QED
      BY <3>1, <3>3 DEF Contract!Next
  <2>3. ASSUME ~ Attest, ~ (Publish /\ release.state # "none")
        PROVE  UNCHANGED <<attested, Public>>
    <3>1. PublishInv /\ JobInv /\ TypeOK
      BY <1>2 DEF PublishInv
    <3>2. CASE UNCHANGED <<release, attested>>
      BY <3>2
    <3>3. CASE UNCHANGED attested /\ release.state # "public" /\ release'.state # "public"
      BY <3>3
    <3>4. UNCHANGED <<release, attested>> \/
          (UNCHANGED attested /\ release.state # "public" /\ release'.state # "public")
      BY <1>2, <2>3, <3>1, OtherSteps
    <3> QED
      BY <3>2, <3>3, <3>4
  <2> QED
    BY <2>1, <2>2, <2>3
<1>3. VerifiedInv /\ PublishInv /\ [Next]_vars => VerifiedInv'
  BY VerifiedStep DEF PublishInv
<1>4. Init => VerifiedInv
  BY DEF Init, VerifiedInv
<1> QED
  BY <1>1, <1>2, <1>3, <1>4, PublishInvariant, PTL DEF Spec, ImplementsContract,
       Contract!Spec
-----------------------------------------------------------------------------
(* How long a job goes on.                                                 *)

(* No more edits are counted than there are.                               *)
EditsInv == count.edits \in 0 .. MaxEdits

LEMMA EditsStep ==
    ASSUME TypeOK, EditsInv, [Next]_vars
    PROVE  EditsInv'
<1>1. CASE Maintain
  BY <1>1, PublishAssumption DEF Maintain, TypeOK, EditsInv
<1>2. CASE ViewFails \/ IsDraftFails \/ PruneFails \/ Stop
  BY <1>2 DEF ViewFails, IsDraftFails, PruneFails, Stop, Fault, TypeOK, EditsInv
<1>3. ASSUME UNCHANGED count PROVE EditsInv'
  BY <1>3 DEF EditsInv
<1>4. CASE Rerun
  BY <1>3, <1>4 DEF Rerun, Start
<1>5. CASE JobStep
  BY <1>3, <1>5 DEF JobStep, Attest, View, IsDraft, Create, NewDraft, SecondRelease, Edit,
       Prune, Clobber, Upload, Uploaded, VerifyViews, Compare, Publish, Go, Fail, Succeed
<1> QED
  BY <1>1, <1>2, <1>3, <1>4, <1>5 DEF Next, vars

(* What is left of an upload, and of a job.                                *)
LEMMA UploadsCount ==
    /\ \A a \in Asset : UploadsLeft(a) \in 0 .. 2
    /\ \A a \in Asset : UploadsLeft(a)' \in 0 .. 2
    /\ \A a \in Asset : a \notin job.todo => UploadsLeft(a) = 0
    /\ \A a \in Asset : a \notin job'.todo => UploadsLeft(a)' = 0
BY DEF UploadsLeft

(* A step that has nothing to upload before it nor after it.               *)
LEMMA StepsCount ==
    ASSUME NEW a \in Steps, NEW b \in Steps
    PROVE  FromStep[a] \in 0 .. 17 /\ (FromStep[a] = 0 <=> a = "idle")
BY DEF FromStep, Steps

(* Each command of the job costs one, and nothing else costs it more.      *)
LEMMA EffortStep ==
    ASSUME TypeOK, TypeOK', JobInv, EditsInv, [Next]_vars
    PROVE  /\ JobStep => EffortLeft' < EffortLeft
           /\ pc # "idle" => EffortLeft' <= EffortLeft
<1> DEFINE Uploads == UploadsLeft("zip") + UploadsLeft("checksum") + UploadsLeft("sbom")
<1> DEFINE Base == FromStep[pc] + (IF pc \in {"views", "compare"} /\ job.expect = "draft" THEN 3 ELSE 0)
<1>1. EffortLeft = Base + Uploads + (MaxEdits - count.edits)
        /\ EffortLeft' = Base' + Uploads' + (MaxEdits - count'.edits)
        /\ Base \in 0 .. 17 /\ Base' \in 0 .. 17 /\ Uploads \in 0 .. 6 /\ Uploads' \in 0 .. 6
        /\ count.edits \in Nat /\ count'.edits \in Nat /\ MaxEdits \in Nat
        /\ (pc # "upload" => Uploads = 0) /\ (pc' # "upload" => Uploads' = 0)
  <2>1. UploadsLeft("zip") \in 0 .. 2 /\ UploadsLeft("checksum") \in 0 .. 2
        /\ UploadsLeft("sbom") \in 0 .. 2
    BY UploadsCount DEF Asset
  <2>2. UploadsLeft("zip")' \in 0 .. 2 /\ UploadsLeft("checksum")' \in 0 .. 2
        /\ UploadsLeft("sbom")' \in 0 .. 2
    BY UploadsCount DEF Asset
  <2>3. Uploads \in 0 .. 6 /\ Uploads' \in 0 .. 6
    BY <2>1, <2>2
  <2>4. Base \in 0 .. 17 /\ Base' \in 0 .. 17
    BY DEF FromStep, TypeOK, Steps
  <2>5. (pc # "upload" => Uploads = 0) /\ (pc' # "upload" => Uploads' = 0)
    BY UploadsCount DEF TypeOK, Asset
  <2>6. count.edits \in Nat /\ count'.edits \in Nat /\ MaxEdits \in Nat
    BY PublishAssumption DEF TypeOK
  <2>7. EffortLeft = Base + Uploads + (MaxEdits - count.edits)
    BY <2>1, <2>4, <2>6 DEF EffortLeft, CommandsLeft
  <2>8. EffortLeft' = Base' + Uploads' + (MaxEdits - count'.edits)
    BY <2>2, <2>4, <2>6 DEF EffortLeft, CommandsLeft
  <2> QED
    BY <2>3, <2>4, <2>5, <2>6, <2>7, <2>8
<1> HIDE DEF Uploads
<1> USE DEF FromStep
<1>2. CASE Attest
  BY <1>1, <1>2 DEF Attest, Goto
<1>3. CASE View
  BY <1>1, <1>3 DEF View, Go, Goto
<1>4. CASE IsDraft
  BY <1>1, <1>4 DEF IsDraft, Go, Goto
<1>5. CASE Create
  <2>1. NewDraft => UploadsLeft("zip")' <= 1 /\ UploadsLeft("checksum")' <= 1
          /\ UploadsLeft("sbom")' <= 1
    BY DEF NewDraft, UploadsLeft, Empty, Asset
  <2>2. NewDraft => Uploads' <= 3
    BY <2>1, UploadsCount DEF Uploads, Asset
  <2>3. CASE NewDraft
    BY <1>1, <1>5, <2>2, <2>3 DEF Create, NewDraft, Goto
  <2>4. CASE SecondRelease
    BY <1>1, <1>5, <2>4 DEF Create, SecondRelease, Go, Fail, Exit, NoJob, Goto
  <2> QED
    BY <1>5, <2>3, <2>4 DEF Create
<1>6. CASE Edit
  BY <1>1, <1>6 DEF Edit, Fail, Exit, NoJob, Goto
<1>7. CASE Prune
  BY <1>1, <1>7 DEF Prune, Goto
<1>8. ASSUME NEW a \in Asset, Clobber(a)
      PROVE  EffortLeft' < EffortLeft
  <2>1. \A b \in Asset : UploadsLeft(b)' <= UploadsLeft(b)
    <3> TAKE b \in Asset
    <3>1. release'.body.assets[b] = IF b = a THEN "none" ELSE release.body.assets[b]
      BY <1>8, PublishAssumption, AssetTypes DEF Clobber, SetAsset, TypeOK, Body
    <3> QED
      BY <1>8, <3>1 DEF Clobber, UploadsLeft
  <2>2. UploadsLeft(a) = 2 /\ UploadsLeft(a)' = 1
    <3>1. release'.body.assets[a] = "none"
      BY <1>8 DEF Clobber, SetAsset, TypeOK, Body
    <3> QED
      BY <1>8, <3>1 DEF Clobber, UploadsLeft
  <2>3. Uploads' < Uploads
    BY <2>1, <2>2, UploadsCount DEF Uploads, Asset
  <2> QED
    BY <1>1, <1>8, <2>3 DEF Clobber
<1>9. ASSUME NEW a \in Asset, Upload(a)
      PROVE  EffortLeft' < EffortLeft
  <2>1. \A b \in Asset : UploadsLeft(b)' <= UploadsLeft(b)
    <3> TAKE b \in Asset
    <3>1. b # a => release'.body.assets[b] = release.body.assets[b]
      BY <1>9 DEF Upload, SetAsset, TypeOK, Body
    <3>2. job'.todo = job.todo \ {a}
      BY <1>9 DEF Upload, TypeOK
    <3> QED
      BY <1>9, <3>1, <3>2 DEF UploadsLeft
  <2>2. UploadsLeft(a) = 1 /\ UploadsLeft(a)' = 0
    <3>1. job'.todo = job.todo \ {a}
      BY <1>9 DEF Upload, TypeOK
    <3> QED
      BY <1>9, <3>1 DEF Upload, UploadsLeft
  <2>3. Uploads' < Uploads
    BY <2>1, <2>2, UploadsCount DEF Uploads, Asset
  <2>4. pc' = pc /\ pc = "upload" /\ count' = count
    BY <1>9 DEF Upload
  <2> QED
    BY <1>1, <2>3, <2>4
<1>10. CASE Uploaded
  BY <1>1, <1>10 DEF Uploaded, Go, Fail, Exit, NoJob, Goto
<1>11. CASE VerifyViews
  BY <1>1, <1>11 DEF VerifyViews, Go, Fail, Exit, NoJob, Goto
<1>12. CASE Compare
  <2>1. job' = job \/ pc' = "idle"
    BY <1>12 DEF Compare, Succeed, Go, Fail, Exit, Goto
  <2>2. pc = "compare" /\ count' = count
        /\ (pc' = "idle" \/ (pc' = "publish" /\ job.expect = "draft"))
    BY <1>12 DEF Compare, Succeed, Go, Fail, Exit, Goto
  <2> QED
    BY <1>1, <2>1, <2>2
<1>13. CASE Publish
  <2>1. pc = "publish" /\ count' = count
        /\ (pc' = "idle" \/ (pc' = "views" /\ job'.expect = "public"))
    BY <1>13 DEF Publish, Fail, Exit, Goto, TypeOK
  <2> QED
    BY <1>1, <2>1
<1>14. JobStep => EffortLeft' < EffortLeft
  BY <1>1, <1>2, <1>3, <1>4, <1>5, <1>6, <1>7, <1>8, <1>9, <1>10, <1>11, <1>12, <1>13
     DEF JobStep
<1>15. CASE Rerun
  BY <1>14, <1>15 DEF Rerun, Start
<1>16. CASE ViewFails \/ IsDraftFails \/ PruneFails
  <2>1. count'.edits = count.edits
    BY <1>16 DEF ViewFails, IsDraftFails, PruneFails, Fault, TypeOK
  <2>2. CASE ViewFails
    BY <1>1, <2>1, <2>2 DEF ViewFails, Goto
  <2>3. CASE IsDraftFails
    BY <1>1, <2>1, <2>3 DEF IsDraftFails, Goto, TypeOK
  <2>4. CASE PruneFails
    BY <1>1, <2>1, <2>4 DEF PruneFails, Goto
  <2> QED
    BY <1>16, <2>2, <2>3, <2>4
<1>17. CASE Stop
  <2>1. count'.edits = count.edits /\ pc' = "idle"
    BY <1>17 DEF Stop, Fault, Exit, Goto, TypeOK
  <2> QED
    BY <1>1, <1>14, <2>1
<1>18. CASE Maintain
  <2>1. count'.edits = count.edits + 1 /\ pc' = pc /\ job' = job
    BY <1>18 DEF Maintain, TypeOK
  <2>2. \E a \in Asset : \A b \in Asset : b # a => UploadsLeft(b)' <= UploadsLeft(b)
    <3>1. \E a \in Asset : \A b \in Asset :
            b # a => release'.body.assets[b] \in {release.body.assets[b], "none"}
      <4>1. CASE release' = [state |-> "none", body |-> Empty]
        BY <4>1 DEF Empty, Asset
      <4>2. CASE Draft([release.body EXCEPT !.meta = "other"])
        BY <4>2 DEF Draft, Asset, TypeOK, Body
      <4>3. CASE Draft([release.body EXCEPT !.extra = TRUE])
        BY <4>3 DEF Draft, Asset, TypeOK, Body
      <4>4. ASSUME NEW a \in Asset, NEW c \in {"none", "other"},
                   Draft([release.body EXCEPT !.assets = [@ EXCEPT ![a] = c]])
            PROVE  \A b \in Asset :
                     b # a => release'.body.assets[b] \in {release.body.assets[b], "none"}
        BY <4>4 DEF Draft, TypeOK, Body
      <4> QED
        BY <1>18, <4>1, <4>2, <4>3, <4>4 DEF Maintain
    <3>2. PICK a \in Asset : \A b \in Asset :
            b # a => release'.body.assets[b] \in {release.body.assets[b], "none"}
      BY <3>1
    <3>3. ASSUME NEW b \in Asset, b # a
          PROVE  UploadsLeft(b)' <= UploadsLeft(b)
      <4>1. release'.body.assets[b] = release.body.assets[b] \/ release'.body.assets[b] = "none"
        BY <3>2, <3>3
      <4> QED
        BY <2>1, <4>1 DEF UploadsLeft
    <3> QED
      BY <3>3
  <2>3. Uploads' <= Uploads + 1
    <3>1. PICK a \in Asset : \A b \in Asset : b # a => UploadsLeft(b)' <= UploadsLeft(b)
      BY <2>2
    <3>2. UploadsLeft(a)' <= UploadsLeft(a) + 1
      BY <2>1 DEF UploadsLeft
    <3> QED
      BY <3>1, <3>2, UploadsCount DEF Uploads, Asset
  <2>4. EffortLeft' <= EffortLeft
    BY <1>1, <2>1, <2>3
  <2> QED
    BY <1>14, <2>4
<1>19. CASE UNCHANGED vars
  <2>1. EffortLeft' = EffortLeft
    BY <1>1, <1>19 DEF vars, Uploads, UploadsLeft
  <2> QED
    BY <1>14, <1>1, <2>1
<1> QED
  BY <1>1, <1>14, <1>15, <1>16, <1>17, <1>18, <1>19 DEF Next

(* The effort is a number that never falls below zero, whatever the        *)
(* maintainers do at any time, and each command of a job lowers it: so a   *)
(* job ends after MaxEdits + 17 commands at most, and the next is started  *)
(* with no more than that again.                                           *)
THEOREM JobsAlwaysGoOn == Spec => [](EffortLeft \in Nat) /\ JobGoesOn
<1>1. Init => EditsInv
  BY PublishAssumption DEF Init, EditsInv
<1>2. PublishInv /\ EditsInv /\ [Next]_vars => EditsInv'
  BY EditsStep DEF PublishInv
<1>3. ASSUME PublishInv, EditsInv
      PROVE  EffortLeft \in Nat
  <2>1. UploadsLeft("zip") \in 0 .. 2 /\ UploadsLeft("checksum") \in 0 .. 2
        /\ UploadsLeft("sbom") \in 0 .. 2
    BY UploadsCount DEF Asset
  <2>2. FromStep[pc] \in 0 .. 17
    BY <1>3, StepsCount DEF PublishInv, TypeOK
  <2>3. MaxEdits - count.edits \in Nat
    BY <1>3, PublishAssumption DEF EditsInv
  <2> QED
    BY <2>1, <2>2, <2>3 DEF EffortLeft, CommandsLeft
<1>4. PublishInv /\ PublishInv' /\ EditsInv /\ [Next]_vars =>
        [/\ JobStep => EffortLeft' < EffortLeft
         /\ pc # "idle" => EffortLeft' <= EffortLeft]_vars
  BY EffortStep DEF PublishInv
<1> QED
  BY <1>1, <1>2, <1>3, <1>4, PublishInvariant, PTL DEF Spec, JobGoesOn

(* A published release stays as it is, whoever edits what and whenever: no *)
(* job edits, prunes, uploads to or publishes one that is public, since    *)
(* it asked first and only the job itself publishes.                       *)
THEOREM PublishedAlwaysStays == Spec => PublishedStays
<1>1. ASSUME PublishInv, [Next]_vars, release.state = "public"
      PROVE  release' = release
  <2>1. CASE Attest
    BY <2>1 DEF Attest
  <2>2. CASE Publish /\ release.state # "none"
    BY <1>1, <2>2 DEF Publish, PublishInv, JobInv
  <2>3. TypeOK /\ JobInv
    BY <1>1 DEF PublishInv
  <2> QED
    BY <1>1, <2>1, <2>2, <2>3, OtherSteps
<1>2. PublishInv /\ [Next]_vars => [release.state = "public" => release' = release]_vars
  BY <1>1
<1> QED
  BY <1>2, PublishInvariant, PTL DEF Spec, PublishedStays
===================================================================================
