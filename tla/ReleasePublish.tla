----------------------------- MODULE ReleasePublish -----------------------------
(***************************************************************************)
(* The release job of .github/workflows/release.yml for one tag, and the   *)
(* GitHub release it works on. A gh call is an action, an upload one for   *)
(* each asset; the reads of verify_release are two, its views and its      *)
(* download. A call may fail and the job be cancelled or run out of time   *)
(* between any two actions. The concurrency group lets one job run at a    *)
(* time. GitHub accepts several drafts of a tag: release is the one that   *)
(* gh resolves the tag to, the published one if there is one.              *)
(*                                                                         *)
(* Title, notes and the pre-release flag come from the tag, so all builds  *)
(* share them; the bytes of the assets may differ from build to build.     *)
(* A build is reproducible for one toolchain: Build has one for each       *)
(* toolchain the runner may have.                                          *)
(***************************************************************************)
EXTENDS Naturals

CONSTANTS
    Build,      \* the builds that runs of the workflow can produce
    Exclusive,  \* TRUE: nobody else touches the release while a job runs
    MaxFaults,  \* bound: failed calls and cancelled jobs
    MaxEdits    \* bound: edits of the maintainers

ASSUME PublishAssumption ==
    /\ Exclusive \in BOOLEAN
    /\ MaxFaults \in Nat /\ MaxEdits \in Nat
    /\ Build \cap {"none", "other"} = {}

VARIABLES
    release,    \* the release of the tag
    attested,   \* builds with an attestation
    pc,         \* the next step of the job, "idle" when none runs
    job,        \* its build, what it verifies and what it has yet to upload
    succeeded,  \* history: builds of the jobs that exited with 0
    count       \* failures and edits so far

vars == <<release, attested, pc, job, succeeded, count>>

-----------------------------------------------------------------------------

Asset == {"zip", "checksum", "sbom"}

(* meta is title, notes and flag together; extra says that there are       *)
(* assets besides the three.                                               *)
Body == [meta : {"tag", "other"}, assets : [Asset -> Build \cup {"none", "other"}],
         extra : BOOLEAN]

Empty == [meta |-> "tag", assets |-> [a \in Asset |-> "none"], extra |-> FALSE]

Full(b) == [meta |-> "tag", assets |-> [a \in Asset |-> b], extra |-> FALSE]

Steps == {"idle", "attest", "view", "isDraft", "create", "edit", "prune", "upload",
          "views", "compare", "publish"}

(* The release and the job keep their types: a running job has a build,    *)
(* and only the step that uploads has something left to upload.            *)
TypeOK ==
    /\ release \in [state : {"none", "draft", "public"}, body : Body]
    /\ attested \subseteq Build
    /\ pc \in Steps
    /\ job \in [build : Build \cup {"none"}, expect : {"draft", "public"},
                todo : SUBSET Asset]
    /\ succeeded \subseteq Build
    /\ count \in [faults : Nat, edits : Nat]
    /\ pc # "idle" => job.build \in Build
    /\ job.todo # {} => pc = "upload"

NoJob == [build |-> "none", expect |-> "draft", todo |-> {}]

Init ==
    /\ release = [state |-> "none", body |-> Empty]
    /\ attested = {}
    /\ pc = "idle"
    /\ job = NoJob
    /\ succeeded = {}
    /\ count = [faults |-> 0, edits |-> 0]

-----------------------------------------------------------------------------

Goto(step) == pc' = step

Exit == Goto("idle") /\ job' = NoJob

(* set -e: a test or a command that fails ends the job.                    *)
Fail == Exit /\ UNCHANGED <<release, attested, succeeded, count>>

Fault == count.faults < MaxFaults /\ count' = [count EXCEPT !.faults = @ + 1]

Go(step) == Goto(step) /\ UNCHANGED <<release, attested, job, succeeded, count>>

(* The needed jobs have passed; the gates pass again, and the assets are   *)
(* built twice and are the same.                                           *)
Start(b) ==
    /\ pc = "idle"
    /\ job' = [NoJob EXCEPT !.build = b]
    /\ Goto("attest")
    /\ UNCHANGED <<release, attested, succeeded, count>>

Attest ==
    /\ pc = "attest"
    /\ attested' = attested \cup {job.build}
    /\ Goto("view")
    /\ UNCHANGED <<release, job, succeeded, count>>

View ==
    /\ pc = "view"
    /\ IF release.state = "none" THEN Go("create") ELSE Go("isDraft")

(* `if gh release view` takes any failure for an absent release.           *)
ViewFails ==
    /\ pc = "view"
    /\ Fault
    /\ Goto("create")
    /\ UNCHANGED <<release, attested, job, succeeded>>

(* Mutant: a published release is repaired like a draft. *)
RepairAny ==
    /\ pc = "isDraft"
    /\ Go("edit")

IsDraft ==
    /\ pc = "isDraft"
    /\ IF release.state = "draft" THEN Go("edit")
       ELSE /\ job' = [job EXCEPT !.expect = "public"]
            /\ Goto("views")
            /\ UNCHANGED <<release, attested, succeeded, count>>

(* In `[[ "$(gh ...)" != true ]]` a failure is an empty answer, not a draft. *)
IsDraftFails ==
    /\ pc = "isDraft"
    /\ Fault
    /\ job' = [job EXCEPT !.expect = "public"]
    /\ Goto("views")
    /\ UNCHANGED <<release, attested, succeeded>>

(* Mutant: the job goes on before the uploads have ended. *)
CreateOnly ==
    /\ pc = "create"
    /\ release' = [state |-> "draft", body |-> Empty]
    /\ job' = [job EXCEPT !.todo = Asset]
    /\ Goto("views")
    /\ UNCHANGED <<attested, succeeded, count>>

NewDraft ==
    /\ release.state # "public"
    /\ release' = [state |-> "draft", body |-> Empty]
    /\ job' = [job EXCEPT !.todo = Asset]
    /\ Goto("upload")
    /\ UNCHANGED <<attested, succeeded, count>>

(* The service refuses a second release of the tag, or it has two: gh      *)
(* uploads to the new one and may go on showing the old one.               *)
SecondRelease ==
    /\ release.state # "none"
    /\ Fail \/ Go("views")

(* gh release create makes a draft and then uploads to it.                 *)
Create ==
    /\ pc = "create"
    /\ NewDraft \/ SecondRelease

Edit ==
    /\ pc = "edit"
    /\ IF release.state = "none" THEN Fail
       ELSE /\ release' = [release EXCEPT !.state = "draft", !.body.meta = "tag"]
            /\ Goto("prune")
            /\ UNCHANGED <<attested, job, succeeded, count>>

(* Mutant: foreign assets stay. *)
KeepForeign ==
    /\ pc = "prune"
    /\ job' = [job EXCEPT !.todo = Asset]
    /\ Goto("upload")
    /\ UNCHANGED <<release, attested, succeeded, count>>

(* delete-asset for each asset that is not one of the three.               *)
Prune ==
    /\ pc = "prune"
    /\ release' = [release EXCEPT !.body.extra = FALSE]
    /\ job' = [job EXCEPT !.todo = Asset]
    /\ Goto("upload")
    /\ UNCHANGED <<attested, succeeded, count>>

(* The list is read in a process substitution, whose failure set -e does   *)
(* not see: the loop finds nothing to delete and the job goes on.          *)
PruneFails ==
    /\ pc = "prune"
    /\ Fault
    /\ job' = [job EXCEPT !.todo = Asset]
    /\ Goto("upload")
    /\ UNCHANGED <<release, attested, succeeded>>

SetAsset(a, content) ==
    release' = [release EXCEPT !.body.assets = [@ EXCEPT ![a] = content]]

(* --clobber deletes the asset of the same name before it uploads.         *)
Clobber(a) ==
    /\ pc = "upload"
    /\ a \in job.todo
    /\ release.state # "none"
    /\ release.body.assets[a] # "none"
    /\ SetAsset(a, "none")
    /\ UNCHANGED <<attested, pc, job, succeeded, count>>

Upload(a) ==
    /\ pc = "upload"
    /\ a \in job.todo
    /\ release.state # "none"
    /\ release.body.assets[a] = "none"
    /\ SetAsset(a, job.build)
    /\ job' = [job EXCEPT !.todo = @ \ {a}]
    /\ UNCHANGED <<attested, pc, succeeded, count>>

Uploaded ==
    /\ pc = "upload"
    /\ job.todo = {} \/ release.state = "none"
    /\ IF release.state = "none" THEN Fail ELSE Go("views")

-----------------------------------------------------------------------------
(* verify_release.                                                         *)

(* Mutant: a draft that is not as it should be is repaired again. *)
RepairAgain ==
    /\ pc = "views"
    /\ IF /\ release.state = job.expect /\ release.body.meta = "tag"
          /\ ~ release.body.extra /\ \A a \in Asset : release.body.assets[a] # "none"
       THEN Go("compare")
       ELSE IF job.expect = "draft" THEN Go("edit") ELSE Fail

VerifyViews ==
    /\ pc = "views"
    /\ IF /\ release.state = job.expect
          /\ release.body.meta = "tag"
          /\ ~ release.body.extra
          /\ \A a \in Asset : release.body.assets[a] # "none"
       THEN Go("compare")
       ELSE Fail

Succeed ==
    /\ succeeded' = succeeded \cup {job.build}
    /\ Exit
    /\ UNCHANGED <<release, attested, count>>

(* Mutant: the downloads are not compared. *)
TrustNames ==
    /\ pc = "compare"
    /\ IF job.expect = "draft" THEN Go("publish") ELSE Succeed

Compare ==
    /\ pc = "compare"
    /\ IF \A a \in Asset : release.body.assets[a] = job.build
       THEN IF job.expect = "draft" THEN Go("publish") ELSE Succeed
       ELSE Fail

-----------------------------------------------------------------------------

Publish ==
    /\ pc = "publish"
    /\ IF release.state = "none" THEN Fail
       ELSE /\ release' = [release EXCEPT !.state = "public", !.body.meta = "tag"]
            /\ job' = [job EXCEPT !.expect = "public"]
            /\ Goto("views")
            /\ UNCHANGED <<attested, succeeded, count>>

(* A call fails, the job is cancelled or its time is up.                   *)
Stop ==
    /\ pc # "idle"
    /\ Fault
    /\ Exit
    /\ UNCHANGED <<release, attested, succeeded>>

Draft(body) == release' = [state |-> "draft", body |-> body]

(* A maintainer deletes the drafts, makes one or changes the one gh shows. *)
Maintain ==
    /\ count.edits < MaxEdits
    /\ count' = [count EXCEPT !.edits = @ + 1]
    /\ Exclusive => pc = "idle"
    /\ release.state # "public"
    /\ \/ release' = [state |-> "none", body |-> Empty]
       \/ Draft([release.body EXCEPT !.meta = "other"])
       \/ Draft([release.body EXCEPT !.extra = TRUE])
       \/ \E a \in Asset, c \in {"none", "other"} :
             Draft([release.body EXCEPT !.assets = [@ EXCEPT ![a] = c]])
    /\ UNCHANGED <<attested, pc, job, succeeded>>

JobStep ==
    \/ Attest \/ View \/ IsDraft \/ Create \/ Edit \/ Prune
    \/ \E a \in Asset : Clobber(a) \/ Upload(a)
    \/ Uploaded \/ VerifyViews \/ Compare \/ Publish

Rerun == \E b \in Build : Start(b)

Next ==
    \/ JobStep \/ Rerun \/ Maintain
    \/ ViewFails \/ IsDraftFails \/ PruneFails \/ Stop

(* A started job goes on, and a failed one is run again.                   *)
Fairness == WF_vars(JobStep) /\ WF_vars(Rerun)

Spec == Init /\ [][Next]_vars

FairSpec == Spec /\ Fairness

-----------------------------------------------------------------------------
(* Properties.                                                             *)

Public == IF release.state = "public" THEN {release.body} ELSE {}

Contract == INSTANCE ReleaseContract WITH public <- Public

(* The job implements the contract: what it publishes is complete, of one  *)
(* attested build, and stays as it was published, whatever a rerun of the  *)
(* job with another build, a repaired draft or a failure does later.       *)
ImplementsContract == Contract!Spec

(* A job that exits with 0 has its own build in public, byte for byte, and *)
(* so have all jobs that do.                                               *)
SuccessIsPublic ==
    \A b \in succeeded : release = [state |-> "public", body |-> Full(b)]

(* What is public stays as it is, even if maintainers edit drafts at any   *)
(* time.                                                                   *)
PublishedStays == [][release.state = "public" => release' = release]_vars

(* However many jobs fail and whatever draft is left by them or by the     *)
(* maintainers, rerunning the job publishes the release in the end.        *)
EventuallyPublic == <>(release.state = "public")

(* Commands the job has left at most: an asset takes one to be deleted and *)
(* one to be uploaded. An edit of the draft can put one of them off.       *)
UploadsLeft(a) ==
    IF a \notin job.todo THEN 0 ELSE IF release.body.assets[a] = "none" THEN 1 ELSE 2

FromStep ==
    [idle |-> 0, compare |-> 1, views |-> 2, publish |-> 3, upload |-> 6, create |-> 13,
     prune |-> 13, edit |-> 14, isDraft |-> 15, view |-> 16, attest |-> 17]

CommandsLeft ==
    FromStep[pc] + (IF pc \in {"views", "compare"} /\ job.expect = "draft" THEN 3 ELSE 0)
        + UploadsLeft("zip") + UploadsLeft("checksum") + UploadsLeft("sbom")

EffortLeft == CommandsLeft + (MaxEdits - count.edits)

(* A job ends: each of its commands brings it closer to its end, the       *)
(* repair of a draft leads to no second repair, and an edit of the draft   *)
(* while it uploads costs it no more than one command.                     *)
JobGoesOn ==
    [][/\ JobStep => EffortLeft' < EffortLeft
       /\ pc # "idle" => EffortLeft' <= EffortLeft]_vars
-----------------------------------------------------------------------------
(* Why they hold: the parts of an inductive invariant.                     *)

(* What the job has established when it reaches a step.                    *)
JobInv ==
    /\ pc \notin {"idle", "attest"} => job.build \in attested
    /\ pc \notin {"idle", "views", "compare"} => job.expect = "draft"
    /\ pc \in {"edit", "prune", "upload", "publish"} => release.state # "public"
    /\ pc = "compare" /\ job.expect = "draft" => release.state # "public"
    /\ pc = "compare" /\ job.expect = "public" =>
          release.state = "public" /\ release.body.meta = "tag" /\ ~ release.body.extra

(* Both hold as long as nobody edits the draft while a job verifies it.    *)
VerifiedInv ==
    /\ pc = "compare" =>
          /\ release.state = job.expect
          /\ release.body.meta = "tag" /\ ~ release.body.extra
    /\ pc = "publish" => release = [state |-> "draft", body |-> Full(job.build)]

PublishInv == TypeOK /\ JobInv /\ SuccessIsPublic
=============================================================================
