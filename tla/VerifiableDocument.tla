--------------------------- MODULE VerifiableDocument ---------------------------
(***************************************************************************)
(* tools/verifiable_document at work: ingest.py makes source objects, the  *)
(* author pastes them into the specification and marks units as verified,  *)
(* and validate.py or build.py runs over the specification, one of them at *)
(* a time, since shared outputs have one writer (ARCHITECTURE.md). Ingest  *)
(* runs beside them. Sources and the specification change at any time, and *)
(* any process may fail or be killed between two of its steps, which       *)
(* leaves its files as they are. Every build has the same output directory *)
(* and basename, so a build replaces the files of the one before.          *)
(***************************************************************************)
EXTENDS EvidenceIngest

CONSTANTS
    Outlines,               \* what the author may write
    Formats,                \* --html, --docx or both; HTML when neither is given
    Schema,                 \* whether jsonschema is installed
    MaxSources,             \* the sources of a specification
    MaxRuns, MaxWrites      \* bounds

Anchor == ({"claim"} \X ClaimIds) \cup ({"evidence"} \X UnitId) \cup ({"source"} \X Files)

Document == [format : Format, of : Specification, targets : SUBSET Anchor, anchors : SUBSET Anchor]

Validation == [of : Specification, valid : BOOLEAN]

Review == [valid : BOOLEAN]

(* The digest that a build report gives of an output is the output itself. *)
BuildReport == [valid : BOOLEAN, outputs : SUBSET Document]

ASSUME DocumentAssumption ==
    /\ Outlines \subseteq Outline /\ Schema \in BOOLEAN
    /\ Formats \subseteq (SUBSET Format) \ {{}}
    /\ MaxSources \in Nat /\ MaxRuns \in Nat /\ MaxWrites \in Nat
    /\ Absent \notin Document \cup BuildReport /\ Partial \notin Document \cup BuildReport

VARIABLES
    spec,       \* the specification
    out,        \* html, docx, NAME.validation.json, NAME.build.json and the
                \* --report of validate.py
    bpc,        \* the next step of validate.py or build.py, or how it ended
    job,        \* its arguments, what it has read and what it has built
    since,      \* history: what each source has held since the run began
    runs, writes        \* counters

vars == <<ingestVars, spec, out, bpc, job, since, runs, writes>>

documentVars == <<spec, out, bpc, job, runs, writes>>

-----------------------------------------------------------------------------

Job == [command : {"validate", "build"}, formats : SUBSET Format, lenient : BOOLEAN,
        spec : Specification, seen : Seq(Contents \cup {Absent, Unread}), todo : SUBSET Format,
        outputs : SUBSET Document, broken : BOOLEAN]

Part == {"html", "docx", "validation", "report", "review"}

(* A run that failed or was refused leaves nothing but its files. *)
Ended == {"idle", "passed"}

Steps == {"read", "gate", "writeReview", "writeValidation", "open", "write", "check",
          "openReport", "writeReport"}

(* HTML is built before DOCX. *)
Current == IF "html" \in job.todo THEN "html" ELSE "docx"

(* The steps of a build that still has an output to make. *)
Outputting == {"read", "gate", "writeValidation", "open", "write", "check"}

(* Everything has its type, and what a step needs has been read. *)
TypeOK ==
    /\ IngestTypeOK
    /\ spec \in Specification
    /\ out.html \in Document \cup {Absent, Partial}
    /\ out.docx \in Document \cup {Absent, Partial}
    /\ out.validation \in Validation \cup {Absent, Partial}
    /\ out.review \in Review \cup {Absent, Partial}
    /\ out.report \in BuildReport \cup {Absent, Partial}
    /\ out = [part \in Part |-> out[part]]
    /\ bpc \in Steps \cup Ended
    /\ job \in Job \cup {Absent}
    /\ bpc # "idle" => job \in Job
    /\ bpc = "read" => Len(job.seen) < Len(job.spec.sources)
    /\ bpc = "gate" => Len(job.seen) = Len(job.spec.sources)
    /\ bpc \in Outputting \ {"read", "gate"} => job.command = "build"
    /\ bpc \in Outputting /\ job.command = "build" => job.todo # {}
    /\ bpc = "check" => out[Current] \in Document
    /\ since \in [Files -> SUBSET (Contents \cup {Absent})]
    /\ runs \in 0..MaxRuns
    /\ writes \in 0..MaxWrites

Init ==
    /\ IngestInit
    /\ \E o \in Outlines : spec = [outline |-> o, sources |-> << >>]
    /\ out = [part \in Part |-> Absent]
    /\ bpc = "idle" /\ job = Absent
    /\ since = [f \in Files |-> {}]
    /\ runs = 0 /\ writes = 0

-----------------------------------------------------------------------------
(* The author. *)

Write(S) ==
    /\ writes < MaxWrites
    /\ spec' = S
    /\ writes' = writes + 1
    /\ UNCHANGED <<ingestVars, out, bpc, job, since, runs>>

WriteOutline(o) == spec.outline # o /\ Write([spec EXCEPT !.outline = o])

(* A source object becomes the last source, or replaces one. *)
Paste(f) ==
    /\ object[f] \notin {Absent, Partial}
    /\ \/ Len(spec.sources) < MaxSources
          /\ Write([spec EXCEPT !.sources = Append(@, object[f])])
       \/ \E k \in DOMAIN spec.sources : Write([spec EXCEPT !.sources[k] = object[f]])

(* Someone changes local_path, removes it or makes it lead to a directory; *)
(* --local-ref of ingest.py may have done the same.                        *)
Relocate(k, place) ==
    /\ place # spec.sources[k].local
    /\ Write([spec EXCEPT !.sources[k].local = place])

(* A human compares a unit with its source and marks it. *)
Verify(k, u) ==
    /\ ~u.verified
    /\ Write([spec EXCEPT !.sources[k].units =
                  (@ \ {u}) \cup {[u EXCEPT !.verified = TRUE]}])

(* Someone edits the text of a unit and leaves its digest. *)
Reword(k, u, text) ==
    /\ text # u.text
    /\ Write([spec EXCEPT !.sources[k].units = (@ \ {u}) \cup {[u EXCEPT !.text = text]}])

Author ==
    \/ \E o \in Outlines : WriteOutline(o)
    \/ \E f \in Files : Paste(f)
    \/ \E k \in DOMAIN spec.sources, place \in Files \cup {Absent, Unread} : Relocate(k, place)
    \/ \E k \in DOMAIN spec.sources : \E u \in spec.sources[k].units :
           Verify(k, u) \/ \E text \in Text : Reword(k, u, text)

-----------------------------------------------------------------------------
(* validate.py and build.py. *)

Warned == Warnings(job.spec, job.seen)

Refused == Errors(job.spec, Schema, job.seen)

(* After a source has been read, the next one or the findings. *)
AfterRead(S, seen) == IF Len(seen) < Len(S.sources) THEN "read" ELSE "gate"

(* load_json; a file that is not a JSON object ends the run at once. *)
Launch(command, formats, lenient) ==
    /\ bpc \in Ended
    /\ runs < MaxRuns
    /\ spec.outline.form # "unreadable"
    /\ bpc' = AfterRead(spec, << >>)
    /\ job' = [command |-> command, formats |-> formats, lenient |-> lenient, spec |-> spec,
               seen |-> << >>, todo |-> formats, outputs |-> {}, broken |-> FALSE]
    /\ since' = [f \in Files |-> {source[f]}]
    /\ runs' = runs + 1
    /\ UNCHANGED <<ingestVars, spec, out, writes>>

(* What is found where local_path leads. *)
Found(cited) == IF cited.local \in Files THEN source[cited.local] ELSE cited.local

(* A mutant: a missing file is passed over like a directory. *)
SkipMissing ==
    /\ bpc = "read"
    /\ LET found == Found(job.spec.sources[Len(job.seen) + 1])
           seen == Append(job.seen, IF found = Absent THEN Unread ELSE found)
       IN  /\ job' = [job EXCEPT !.seen = seen]
           /\ bpc' = AfterRead(job.spec, seen)
    /\ UNCHANGED <<ingestVars, spec, out, since, runs, writes>>

(* validate_spec reads the file of the next source for its digest, if the  *)
(* source has a local_path and it leads to a file.                         *)
ReadSource ==
    /\ bpc = "read"
    /\ LET seen == Append(job.seen, Found(job.spec.sources[Len(job.seen) + 1]))
       IN  /\ job' = [job EXCEPT !.seen = seen]
           /\ bpc' = AfterRead(job.spec, seen)
    /\ UNCHANGED <<ingestVars, spec, out, since, runs, writes>>

EndRun == bpc' = "idle" /\ job' = Absent

(* What a step of a run leaves alone. *)
Rest == UNCHANGED <<ingestVars, spec, since, runs, writes>>

(* validate.py reports whatever it found. *)
OpenReview ==
    /\ bpc = "gate" /\ job.command = "validate"
    /\ bpc' = "writeReview"
    /\ out' = [out EXCEPT !.review = Partial]
    /\ UNCHANGED job /\ Rest

WriteReview ==
    /\ bpc = "writeReview"
    /\ out' = [out EXCEPT !.review = [valid |-> ~Refused]]
    /\ EndRun /\ Rest

(* build.py refuses errors, and warnings without --allow-warnings, before  *)
(* it writes anything.                                                     *)
Refuse ==
    /\ bpc = "gate" /\ job.command = "build"
    /\ Refused \/ (Warned /\ ~job.lenient)
    /\ EndRun /\ UNCHANGED out /\ Rest

OpenValidation ==
    /\ bpc = "gate" /\ job.command = "build"
    /\ ~Refused /\ (Warned => job.lenient)
    /\ bpc' = "writeValidation"
    /\ out' = [out EXCEPT !.validation = Partial]
    /\ UNCHANGED job /\ Rest

WriteValidation ==
    /\ bpc = "writeValidation"
    /\ bpc' = "open"
    /\ out' = [out EXCEPT !.validation = [of |-> job.spec, valid |-> TRUE]]
    /\ UNCHANGED job /\ Rest

(* build_html and build_docx render first; a ValueError or KeyError there  *)
(* stops the run and leaves the output of the build before. Then the file  *)
(* is truncated.                                                           *)
OpenOutput ==
    /\ bpc = "open"
    /\ Renders(job.spec)
    /\ bpc' = "write"
    /\ out' = [out EXCEPT ![Current] = Partial]
    /\ UNCHANGED job /\ Rest

WriteOutput ==
    /\ bpc = "write"
    /\ bpc' = "check"
    /\ out' = [out EXCEPT ![Current] = Rendered(Current, job.spec)]
    /\ UNCHANGED job /\ Rest

(* A mutant: every check is followed by another output. *)
CheckAndGoOn ==
    /\ bpc = "check"
    /\ job' = [job EXCEPT !.todo = @ \ {Current}, !.outputs = @ \cup {out[Current]}]
    /\ bpc' = "open"
    /\ UNCHANGED out /\ Rest

(* The links and the digest of an output are those of the file on disk. *)
CheckOutput ==
    /\ bpc = "check"
    /\ LET document == out[Current]
       IN  job' = [job EXCEPT !.todo = @ \ {Current}, !.outputs = @ \cup {document},
                              !.broken = @ \/ LinkErrors(document) # {}]
    /\ bpc' = IF job.todo = {Current} THEN "openReport" ELSE "open"
    /\ UNCHANGED out /\ Rest

OpenReport ==
    /\ bpc = "openReport"
    /\ bpc' = "writeReport"
    /\ out' = [out EXCEPT !.report = Partial]
    /\ UNCHANGED job /\ Rest

WriteReport ==
    /\ bpc = "writeReport"
    /\ IF job.broken THEN EndRun ELSE bpc' = "passed" /\ UNCHANGED job
    /\ out' = [out EXCEPT !.report =
           [valid |-> ~job.broken, outputs |-> job.outputs]]
    /\ Rest

(* A file cannot be read or written, python-docx is missing, rendering     *)
(* fails, or the process is killed.                                        *)
StopRun ==
    /\ bpc \in Steps
    /\ EndRun /\ UNCHANGED out /\ Rest

Run ==
    \/ \E formats \in Formats, lenient \in BOOLEAN : Launch("build", formats, lenient)
    \/ Launch("validate", {}, FALSE)
    \/ ReadSource \/ OpenReview \/ WriteReview \/ Refuse \/ OpenValidation
    \/ WriteValidation \/ OpenOutput \/ WriteOutput \/ CheckOutput
    \/ OpenReport \/ WriteReport \/ StopRun

Change(f, content) ==
    /\ EditSource(f, content)
    /\ since' = [since EXCEPT ![f] = @ \cup {content}]
    /\ UNCHANGED documentVars

Next ==
    \/ IngestStep /\ UNCHANGED <<documentVars, since>>
    \/ \E f \in Files, content \in Contents \cup {Absent} : Change(f, content)
    \/ Author
    \/ Run

Spec == Init /\ [][Next]_vars

-----------------------------------------------------------------------------

Complete(part) == out[part] \notin {Absent, Partial}

(* A document on disk, whatever has failed or been killed since, is one a  *)
(* reader can rely on: validate_spec refuses a specification that is not   *)
(* sound, and main of build.py renders the one it has validated.           *)
OutputIsSound ==
    \A format \in Format : Complete(format) =>
        Sound(out[format].of) /\ LinkErrors(out[format]) = {}

(* A unit that a document shows is the text its source had under the       *)
(* digest the document gives for the source, unless the source changed     *)
(* between the two reads of ingest.py. A reworded unit does not get past   *)
(* validate_spec, and a source object is pasted whole, with the digest its *)
(* units belong to.                                                        *)
CitedIsInSource ==
    \A format \in Format : Complete(format) =>
        \A k \in DOMAIN out[format].of.sources :
            LET cited == out[format].of.sources[k]
            IN  \A u \in cited.units :
                    \/ /\ u.id[1] = cited.file
                       /\ u.id[2] \in DOMAIN TextOf[cited.sha]
                       /\ u.text = TextOf[cited.sha][u.id[2]]
                    \/ <<u.id, u.text, cited.sha>> \in mixed

(* When build.py exits 0, its report lists the documents of the formats    *)
(* asked for as they are on disk, they and the validation report are of    *)
(* the one specification it read, and each file that a local_path leads to *)
(* was at some moment of the build what the document says of the source,   *)
(* or it was missing and --allow-warnings was given. A source without      *)
(* local_path, or with a directory there, is cited as it is: no finding    *)
(* says that its digest was never compared.                                *)
PassedIsCurrent ==
    bpc = "passed" =>
        /\ out.validation = [of |-> job.spec, valid |-> TRUE]
        /\ Complete("report") /\ out.report.valid
        /\ out.report.outputs = {out[format] : format \in job.formats}
        /\ \A format \in job.formats :
               Complete(format) /\ out[format].format = format /\ out[format].of = job.spec
        /\ \A k \in DOMAIN job.spec.sources :
               LET cited == job.spec.sources[k]
               IN  \/ cited.local \in Files /\ cited.sha \in since[cited.local]
                   \/ cited.local \in Files /\ Absent \in since[cited.local] /\ job.lenient
                   \/ cited.local = Absent /\ job.lenient
                   \/ cited.local = Unread
=============================================================================
