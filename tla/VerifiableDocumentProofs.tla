------------------------ MODULE VerifiableDocumentProofs ------------------------
(***************************************************************************)
(* What VerifiableDocument promises holds for any sources, specifications, *)
(* numbers of runs and installed libraries. A document on disk was         *)
(* rendered from a specification that validate_spec accepted (Outs), and   *)
(* an accepted specification is sound (AcceptedIsSound). The digest of a   *)
(* unit never leaves what ingest.py wrote (Genuine), and an accepted unit  *)
(* has the text of its digest.                                             *)
(***************************************************************************)
EXTENDS VerifiableDocument, SequenceTheorems, TLAPS

-----------------------------------------------------------------------------
(* Specifications and what is rendered from them. *)

(* The parts of a specification have their types. *)
LEMMA SpecificationParts ==
    ASSUME NEW S \in Specification
    PROVE  /\ S.outline \in Outline /\ S.sources \in Seq(Source)
           /\ DOMAIN S.sources = 1..Len(S.sources)
           /\ \A k \in DOMAIN S.sources : S.sources[k] \in Source
           /\ Claims(S) \subseteq Claim
           /\ Units(S) \subseteq Unit
<1>1. S.outline \in Outline /\ S.sources \in Seq(Source)
  BY DEF Specification
<1>2. DOMAIN S.sources = 1..Len(S.sources) /\ \A k \in DOMAIN S.sources : S.sources[k] \in Source
  BY <1>1
<1>3. S.outline.claims \in Seq(Claim)
  BY <1>1 DEF Outline
<1>4. Claims(S) \subseteq Claim
  BY <1>3 DEF Claims, Range
<1>5. Units(S) \subseteq Unit
  BY <1>2 DEF Units, Source
<1> QED BY <1>1, <1>2, <1>4, <1>5

(* A specification that validate_spec accepts is sound. *)
LEMMA AcceptedIsSound ==
    ASSUME NEW S \in Specification, ~SpecErrors(S, Schema)
    PROVE  Sound(S)
<1> USE SpecificationParts
<1>1. \A i, j \in DOMAIN S.outline.claims :
          S.outline.claims[i].id = S.outline.claims[j].id => i = j
  BY DEF SpecErrors, DuplicateClaim
<1>2. \A u, v \in Units(S) : u.id = v.id => u = v
  <2> SUFFICES ASSUME NEW u \in Units(S), NEW v \in Units(S), u.id = v.id PROVE u = v
    OBVIOUS
  <2>1. PICK k \in DOMAIN S.sources : u \in S.sources[k].units
    BY DEF Units
  <2>2. PICK l \in DOMAIN S.sources : v \in S.sources[l].units
    BY DEF Units
  <2> QED BY <2>1, <2>2 DEF SpecErrors, DuplicateUnit
<1>3. \A c \in Claims(S) : \A ref \in Refs(c) : \E u \in Units(S) : u.id = ref
  BY DEF SpecErrors, UnresolvedRef
<1>4. \A u \in Units(S) : u.sha = u.text
  BY DEF SpecErrors, UnitDigestMismatch
<1>5. \A k \in DOMAIN S.sources : S.sources[k].mode = "page-image-evidence" =>
          \A u \in S.sources[k].units : u.verified
  BY DEF SpecErrors, UnverifiedScan
<1>6. \A c \in Claims(S) : c.material => \E u \in Units(S) : u.id \in c.evidence /\ u.verified
  BY DEF SpecErrors, MaterialWithoutEvidence, MaterialWithoutVerifiedUnit
<1> QED BY <1>1, <1>2, <1>3, <1>4, <1>5, <1>6 DEF Sound

(* Rendering gives a document. *)
LEMMA RenderedType ==
    ASSUME NEW S \in Specification, NEW format \in Format
    PROVE  Rendered(format, S) \in Document /\ Rendered(format, S).of = S
           /\ Rendered(format, S).format = format
<1> USE SpecificationParts
<1>1. \A c \in Claims(S) : c.id \in ClaimIds /\ Refs(c) \subseteq UnitId
  BY DEF Claim, Refs
<1>2. \A u \in Units(S) : u.id \in UnitId
  BY DEF Unit
<1>3. \A k \in DOMAIN S.sources : S.sources[k].file \in Files
  BY DEF Source
<1>4. \A c \in Claims(S) : ClaimAnchor(c) \in Anchor
  BY <1>1 DEF ClaimAnchor, Anchor
<1>5. \A id \in UnitId : UnitAnchor(id) \in Anchor
  BY DEF UnitAnchor, Anchor
<1>6. \A f \in Files : <<"source", f>> \in Anchor
  BY DEF Anchor
<1>7. Targets(S) \subseteq Anchor
  BY <1>1, <1>4, <1>5 DEF Targets, Backlinks
<1>8. HtmlOf(S) \in Document /\ DocxOf(S) \in Document
  BY <1>2, <1>3, <1>4, <1>5, <1>6, <1>7 DEF HtmlOf, DocxOf, Document, Format
<1> QED BY <1>8 DEF Rendered, HtmlOf, DocxOf, Format

(* No link of a document that was rendered from an accepted specification  *)
(* leads nowhere.                                                          *)
LEMMA AcceptedLinksResolve ==
    ASSUME NEW S \in Specification, ~SpecErrors(S, Schema), NEW format \in Format
    PROVE  LinkErrors(Rendered(format, S)) = {}
<1>1. \A c \in Claims(S) : \A ref \in Refs(c) : \E u \in Units(S) : u.id = ref
  BY DEF SpecErrors, UnresolvedRef
<1> DEFINE A == {ClaimAnchor(c) : c \in Claims(S)} \cup {UnitAnchor(u.id) : u \in Units(S)}
<1>2. Targets(S) \subseteq A
  BY <1>1 DEF Targets, Backlinks
<1>3. A \subseteq Rendered(format, S).anchors /\ Rendered(format, S).targets = Targets(S)
  BY DEF Rendered, HtmlOf, DocxOf
<1> QED BY <1>2, <1>3 DEF LinkErrors

(* Appending adds one element behind those that were there. *)
LEMMA Appended ==
    ASSUME NEW S, NEW s \in Seq(S), NEW e \in S
    PROVE  /\ Append(s, e) \in Seq(S)
           /\ Len(Append(s, e)) = Len(s) + 1
           /\ \A k \in 1..Len(Append(s, e)) :
                  Append(s, e)[k] = IF k <= Len(s) THEN s[k] ELSE e
OBVIOUS

-----------------------------------------------------------------------------
(* What the author may make of a specification. *)

LEMMA OutlineType ==
    ASSUME NEW S \in Specification, NEW o \in Outline
    PROVE  [S EXCEPT !.outline = o] \in Specification
BY DEF Specification

LEMMA AppendType ==
    ASSUME NEW S \in Specification, NEW o \in Source
    PROVE  LET T == [S EXCEPT !.sources = Append(@, o)]
           IN  /\ T \in Specification
               /\ \A k \in DOMAIN T.sources :
                      (k \in DOMAIN S.sources /\ T.sources[k] = S.sources[k]) \/ T.sources[k] = o
<1> DEFINE T == [S EXCEPT !.sources = Append(@, o)]
<1>1. S.sources \in Seq(Source) /\ T.sources = Append(S.sources, o) /\ T.outline = S.outline
  BY DEF Specification
<1>2. T \in Specification
  BY <1>1 DEF Specification
<1>3. ASSUME NEW k \in DOMAIN T.sources
      PROVE  (k \in DOMAIN S.sources /\ T.sources[k] = S.sources[k]) \/ T.sources[k] = o
  BY <1>1
<1> QED BY <1>2, <1>3

LEMMA ReplaceType ==
    ASSUME NEW S \in Specification, NEW k \in DOMAIN S.sources, NEW o \in Source
    PROVE  LET T == [S EXCEPT !.sources[k] = o]
           IN  /\ T \in Specification
               /\ DOMAIN T.sources = DOMAIN S.sources
               /\ \A j \in DOMAIN S.sources :
                      T.sources[j] = IF j = k THEN o ELSE S.sources[j]
<1> DEFINE T == [S EXCEPT !.sources[k] = o]
<1>1. S.sources \in Seq(Source) /\ T.sources = [S.sources EXCEPT ![k] = o]
      /\ T.outline = S.outline
  BY DEF Specification
<1>2. k \in 1..Len(S.sources)
  BY <1>1
<1>3. T.sources \in Seq(Source) /\ DOMAIN T.sources = DOMAIN S.sources
      /\ \A j \in DOMAIN S.sources : T.sources[j] = IF j = k THEN o ELSE S.sources[j]
  BY <1>1, <1>2, ExceptSeq
<1>4. T \in Specification
  BY <1>1, <1>3 DEF Specification
<1> QED BY <1>3, <1>4

(* Changing the units of a source or its local_path replaces the source. *)
LEMMA UnitsAreReplaced ==
    ASSUME NEW S \in Specification, NEW k \in DOMAIN S.sources, NEW V
    PROVE  [S EXCEPT !.sources[k].units = V]
               = [S EXCEPT !.sources[k] = [S.sources[k] EXCEPT !.units = V]]
OBVIOUS

LEMMA LocalIsReplaced ==
    ASSUME NEW S \in Specification, NEW k \in DOMAIN S.sources, NEW place
    PROVE  [S EXCEPT !.sources[k].local = place]
               = [S EXCEPT !.sources[k] = [S.sources[k] EXCEPT !.local = place]]
OBVIOUS

-----------------------------------------------------------------------------
(* Type correctness. *)

LEMMA InitType == Init => TypeOK
BY IngestAssumption, DocumentAssumption
   DEF Init, IngestInit, TypeOK, IngestTypeOK, Part, Steps, Ended, Specification, Outputting

(* What the processes beside a run leave alone. *)
LEMMA TypeKept ==
    ASSUME TypeOK, UNCHANGED documentVars, IngestTypeOK',
           since' \in [Files -> SUBSET (Contents \cup {Absent})]
    PROVE  TypeOK'
BY DEF TypeOK, documentVars, Current

LEMMA IngestType ==
    ASSUME IngestTypeOK, IngestStep
    PROVE  IngestTypeOK'
<1> USE DEF IngestTypeOK
<1>1. ASSUME NEW f \in Files, NEW mode \in Mode, NEW verified \in BOOLEAN,
             LaunchIngest(f, mode, verified)
      PROVE  IngestTypeOK'
  BY <1>1, IngestAssumption DEF LaunchIngest, Ingest
<1>2. CASE Extract
  <2>1. source[ingest.file] \in Contents /\ TextOf[source[ingest.file]] \in Seq(Text)
    BY <1>2, SpecAssumption DEF Extract, Ingest
  <2> QED BY <1>2, <2>1 DEF Extract, Ingest
<1>3. CASE Digest
  BY <1>3 DEF Digest, Ingest
<1>4. CASE OpenObject
  BY <1>4 DEF OpenObject
<1>5. CASE WriteObject
  <2>1. ingest.file \in Files /\ ingest.text \in Seq(Text) /\ ingest.sha \in Contents
    BY <1>5 DEF WriteObject, Ingest
  <2>2. \A i \in DOMAIN ingest.text : UnitOf(i) \in Unit
    BY <1>5, <2>1 DEF WriteObject, UnitOf, Unit, UnitId, Ingest
  <2>3. [file |-> ingest.file, local |-> ingest.file, sha |-> ingest.sha,
         mode |-> ingest.mode, units |-> {UnitOf(i) : i \in DOMAIN ingest.text}] \in Source
    BY <1>5, <2>1, <2>2 DEF WriteObject, Source, Ingest
  <2>4. mixed' \subseteq UnitId \X Text \X Contents
    BY <1>5, <2>1, <2>2 DEF WriteObject, Unit
  <2> QED BY <1>5, <2>3, <2>4 DEF WriteObject, EndIngest
<1>6. CASE StopIngest
  BY <1>6 DEF StopIngest, EndIngest
<1> QED BY <1>1, <1>2, <1>3, <1>4, <1>5, <1>6 DEF IngestStep

(* What the author writes is a specification again. *)
LEMMA AuthorWrites ==
    ASSUME TypeOK, Author
    PROVE  \E S \in Specification : Write(S)
<1>1. spec \in Specification /\ \A f \in Files : object[f] \in Source \cup {Absent, Partial}
  BY DEF TypeOK, IngestTypeOK
<1>2. ASSUME NEW o \in Outlines, WriteOutline(o) PROVE \E S \in Specification : Write(S)
  BY <1>1, <1>2, OutlineType, DocumentAssumption DEF WriteOutline
<1>3. ASSUME NEW f \in Files, Paste(f) PROVE \E S \in Specification : Write(S)
  BY <1>1, <1>3, AppendType, ReplaceType DEF Paste
<1>4. ASSUME NEW k \in DOMAIN spec.sources, NEW u \in spec.sources[k].units,
             Verify(k, u) \/ \E text \in Text : Reword(k, u, text)
      PROVE  \E S \in Specification : Write(S)
  <2>1. spec.sources[k] \in Source
    BY <1>1, SpecificationParts
  <2>2. \A V \in SUBSET Unit : [spec EXCEPT !.sources[k].units = V] \in Specification
    BY <1>1, <2>1, UnitsAreReplaced, ReplaceType DEF Source
  <2>3. u \in Unit /\ spec.sources[k].units \subseteq Unit
    BY <2>1 DEF Source
  <2>4. [u EXCEPT !.verified = TRUE] \in Unit
        /\ \A text \in Text : [u EXCEPT !.text = text] \in Unit
    BY <2>3 DEF Unit
  <2> QED BY <1>4, <2>2, <2>3, <2>4 DEF Verify, Reword
<1>5. ASSUME NEW k \in DOMAIN spec.sources, NEW place \in Files \cup {Absent, Unread},
             Relocate(k, place)
      PROVE  \E S \in Specification : Write(S)
  <2>1. [spec.sources[k] EXCEPT !.local = place] \in Source
    BY <1>1, SpecificationParts DEF Source
  <2>2. [spec EXCEPT !.sources[k].local = place] \in Specification
    BY <1>1, <2>1, LocalIsReplaced, ReplaceType
  <2> QED BY <1>5, <2>2 DEF Relocate
<1> QED BY <1>2, <1>3, <1>4, <1>5 DEF Author

LEMMA AuthorType ==
    ASSUME TypeOK, Author
    PROVE  TypeOK'
<1>1. PICK S \in Specification : Write(S)
  BY AuthorWrites
<1> QED BY <1>1, DocumentAssumption DEF TypeOK, IngestTypeOK, Write, ingestVars, Current

LEMMA ChangeType ==
    ASSUME TypeOK, NEW f \in Files, NEW content \in Contents \cup {Absent}, Change(f, content)
    PROVE  TypeOK'
<1>1. IngestTypeOK'
  <2>1. ipc # "idle" => ingest' \in Ingest /\ ingest'.sha = ingest.sha
    BY DEF Change, EditSource, TypeOK, IngestTypeOK, Ingest
  <2>2. ipc = "idle" => ingest' = ingest
    BY DEF Change, EditSource
  <2>3. source' \in [Files -> Contents \cup {Absent}] /\ edits' \in 0..MaxEdits
    BY IngestAssumption DEF Change, EditSource, TypeOK, IngestTypeOK
  <2> QED BY <2>1, <2>2, <2>3 DEF Change, EditSource, TypeOK, IngestTypeOK
<1>2. since' \in [Files -> SUBSET (Contents \cup {Absent})]
  BY DEF Change, TypeOK
<1> QED BY <1>1, <1>2, TypeKept DEF Change

(* A step of a run leaves the source files and objects alone. *)
LEMMA IngestKept ==
    ASSUME IngestTypeOK, UNCHANGED ingestVars
    PROVE  IngestTypeOK'
BY DEF IngestTypeOK, ingestVars

LEMMA RunType ==
    ASSUME TypeOK, Run
    PROVE  TypeOK'
<1>0. /\ spec \in Specification /\ IngestTypeOK
      /\ \A f \in Files : source[f] \in Contents \cup {Absent}
  BY DEF TypeOK, IngestTypeOK
<1>1. ASSUME NEW command \in {"validate", "build"}, NEW formats \in SUBSET Format,
             NEW lenient \in BOOLEAN, command = "build" => formats # {},
             Launch(command, formats, lenient)
      PROVE  TypeOK'
  <2>1. job' \in Job /\ job'.seen = << >> /\ job'.spec = spec
        /\ job'.todo = formats /\ job'.command = command
    BY <1>0, <1>1 DEF Launch, Job
  <2>2. since' \in [Files -> SUBSET (Contents \cup {Absent})]
    BY <1>0, <1>1 DEF Launch
  <2>3. Len(spec.sources) \in Nat
    BY <1>0 DEF Specification
  <2>4. IngestTypeOK'
    BY <1>0, <1>1, IngestKept DEF Launch
  <2> QED BY <1>1, <2>1, <2>2, <2>3, <2>4, DocumentAssumption
          DEF Launch, AfterRead, TypeOK, Steps, Ended, Outputting
<1>2. CASE ReadSource
  <2>1. /\ job \in Job /\ job.spec \in Specification
        /\ job.seen \in Seq(Contents \cup {Absent, Unread})
        /\ Len(job.seen) < Len(job.spec.sources)
    BY <1>2 DEF ReadSource, TypeOK, Steps, Ended, Job
  <2>2. job.spec.sources \in Seq(Source)
    BY <2>1, SpecificationParts
  <2> DEFINE next == job.spec.sources[Len(job.seen) + 1]
             seen == Append(job.seen, Found(next))
  <2>3. next \in Source /\ Found(next) \in Contents \cup {Absent, Unread}
    <3>1. next \in Source
      BY <2>1, <2>2
    <3> QED BY <1>0, <3>1 DEF Source, Found
  <2>4. seen \in Seq(Contents \cup {Absent, Unread}) /\ Len(seen) = Len(job.seen) + 1
    BY <2>1, <2>3
  <2>5. job' = [job EXCEPT !.seen = seen] /\ bpc' = AfterRead(job.spec, seen)
    BY <1>2 DEF ReadSource
  <2>6. job' \in Job /\ job'.seen = seen /\ job'.spec = job.spec
        /\ job'.todo = job.todo /\ job'.command = job.command
    BY <2>1, <2>4, <2>5 DEF Job
  <2>7. Len(job.spec.sources) \in Nat /\ Len(job.seen) \in Nat
    BY <2>1, <2>2
  <2>8. IngestTypeOK'
    BY <1>0, <1>2, IngestKept DEF ReadSource
  <2> HIDE DEF seen
  <2> QED BY <1>2, <2>1, <2>4, <2>5, <2>6, <2>7, <2>8
          DEF ReadSource, AfterRead, TypeOK, Steps, Ended, Outputting
<1> USE <1>0, IngestKept
<1>3. CASE OpenReview
  BY <1>3 DEF OpenReview, Rest, TypeOK, Steps, Ended, Part, Outputting
<1>4. CASE WriteReview
  BY <1>4 DEF WriteReview, EndRun, Rest, TypeOK, Steps, Ended, Part, Review, Outputting
<1>5. CASE Refuse
  BY <1>5 DEF Refuse, EndRun, Rest, TypeOK, Steps, Ended, Outputting
<1>6. CASE OpenValidation
  BY <1>6 DEF OpenValidation, Rest, TypeOK, Steps, Ended, Part, Outputting
<1>7. CASE WriteValidation
  <2>1. job.spec \in Specification
    BY <1>7 DEF WriteValidation, TypeOK, Job
  <2> QED BY <1>7, <2>1
          DEF WriteValidation, Rest, TypeOK, Steps, Ended, Part, Validation, Outputting
<1>8. CASE OpenOutput
  BY <1>8 DEF OpenOutput, Current, Rest, TypeOK, Steps, Ended, Part, Outputting
<1>9. CASE WriteOutput
  <2>1. Rendered(Current, job.spec) \in Document
    BY <1>9, RenderedType DEF WriteOutput, Current, Format, TypeOK, Job
  <2> QED BY <1>9, <2>1 DEF WriteOutput, Current, Rest, TypeOK, Steps, Ended, Part, Outputting
<1>10. CASE CheckOutput
  <2>1. job \in Job /\ job.todo \in SUBSET Format /\ job.todo # {} /\ job.command = "build"
    BY <1>10 DEF CheckOutput, TypeOK, Job, Outputting
  <2>2. out[Current] \in Document
    BY <1>10 DEF CheckOutput, TypeOK
  <2>3. job'.broken \in BOOLEAN
    BY <1>10, <2>1 DEF CheckOutput, Job
  <2>4. job' = [job EXCEPT !.todo = job'.todo, !.outputs = job'.outputs, !.broken = job'.broken]
        /\ job'.todo = job.todo \ {Current} /\ job'.outputs = job.outputs \cup {out[Current]}
    BY <1>10, <2>1 DEF CheckOutput, Job
  <2>5. job' \in Job /\ job'.command = "build" /\ job'.spec = job.spec /\ job'.seen = job.seen
    BY <2>1, <2>2, <2>3, <2>4 DEF Job
  <2>6. bpc' = "open" => job'.todo # {}
    BY <1>10, <2>1, <2>4 DEF CheckOutput
  <2>7. bpc' \in {"open", "openReport"}
    BY <1>10 DEF CheckOutput
  <2> QED BY <1>10, <2>5, <2>6, <2>7 DEF CheckOutput, Rest, TypeOK, Steps, Ended, Outputting
<1>11. CASE OpenReport
  BY <1>11 DEF OpenReport, Rest, TypeOK, Steps, Ended, Part, Outputting
<1>12. CASE WriteReport
  <2>1. [valid |-> ~job.broken, outputs |-> job.outputs] \in BuildReport
    BY <1>12 DEF WriteReport, TypeOK, Job, BuildReport
  <2> QED BY <1>12, <2>1 DEF WriteReport, EndRun, Rest, TypeOK, Steps, Ended, Part, Outputting
<1>13. CASE StopRun
  BY <1>13 DEF StopRun, EndRun, Rest, TypeOK, Steps, Ended, Outputting
<1> QED BY <1>1, <1>2, <1>3, <1>4, <1>5, <1>6, <1>7, <1>8, <1>9, <1>10, <1>11, <1>12, <1>13,
           DocumentAssumption DEF Run

LEMMA NextType ==
    ASSUME TypeOK, [Next]_vars
    PROVE  TypeOK'
<1>1. CASE IngestStep /\ UNCHANGED <<documentVars, since>>
  BY <1>1, IngestType, TypeKept DEF TypeOK
<1>2. CASE \E f \in Files, content \in Contents \cup {Absent} : Change(f, content)
  BY <1>2, ChangeType
<1>3. CASE Author
  BY <1>3, AuthorType
<1>4. CASE Run
  BY <1>4, RunType
<1>5. CASE UNCHANGED vars
  BY <1>5, IngestKept DEF vars, TypeOK, Current
<1> QED BY <1>1, <1>2, <1>3, <1>4, <1>5 DEF Next

(* Every variable keeps its type, and each step of a run finds what it     *)
(* needs read, made or left to make.                                       *)
THEOREM DocumentTypeCorrect == Spec => []TypeOK
<1>1. Init => TypeOK
  BY InitType
<1>2. TypeOK /\ [Next]_vars => TypeOK'
  BY NextType
<1> QED BY <1>1, <1>2, PTL DEF Spec

-----------------------------------------------------------------------------
(* The digest of a unit is that of the text ingest.py read.                *)

FromSource(u, s, M) ==
    \/ /\ u.id[1] = s.file
       /\ u.id[2] \in DOMAIN TextOf[s.sha]
       /\ u.sha = TextOf[s.sha][u.id[2]]
    \/ <<u.id, u.sha, s.sha>> \in M

AllFrom(s, M) == \A u \in s.units : FromSource(u, s, M)

Genuine(S, M) == \A k \in DOMAIN S.sources : AllFrom(S.sources[k], M)

(* What an ingest holds is one content, unless the source has changed.     *)
Reading ==
    /\ ipc = "digest" /\ ~ingest.edited =>
           source[ingest.file] \in Contents /\ ingest.text = TextOf[source[ingest.file]]
    /\ ipc \in {"open", "write"} /\ ~ingest.edited => ingest.text = TextOf[ingest.sha]

Objects == \A f \in Files : object[f] \notin {Absent, Partial} => AllFrom(object[f], mixed)

Provenance ==
    /\ Reading /\ Objects
    /\ Genuine(spec, mixed)
    /\ bpc # "idle" => Genuine(job.spec, mixed)
    /\ \A format \in Format : Complete(format) => Genuine(out[format].of, mixed)

LEMMA MoreMixed ==
    ASSUME NEW M, NEW N, M \subseteq N
    PROVE  /\ \A s : AllFrom(s, M) => AllFrom(s, N)
           /\ \A S : Genuine(S, M) => Genuine(S, N)
BY DEF Genuine, AllFrom, FromSource

LEMMA InitProvenance == Init => Provenance
BY DEF Init, IngestInit, Provenance, Reading, Objects, Genuine, Complete, Format, Part

LEMMA IngestProvenance ==
    ASSUME TypeOK, Provenance, IngestStep, UNCHANGED <<documentVars, since>>
    PROVE  Provenance'
<1>1. mixed \subseteq mixed'
  BY DEF IngestStep, LaunchIngest, Extract, Digest, OpenObject, WriteObject, StopIngest
<1>2. /\ Genuine(spec, mixed)'
      /\ (bpc # "idle" => Genuine(job.spec, mixed))'
      /\ (\A format \in Format : Complete(format) => Genuine(out[format].of, mixed))'
  BY <1>1, MoreMixed DEF Provenance, documentVars, Complete
<1>3. Reading' /\ Objects'
  <2> USE DEF Provenance, Reading, Objects, TypeOK, IngestTypeOK
  <2>1. ASSUME NEW f \in Files, NEW mode \in Mode, NEW verified \in BOOLEAN,
               LaunchIngest(f, mode, verified)
        PROVE  Reading' /\ Objects'
    BY <2>1 DEF LaunchIngest
  <2>2. CASE Extract
    BY <2>2 DEF Extract, Ingest
  <2>3. CASE Digest
    BY <2>3 DEF Digest, Ingest
  <2>4. CASE OpenObject
    BY <2>4 DEF OpenObject, Ingest
  <2>5. CASE WriteObject
    <3> DEFINE new == [file |-> ingest.file, local |-> ingest.file, sha |-> ingest.sha,
                       mode |-> ingest.mode,
                       units |-> {UnitOf(i) : i \in DOMAIN ingest.text}]
    <3>1. ingest \in Ingest /\ ingest.sha \in Contents
      BY <2>5 DEF WriteObject
    <3>2. AllFrom(new, mixed')
      <4>1. CASE ingest.edited
        BY <2>5, <4>1 DEF WriteObject, AllFrom, FromSource, UnitOf
      <4>2. CASE ~ingest.edited
        <5>1. ingest.text = TextOf[ingest.sha]
          BY <2>5, <4>2 DEF WriteObject
        <5> QED BY <5>1 DEF AllFrom, FromSource, UnitOf
      <4> QED BY <3>1, <4>1, <4>2 DEF Ingest
    <3>3. object' = [object EXCEPT ![ingest.file] = new] /\ ingest.file \in Files
      BY <2>5, <3>1 DEF WriteObject, Ingest
    <3> HIDE DEF new
    <3>4. Objects'
      BY <1>1, <3>2, <3>3, MoreMixed
    <3> QED BY <2>5, <3>4 DEF WriteObject, EndIngest
  <2>6. CASE StopIngest
    BY <2>6 DEF StopIngest, EndIngest
  <2> QED BY <2>1, <2>2, <2>3, <2>4, <2>5, <2>6 DEF IngestStep
<1> QED BY <1>2, <1>3 DEF Provenance

LEMMA ChangeProvenance ==
    ASSUME TypeOK, Provenance, NEW f \in Files, NEW content \in Contents \cup {Absent},
           Change(f, content)
    PROVE  Provenance'
<1>1. Reading'
  <2>1. CASE ipc = "digest"
    BY <2>1 DEF Provenance, Reading, Change, EditSource, TypeOK, IngestTypeOK, Ingest
  <2>2. CASE ipc # "digest"
    BY <2>2 DEF Provenance, Reading, Change, EditSource
  <2> QED BY <2>1, <2>2
<1> QED BY <1>1 DEF Provenance, Objects, Change, EditSource, documentVars, Complete

(* Verifying and rewording keep the identifier and digest of every unit,   *)
(* and another local_path keeps the units.                                 *)
LEMMA AuthorProvenance ==
    ASSUME TypeOK, Provenance, Author
    PROVE  Provenance'
<1>1. /\ spec \in Specification /\ Genuine(spec, mixed) /\ Objects
      /\ \A f \in Files : object[f] \in Source \cup {Absent, Partial}
  BY DEF TypeOK, IngestTypeOK, Provenance
<1>2. ASSUME NEW S, Write(S), Genuine(S, mixed) PROVE Provenance'
  BY <1>2 DEF Write, ingestVars, Provenance, Reading, Objects, Complete
<1>3. ASSUME NEW o \in Outlines, WriteOutline(o) PROVE Provenance'
  <2>1. [spec EXCEPT !.outline = o].sources = spec.sources
    BY <1>1 DEF Specification
  <2>2. Genuine([spec EXCEPT !.outline = o], mixed)
    BY <1>1, <2>1 DEF Genuine
  <2> QED BY <1>2, <1>3, <2>2 DEF WriteOutline
<1>4. ASSUME NEW f \in Files, Paste(f) PROVE Provenance'
  <2>1. object[f] \in Source /\ AllFrom(object[f], mixed)
    BY <1>1, <1>4 DEF Paste, Objects
  <2>2. Genuine([spec EXCEPT !.sources = Append(@, object[f])], mixed)
    BY <1>1, <2>1, AppendType DEF Genuine
  <2>3. \A k \in DOMAIN spec.sources : Genuine([spec EXCEPT !.sources[k] = object[f]], mixed)
    BY <1>1, <2>1, ReplaceType DEF Genuine
  <2> QED BY <1>2, <1>4, <2>2, <2>3 DEF Paste
<1>5. ASSUME NEW k \in DOMAIN spec.sources, NEW u \in spec.sources[k].units,
             Verify(k, u) \/ \E text \in Text : Reword(k, u, text)
      PROVE  Provenance'
  <2>1. spec.sources[k] \in Source /\ u \in Unit
    BY <1>1, SpecificationParts DEF Source
  <2>2. PICK v \in Unit :
            /\ v.id = u.id /\ v.sha = u.sha
            /\ Write([spec EXCEPT !.sources[k].units = (@ \ {u}) \cup {v}])
    BY <1>5, <2>1 DEF Verify, Reword, Unit
  <2> DEFINE V == (spec.sources[k].units \ {u}) \cup {v}
             s == [spec.sources[k] EXCEPT !.units = V]
  <2>3. [spec EXCEPT !.sources[k].units = V] = [spec EXCEPT !.sources[k] = s]
    BY UnitsAreReplaced
  <2>4. s \in Source /\ s.units = V /\ s.file = spec.sources[k].file /\ s.sha = spec.sources[k].sha
    BY <2>1 DEF Source
  <2>5. AllFrom(spec.sources[k], mixed)
    BY <1>1 DEF Genuine
  <2>6. AllFrom(s, mixed)
    BY <2>2, <2>4, <2>5 DEF AllFrom, FromSource
  <2>7. Genuine([spec EXCEPT !.sources[k] = s], mixed)
    BY <1>1, <2>4, <2>6, ReplaceType DEF Genuine
  <2>8. Write([spec EXCEPT !.sources[k] = s])
    BY <2>2, <2>3
  <2> QED BY <1>2, <2>7, <2>8
<1>6. ASSUME NEW k \in DOMAIN spec.sources, NEW place \in Files \cup {Absent, Unread},
             Relocate(k, place)
      PROVE  Provenance'
  <2> DEFINE s == [spec.sources[k] EXCEPT !.local = place]
  <2>1. spec.sources[k] \in Source
    BY <1>1, SpecificationParts
  <2>2. s \in Source /\ s.units = spec.sources[k].units /\ s.file = spec.sources[k].file
        /\ s.sha = spec.sources[k].sha
    BY <2>1 DEF Source
  <2>3. AllFrom(s, mixed)
    BY <1>1, <2>2 DEF Genuine, AllFrom, FromSource
  <2>4. Genuine([spec EXCEPT !.sources[k] = s], mixed)
    BY <1>1, <2>2, <2>3, ReplaceType DEF Genuine
  <2>5. Write([spec EXCEPT !.sources[k] = s])
    BY <1>1, <1>6, LocalIsReplaced DEF Relocate
  <2> QED BY <1>2, <2>4, <2>5
<1> QED BY <1>3, <1>4, <1>5, <1>6 DEF Author

LEMMA RunProvenance ==
    ASSUME TypeOK, Provenance, Run
    PROVE  Provenance'
<1>1. UNCHANGED <<ingestVars, spec>>
  BY DEF Run, Launch, ReadSource, Rest, OpenReview, WriteReview, Refuse, OpenValidation,
         WriteValidation, OpenOutput, WriteOutput, CheckOutput, OpenReport, WriteReport, StopRun
<1>2. Reading' /\ Objects' /\ Genuine(spec, mixed)'
  BY <1>1 DEF ingestVars, Provenance, Reading, Objects
<1>3. bpc' # "idle" => job'.spec = (IF bpc \in Ended THEN spec ELSE job.spec)
  <2>1. bpc # "idle" => job \in Job
    BY DEF TypeOK
  <2>2. CASE ReadSource \/ CheckOutput
    BY <2>1, <2>2 DEF ReadSource, CheckOutput, Ended, Job
  <2>3. CASE \/ OpenReview \/ OpenValidation \/ WriteValidation \/ OpenOutput \/ WriteOutput
             \/ OpenReport \/ WriteReport
    BY <2>3 DEF OpenReview, OpenValidation, WriteValidation, OpenOutput, WriteOutput,
                OpenReport, WriteReport, EndRun, Ended
  <2>4. CASE WriteReview \/ Refuse \/ StopRun
    BY <2>4 DEF WriteReview, Refuse, StopRun, EndRun
  <2>5. ASSUME NEW command, NEW formats, NEW lenient, Launch(command, formats, lenient)
        PROVE  bpc' # "idle" => job'.spec = (IF bpc \in Ended THEN spec ELSE job.spec)
    BY <2>5 DEF Launch
  <2> QED BY <2>2, <2>3, <2>4, <2>5 DEF Run
<1>4. (bpc # "idle" => Genuine(job.spec, mixed))'
  BY <1>1, <1>3 DEF ingestVars, Provenance, Ended
<1>5. (\A format \in Format : Complete(format) => Genuine(out[format].of, mixed))'
  <2>1. CASE WriteOutput
    <3>1. job.spec \in Specification /\ Genuine(job.spec, mixed) /\ Current \in Format
      BY <2>1 DEF WriteOutput, TypeOK, Job, Provenance, Current, Format
    <3>2. out' = [out EXCEPT ![Current] = Rendered(Current, job.spec)]
      BY <2>1 DEF WriteOutput
    <3>3. Rendered(Current, job.spec).of = job.spec
      BY <3>1, RenderedType
    <3> QED BY <1>1, <3>1, <3>2, <3>3 DEF ingestVars, Provenance, Complete, TypeOK, Format, Part
  <2>2. CASE ~WriteOutput
    <3>1. \A format \in Format : out'[format] = out[format] \/ out'[format] = Partial
      BY <2>2 DEF Run, Launch, ReadSource, OpenReview, WriteReview, Refuse, OpenValidation,
           WriteValidation, OpenOutput, CheckOutput, OpenReport, WriteReport, StopRun,
           TypeOK, Format, Part
    <3> QED BY <1>1, <3>1 DEF ingestVars, Provenance, Complete
  <2> QED BY <2>1, <2>2
<1> QED BY <1>2, <1>4, <1>5 DEF Provenance

LEMMA NextProvenance ==
    ASSUME TypeOK, Provenance, [Next]_vars
    PROVE  Provenance'
<1>1. CASE UNCHANGED vars
  BY <1>1 DEF vars, ingestVars, Provenance, Reading, Objects, Complete
<1> QED BY <1>1, IngestProvenance, ChangeProvenance, AuthorProvenance, RunProvenance DEF Next

-----------------------------------------------------------------------------
(* A run on its way.                                                       *)

(* The steps of a build after its specification was accepted. *)
Beyond == {"writeValidation", "open", "write", "check", "openReport", "writeReport", "passed"}

(* What was found at a place was there after the run began. *)
WasAt(place, found) == IF place \in Files THEN found \in since[place] ELSE found = place

(* Each source was looked at after the run began. *)
Seen ==
    bpc # "idle" =>
        /\ \A f \in Files : source[f] \in since[f]
        /\ Len(job.seen) <= Len(job.spec.sources)
        /\ bpc # "read" => Len(job.seen) = Len(job.spec.sources)
        /\ \A k \in 1..Len(job.seen) : WasAt(job.spec.sources[k].local, job.seen[k])

Fresh == bpc \in {"read", "gate"} => job.todo = job.formats /\ job.outputs = {} /\ ~job.broken

Accepted ==
    bpc \in Beyond =>
        /\ ~Errors(job.spec, Schema, job.seen)
        /\ SourceMissing(job.seen) => job.lenient

(* The outputs made so far are those of the formats no longer to be made. *)
Made ==
    bpc \in Beyond =>
        /\ job.todo \subseteq job.formats
        /\ job.outputs = {out[f] : f \in job.formats \ job.todo}
        /\ \A f \in job.formats \ job.todo : out[f] = Rendered(f, job.spec)
        /\ ~job.broken
        /\ bpc = "check" => out[Current] = Rendered(Current, job.spec)

Together ==
    /\ bpc \in Beyond \ {"writeValidation"} =>
           out.validation = [of |-> job.spec, valid |-> TRUE]
    /\ bpc \in {"openReport", "writeReport", "passed"} => job.todo = {}
    /\ bpc = "passed" => out.report = [valid |-> TRUE, outputs |-> job.outputs]

(* Every document on disk was rendered from an accepted specification. *)
Outs ==
    \A format \in Format : Complete(format) =>
        /\ ~SpecErrors(out[format].of, Schema)
        /\ out[format] = Rendered(format, out[format].of)

Building == Seen /\ Fresh /\ Accepted /\ Made /\ Together /\ Outs

LEMMA InitBuilding == Init => Building
BY DEF Init, Building, Seen, Fresh, Accepted, Made, Together, Outs, Beyond, Complete, Part, Format

(* Only since grows beside a run. *)
LEMMA BuildingKept ==
    ASSUME Building, UNCHANGED <<out, bpc, job>>, \A f \in Files : since[f] \subseteq since'[f],
           TypeOK, bpc # "idle" => \A f \in Files : source'[f] \in since'[f]
    PROVE  Building'
<1>1. Seen'
  <2>1. ASSUME bpc # "idle", NEW k \in 1..Len(job.seen)
        PROVE  WasAt(job.spec.sources[k].local, job.seen[k])'
    <3>1. WasAt(job.spec.sources[k].local, job.seen[k])
      BY <2>1 DEF Building, Seen
    <3> QED BY <3>1 DEF WasAt
  <2> QED BY <2>1 DEF Building, Seen
<1> QED BY <1>1 DEF Building, Fresh, Accepted, Made, Together, Outs, Complete, Current

(* A run that ends leaves no claim but on the documents. *)
LEMMA BuildingEnds ==
    ASSUME bpc' = "idle", Outs'
    PROVE  Building'
BY DEF Building, Seen, Fresh, Accepted, Made, Together, Beyond

LEMMA RunBuilding ==
    ASSUME TypeOK, Building, Run
    PROVE  Building'
<1>0. /\ spec \in Specification
      /\ bpc # "idle" => /\ job \in Job /\ job.spec \in Specification
                         /\ job.formats \subseteq Format /\ job.todo \subseteq Format
                         /\ job.seen \in Seq(Contents \cup {Absent, Unread})
      /\ out = [part \in Part |-> out[part]]
  BY DEF TypeOK, Job
<1> USE DEF Building
<1>1. ASSUME NEW command \in {"validate", "build"}, NEW formats \in SUBSET Format,
             NEW lenient \in BOOLEAN, Launch(command, formats, lenient)
      PROVE  Building'
  <2>1. job'.seen = << >> /\ job'.spec = spec /\ job'.todo = formats /\ job'.formats = formats
        /\ job'.outputs = {} /\ ~job'.broken
    BY <1>1 DEF Launch
  <2>2. bpc' \in {"read", "gate"} /\ (bpc' # "read" => Len(spec.sources) <= 0)
    BY <1>0, <1>1 DEF Launch, AfterRead, Specification
  <2>3. Len(spec.sources) \in Nat
    BY <1>0 DEF Specification
  <2>4. Seen' /\ Fresh'
    BY <1>1, <2>1, <2>2, <2>3 DEF Seen, Fresh, Launch, ingestVars
  <2> QED BY <1>1, <2>2, <2>4 DEF Launch, Accepted, Made, Together, Outs, Beyond, Complete
<1>2. CASE ReadSource
  <2> DEFINE next == job.spec.sources[Len(job.seen) + 1]
             seen == Append(job.seen, Found(next))
  <2>1. job' = [job EXCEPT !.seen = seen] /\ bpc' = AfterRead(job.spec, seen)
        /\ bpc = "read" /\ UNCHANGED <<since, out>>
    BY <1>2 DEF ReadSource
  <2>2. Len(job.seen) < Len(job.spec.sources) /\ job.spec.sources \in Seq(Source)
        /\ job.seen \in Seq(Contents \cup {Absent, Unread})
    BY <1>0, <2>1 DEF TypeOK, Specification
  <2>3. next \in Source /\ next.local \in Files \cup {Absent, Unread}
    <3>1. Len(job.seen) + 1 \in 1..Len(job.spec.sources)
      BY <2>2
    <3>2. next \in Source
      BY <2>2, <3>1, ElementOfSeq
    <3> QED BY <3>2 DEF Source
  <2>4. WasAt(next.local, Found(next)) /\ Found(next) \in Contents \cup {Absent, Unread}
    BY <2>1, <2>3 DEF Seen, WasAt, Found, TypeOK, IngestTypeOK
  <2>5. seen \in Seq(Contents \cup {Absent, Unread}) /\ Len(seen) = Len(job.seen) + 1
        /\ \A k \in 1..Len(seen) :
               seen[k] = IF k <= Len(job.seen) THEN job.seen[k] ELSE Found(next)
    <3> DEFINE found == Found(next)
               held == job.seen
               all == Contents \cup {Absent, Unread}
    <3>1. held \in Seq(all) /\ found \in all /\ seen = Append(held, found)
      BY <2>2, <2>4
    <3> HIDE DEF found, held, all, seen
    <3>2. /\ seen \in Seq(all) /\ Len(seen) = Len(held) + 1
          /\ \A k \in 1..Len(seen) : seen[k] = IF k <= Len(held) THEN held[k] ELSE found
      BY <3>1, Appended
    <3> QED BY <3>2 DEF found, held, all
  <2>6. job'.seen = seen /\ job'.spec = job.spec /\ job'.todo = job.todo
        /\ job'.formats = job.formats /\ job'.outputs = job.outputs /\ job'.broken = job.broken
    BY <1>0, <2>1 DEF Job
  <2>7. Seen'
    <3>1. \A k \in 1..Len(seen) : WasAt(job.spec.sources[k].local, seen[k])
      <4>1. ASSUME NEW k \in 1..Len(job.seen)
            PROVE  WasAt(job.spec.sources[k].local, seen[k])
        <5>1. k \in 1..Len(seen) /\ k <= Len(job.seen)
          BY <2>2, <2>5
        <5>2. WasAt(job.spec.sources[k].local, job.seen[k])
          BY <2>1 DEF Seen
        <5> HIDE DEF seen
        <5> QED BY <2>5, <5>1, <5>2
      <4>2. seen[Len(job.seen) + 1] = Found(next)
        <5>1. Len(job.seen) \in Nat /\ Len(job.seen) + 1 \in 1..Len(seen)
          BY <2>2, <2>5
        <5> HIDE DEF seen, next
        <5> QED BY <2>5, <5>1
      <4>3. WasAt(job.spec.sources[Len(job.seen) + 1].local, seen[Len(job.seen) + 1])
        BY <2>4, <4>2
      <4> HIDE DEF seen, next
      <4> QED BY <2>2, <2>5, <4>1, <4>3
    <3>2. Len(seen) <= Len(job.spec.sources) /\ (bpc' # "read" => Len(seen) = Len(job.spec.sources))
      BY <1>0, <2>1, <2>2, <2>5 DEF AfterRead
    <3> HIDE DEF seen
    <3>3. (\A k \in 1..Len(job.seen) : WasAt(job.spec.sources[k].local, job.seen[k]))'
      BY <2>1, <2>6, <3>1 DEF WasAt
    <3>4. UNCHANGED source /\ bpc' # "idle" /\ bpc # "idle"
      BY <1>2, <2>1 DEF ReadSource, ingestVars, AfterRead
    <3> QED BY <2>1, <2>6, <3>2, <3>3, <3>4 DEF Seen
  <2> HIDE DEF seen
  <2>8. bpc' \in {"read", "gate"}
    BY <2>1 DEF AfterRead
  <2> QED BY <2>1, <2>6, <2>7, <2>8 DEF Fresh, Accepted, Made, Together, Outs, Beyond, Complete
<1>3. CASE OpenReview
  <2>1. Seen'
    BY <1>3 DEF OpenReview, Rest, ingestVars, Seen, WasAt
  <2> QED BY <1>0, <1>3, <2>1 DEF OpenReview, Fresh, Accepted, Made, Together, Outs, Beyond,
                                  Complete, Format, Part
<1>4. CASE WriteReview
  <2>1. Outs'
    BY <1>0, <1>4 DEF WriteReview, Outs, Complete, Format, Part
  <2> QED BY <1>4, <2>1, BuildingEnds DEF WriteReview, EndRun
<1>5. CASE Refuse \/ StopRun
  BY <1>5, BuildingEnds DEF Refuse, StopRun, EndRun, Outs, Complete
<1>6. CASE OpenValidation
  <2>1. ~Errors(job.spec, Schema, job.seen) /\ (SourceMissing(job.seen) => job.lenient)
    BY <1>6 DEF OpenValidation, Refused, Warned, Warnings
  <2>2. job.formats \ job.todo = {} /\ job.outputs = {} /\ ~job.broken /\ job.todo = job.formats
    BY <1>6 DEF OpenValidation, Fresh
  <2> QED BY <1>0, <1>6, <2>1, <2>2
          DEF OpenValidation, Rest, ingestVars, Seen, WasAt, Fresh, Accepted, Made, Together, Outs,
              Beyond, Complete, Format, Part
<1>7. CASE WriteValidation
  <2>1. Seen'
    BY <1>7 DEF WriteValidation, Rest, ingestVars, Seen, WasAt
  <2>2. /\ out' = [out EXCEPT !.validation = [of |-> job.spec, valid |-> TRUE]]
        /\ bpc = "writeValidation" /\ bpc' = "open" /\ job' = job
    BY <1>7 DEF WriteValidation
  <2>3. out'.validation = [of |-> job.spec, valid |-> TRUE]
        /\ \A part \in Format : out'[part] = out[part]
    BY <1>0, <2>2 DEF Format, Part
  <2>4. Made'
    <3>1. \A f \in job.formats \ job.todo : out'[f] = out[f]
      BY <1>0, <2>2, <2>3
    <3>2. {out'[f] : f \in job.formats \ job.todo} = {out[f] : f \in job.formats \ job.todo}
      BY <3>1
    <3> QED BY <2>2, <3>1, <3>2 DEF Made, Beyond
  <2>5. Outs'
    BY <2>3 DEF Outs, Complete
  <2> QED BY <2>1, <2>2, <2>3, <2>4, <2>5 DEF Fresh, Accepted, Together, Beyond
<1>8. CASE OpenOutput
  <2>1. Current \in job.todo /\ Current \in Format
    BY <1>0, <1>8 DEF OpenOutput, Current, Format, TypeOK, Outputting
  <2>2. /\ out' = [out EXCEPT ![Current] = Partial] /\ bpc = "open" /\ bpc' = "write"
        /\ UNCHANGED <<job, since, source>>
    BY <1>8 DEF OpenOutput, Rest, ingestVars
  <2>3. \A part \in Part \ {Current} : out'[part] = out[part]
    BY <1>0, <2>2
  <2>4. Made'
    <3>1. \A f \in job.formats \ job.todo : out'[f] = out[f]
      BY <1>0, <2>1, <2>2, <2>3 DEF Format, Part
    <3>2. {out'[f] : f \in job.formats \ job.todo} = {out[f] : f \in job.formats \ job.todo}
      BY <3>1
    <3> QED BY <2>2, <3>1, <3>2 DEF Made, Beyond
  <2>5. Outs'
    BY <1>0, <2>1, <2>2, <2>3 DEF Outs, Complete, Format, Part
  <2> QED BY <2>1, <2>2, <2>3, <2>4, <2>5
          DEF Seen, WasAt, Fresh, Accepted, Together, Beyond, Format, Part
<1>9. CASE WriteOutput
  <2>1. Current \in job.todo /\ Current \in Format
    BY <1>0, <1>9 DEF WriteOutput, Current, Format, TypeOK, Outputting
  <2> DEFINE document == Rendered(Current, job.spec)
  <2>2. out' = [out EXCEPT ![Current] = document] /\ bpc' = "check" /\ bpc = "write"
        /\ UNCHANGED <<job, since, source>>
    BY <1>9 DEF WriteOutput, Rest, ingestVars
  <2>3. document.of = job.spec /\ ~SpecErrors(job.spec, Schema)
    BY <1>0, <2>1, <2>2, RenderedType DEF Accepted, Beyond, Errors
  <2>4. Current' = Current
    BY <2>2 DEF Current
  <2>5. Outs'
    BY <1>0, <2>1, <2>2, <2>3 DEF Outs, Complete, Format, Part
  <2>6. Made'
    <3>1. \A f \in job.formats \ job.todo : out'[f] = out[f]
      BY <1>0, <2>1, <2>2 DEF Format, Part
    <3>2. out'[Current] = document
      BY <1>0, <2>1, <2>2 DEF Format, Part
    <3> HIDE DEF document
    <3>3. {out'[f] : f \in job.formats \ job.todo} = {out[f] : f \in job.formats \ job.todo}
      BY <3>1
    <3> QED BY <2>2, <2>4, <3>1, <3>2, <3>3 DEF Made, Beyond, document
  <2> QED BY <1>0, <2>1, <2>2, <2>5, <2>6
          DEF Seen, WasAt, Fresh, Accepted, Together, Beyond, Format, Part
<1>10. CASE CheckOutput
  <2>1. Current \in job.todo /\ Current \in Format
    BY <1>0, <1>10 DEF CheckOutput, Current, Format, TypeOK, Outputting
  <2>2. out[Current] = Rendered(Current, job.spec) /\ ~SpecErrors(job.spec, Schema) /\ ~job.broken
    BY <1>10 DEF CheckOutput, Made, Accepted, Errors, Beyond
  <2>3. LinkErrors(out[Current]) = {}
    BY <1>0, <1>10, <2>1, <2>2, AcceptedLinksResolve DEF CheckOutput
  <2>4. /\ job'.todo = job.todo \ {Current} /\ job'.outputs = job.outputs \cup {out[Current]}
        /\ job'.spec = job.spec /\ job'.seen = job.seen /\ job'.formats = job.formats
        /\ job'.lenient = job.lenient
    BY <1>0, <1>10 DEF CheckOutput, Job
  <2>5. ~job'.broken
    BY <1>0, <1>10, <2>2, <2>3 DEF CheckOutput, Job
  <2>6. UNCHANGED <<out, since, source>> /\ bpc = "check" /\ bpc' \in {"open", "openReport"}
        /\ (bpc' = "openReport" => job'.todo = {})
    BY <1>10, <2>4 DEF CheckOutput, Rest, ingestVars
  <2>7. Made'
    <3>1. job.formats \ job'.todo = (job.formats \ job.todo) \cup {Current}
      BY <2>1, <2>4, <2>6 DEF Made, Beyond
    <3> QED BY <2>1, <2>2, <2>4, <2>5, <2>6, <3>1 DEF Made, Beyond
  <2> QED BY <2>4, <2>6, <2>7 DEF Seen, WasAt, Fresh, Accepted, Together, Outs, Beyond, Complete
<1>11. CASE OpenReport
  <2>1. Seen'
    BY <1>11 DEF OpenReport, Rest, ingestVars, Seen, WasAt
  <2> QED BY <1>0, <1>11, <2>1 DEF OpenReport, Fresh, Accepted, Made, Together, Outs, Beyond,
                                   Complete, Format, Part
<1>12. CASE WriteReport
  <2>1. ~job.broken
    BY <1>12 DEF WriteReport, Made, Beyond
  <2>2. /\ out' = [out EXCEPT !.report = [valid |-> TRUE, outputs |-> job.outputs]]
        /\ bpc = "writeReport" /\ bpc' = "passed" /\ UNCHANGED <<job, since, source>>
    BY <1>12, <2>1 DEF WriteReport, Rest, ingestVars
  <2>3. \A part \in Part \ {"report"} : out'[part] = out[part]
    BY <1>0, <2>2
  <2>4. out'.report = [valid |-> TRUE, outputs |-> job.outputs]
    BY <1>0, <2>2 DEF Part
  <2>5. Made'
    <3>1. \A f \in job.formats : out'[f] = out[f]
      BY <1>0, <2>2, <2>3 DEF Format, Part
    <3>2. {out'[f] : f \in job.formats \ job.todo} = {out[f] : f \in job.formats \ job.todo}
      BY <3>1
    <3> QED BY <2>2, <3>1, <3>2 DEF Made, Beyond
  <2>6. Outs'
    BY <2>3 DEF Outs, Complete, Format, Part
  <2> QED BY <2>2, <2>3, <2>4, <2>5, <2>6 DEF Seen, WasAt, Fresh, Accepted, Together, Beyond, Part
<1> QED BY <1>1, <1>2, <1>3, <1>4, <1>5, <1>6, <1>7, <1>8, <1>9, <1>10, <1>11, <1>12,
           DocumentAssumption DEF Run

LEMMA NextBuilding ==
    ASSUME TypeOK, Building, [Next]_vars
    PROVE  Building'
<1>0. bpc # "idle" => \A f \in Files : source[f] \in since[f]
  BY DEF Building, Seen
<1>1. CASE IngestStep /\ UNCHANGED <<documentVars, since>>
  <2>1. source' = source
    BY <1>1 DEF IngestStep, LaunchIngest, Extract, Digest, OpenObject, WriteObject, StopIngest
  <2> QED BY <1>0, <1>1, <2>1, BuildingKept DEF documentVars
<1>2. ASSUME NEW f \in Files, NEW content \in Contents \cup {Absent}, Change(f, content)
      PROVE  Building'
  <2>1. \A g \in Files : since[g] \subseteq since'[g]
    BY <1>2 DEF Change, TypeOK
  <2>2. bpc # "idle" => \A g \in Files : source'[g] \in since'[g]
    BY <1>0, <1>2 DEF Change, EditSource, TypeOK, IngestTypeOK
  <2> QED BY <1>2, <2>1, <2>2, BuildingKept DEF Change, documentVars
<1>3. CASE Author
  <2>1. PICK S \in Specification : Write(S)
    BY <1>3, AuthorWrites
  <2> QED BY <1>0, <2>1, BuildingKept DEF Write, ingestVars
<1>4. CASE Run
  BY <1>4, RunBuilding
<1>5. CASE UNCHANGED vars
  BY <1>0, <1>5, BuildingKept DEF vars, ingestVars
<1> QED BY <1>1, <1>2, <1>3, <1>4, <1>5 DEF Next

(* The inductive invariant. *)
Inv == TypeOK /\ Provenance /\ Building

(* Where units come from and how far a run has got, as every step keeps it. *)
THEOREM DocumentInvariant == Spec => []Inv
<1>1. Init => Inv
  BY InitType, InitProvenance, InitBuilding DEF Inv
<1>2. Inv /\ [Next]_vars => Inv'
  BY NextType, NextProvenance, NextBuilding DEF Inv
<1> QED BY <1>1, <1>2, PTL DEF Spec

-----------------------------------------------------------------------------
(* What the invariant implies. *)

LEMMA OutIsSpecification ==
    ASSUME TypeOK, NEW format \in Format, Complete(format)
    PROVE  out[format].of \in Specification
BY DEF TypeOK, Complete, Format, Document

(* Every document on disk is sound and its links resolve, whatever failed  *)
(* or was killed since: only an accepted specification is ever rendered.   *)
THEOREM OutputsAlwaysSound == Spec => []OutputIsSound
<1>1. Inv => OutputIsSound
  <2> SUFFICES ASSUME Inv, NEW format \in Format, Complete(format)
               PROVE  Sound(out[format].of) /\ LinkErrors(out[format]) = {}
    BY DEF OutputIsSound
  <2>1. /\ out[format].of \in Specification /\ ~SpecErrors(out[format].of, Schema)
        /\ out[format] = Rendered(format, out[format].of)
    BY OutIsSpecification DEF Inv, Building, Outs
  <2> QED BY <2>1, AcceptedIsSound, AcceptedLinksResolve
<1> QED BY <1>1, DocumentInvariant, PTL

(* Every unit a document shows is the text its source had under the digest *)
(* shown for it, but for units of an ingest whose source changed between   *)
(* the two reads.                                                          *)
THEOREM CitedAlwaysInSource == Spec => []CitedIsInSource
<1>1. Inv => CitedIsInSource
  <2> SUFFICES ASSUME Inv, NEW format \in Format, Complete(format),
                      NEW k \in DOMAIN out[format].of.sources,
                      NEW u \in out[format].of.sources[k].units
               PROVE  LET cited == out[format].of.sources[k]
                      IN  \/ /\ u.id[1] = cited.file
                             /\ u.id[2] \in DOMAIN TextOf[cited.sha]
                             /\ u.text = TextOf[cited.sha][u.id[2]]
                          \/ <<u.id, u.text, cited.sha>> \in mixed
    BY DEF CitedIsInSource
  <2>1. ~SpecErrors(out[format].of, Schema) /\ Genuine(out[format].of, mixed)
    BY DEF Inv, Building, Outs, Provenance
  <2>2. u.sha = u.text
    BY <2>1 DEF SpecErrors, UnitDigestMismatch, Units
  <2>3. FromSource(u, out[format].of.sources[k], mixed)
    BY <2>1 DEF Genuine, AllFrom
  <2> QED BY <2>2, <2>3 DEF FromSource
<1> QED BY <1>1, DocumentInvariant, PTL

(* A build that exits 0 leaves documents, a validation report and a build  *)
(* report of one specification, the one whose sources it compared with the *)
(* files their local_path leads to.                                        *)
THEOREM PassedAlwaysCurrent == Spec => []PassedIsCurrent
<1>1. Inv => PassedIsCurrent
  <2> SUFFICES ASSUME Inv, bpc = "passed" PROVE PassedIsCurrent
    BY DEF PassedIsCurrent
  <2>1. /\ job \in Job /\ job.spec \in Specification /\ job.formats \subseteq Format
        /\ job.outputs \subseteq Document
    BY DEF Inv, TypeOK, Job
  <2>2. /\ out.validation = [of |-> job.spec, valid |-> TRUE]
        /\ out.report = [valid |-> TRUE, outputs |-> job.outputs]
        /\ job.outputs = {out[f] : f \in job.formats}
        /\ \A f \in job.formats : out[f] = Rendered(f, job.spec)
        /\ ~Errors(job.spec, Schema, job.seen)
        /\ SourceMissing(job.seen) => job.lenient
    BY DEF Inv, Building, Together, Made, Accepted, Beyond
  <2>3. out.report \in BuildReport
    BY <2>1, <2>2 DEF BuildReport
  <2>4. Complete("report") /\ out.report.valid
    BY <2>2, <2>3, DocumentAssumption DEF Complete
  <2>5. ASSUME NEW f \in job.formats
        PROVE  Complete(f) /\ out[f].format = f /\ out[f].of = job.spec
    <3>1. Rendered(f, job.spec) \in Document /\ Rendered(f, job.spec).of = job.spec
          /\ Rendered(f, job.spec).format = f
      BY <2>1, RenderedType
    <3> QED BY <2>2, <3>1, DocumentAssumption DEF Complete
  <2>6. ASSUME NEW k \in DOMAIN job.spec.sources
        PROVE  LET cited == job.spec.sources[k]
               IN  \/ cited.local \in Files /\ cited.sha \in since[cited.local]
                   \/ cited.local \in Files /\ Absent \in since[cited.local] /\ job.lenient
                   \/ cited.local = Absent /\ job.lenient
                   \/ cited.local = Unread
    <3> DEFINE cited == job.spec.sources[k]
    <3>1. k \in 1..Len(job.spec.sources) /\ cited \in Source
      BY <2>1, SpecificationParts
    <3>2. /\ Len(job.seen) = Len(job.spec.sources)
          /\ job.seen \in Seq(Contents \cup {Absent, Unread})
          /\ \A j \in 1..Len(job.seen) : WasAt(job.spec.sources[j].local, job.seen[j])
      BY <2>1 DEF Inv, Building, Seen, Job
    <3>3. WasAt(cited.local, job.seen[k]) /\ k \in DOMAIN job.seen
          /\ job.seen[k] \in Contents \cup {Absent, Unread}
      BY <3>1, <3>2
    <3>4. job.seen[k] \in Contents => job.seen[k] = cited.sha
      BY <2>2, <3>1 DEF Errors, SourceDigestMismatch
    <3>5. job.seen[k] = Absent => job.lenient
      BY <2>2, <3>3 DEF SourceMissing
    <3>6. CASE cited.local \in Files
      <4>1. since[cited.local] \subseteq Contents \cup {Absent}
        BY <3>6 DEF Inv, TypeOK
      <4>2. job.seen[k] \in since[cited.local] /\ job.seen[k] # Unread
        BY <3>3, <3>6, <4>1, SpecAssumption DEF WasAt
      <4> QED BY <3>3, <3>4, <3>5, <3>6, <4>2
    <3>7. CASE cited.local \notin Files
      <4>1. cited.local \in {Absent, Unread} /\ job.seen[k] = cited.local
        BY <3>1, <3>3, <3>7 DEF Source, WasAt
      <4> QED BY <3>5, <4>1
    <3> QED BY <3>6, <3>7
  <2> QED BY <2>2, <2>4, <2>5, <2>6 DEF PassedIsCurrent
<1> QED BY <1>1, DocumentInvariant, PTL
=============================================================================
