----------------------------- MODULE EvidenceIngest -----------------------------
(***************************************************************************)
(* tools/verifiable_document/ingest.py: one process that turns a source    *)
(* file into a source object with addressable units. It reads the file     *)
(* twice, once for its text and once for its digest, and the people who    *)
(* keep the sources may change the file at any time, in between too.       *)
(***************************************************************************)
EXTENDS DocumentSpec

CONSTANTS
    Pdfs,                   \* the files that are PDFs
    MaxIngests, MaxEdits    \* bounds

ASSUME IngestAssumption ==
    /\ Pdfs \subseteq Files /\ MaxIngests \in Nat /\ MaxEdits \in Nat
    /\ Absent \notin Source /\ Partial \notin Source

VARIABLES
    source,     \* the source files
    object,     \* --output: the source object made from each file
    ipc,        \* the next step of the process, "idle" when none runs
    ingest,     \* its arguments and what it has read
    mixed,      \* history: units written under the digest of a content the
                \* file took after they were read
    ingests, edits      \* counters

ingestVars == <<source, object, ipc, ingest, mixed, ingests, edits>>

(* "edited" is history: the file has changed since its text was read. *)
Ingest == [file : Files, mode : Mode, verified : BOOLEAN,
           text : Seq(Text), sha : Contents \cup {Absent}, edited : BOOLEAN]

(* Everything has its type. *)
IngestTypeOK ==
    /\ source \in [Files -> Contents \cup {Absent}]
    /\ object \in [Files -> Source \cup {Absent, Partial}]
    /\ ipc \in {"idle", "extract", "digest", "open", "write"}
    /\ ingest \in Ingest \cup {Absent}
    /\ ipc # "idle" => ingest \in Ingest
    /\ ipc \in {"open", "write"} => ingest.sha \in Contents
    /\ mixed \subseteq UnitId \X Text \X Contents
    /\ ingests \in 0..MaxIngests
    /\ edits \in 0..MaxEdits

IngestInit ==
    /\ source \in [Files -> Contents]
    /\ object = [f \in Files |-> Absent]
    /\ ipc = "idle" /\ ingest = Absent
    /\ mixed = {}
    /\ ingests = 0 /\ edits = 0

-----------------------------------------------------------------------------

(* --verification-status marks every unit alike. Only a PDF has pages. *)
LaunchIngest(f, mode, verified) ==
    /\ ipc = "idle"
    /\ ingests < MaxIngests
    /\ source[f] # Absent
    /\ mode = "page-image-evidence" => f \in Pdfs
    /\ ipc' = "extract"
    /\ ingest' = [file |-> f, mode |-> mode, verified |-> verified,
                  text |-> << >>, sha |-> Absent, edited |-> FALSE]
    /\ ingests' = ingests + 1
    /\ UNCHANGED <<source, object, mixed, edits>>

EndIngest == ipc' = "idle" /\ ingest' = Absent

(* extract_paragraphs and _expand_units: the first read. A source that is  *)
(* gone or has no text stops the process.                                  *)
Extract ==
    /\ ipc = "extract"
    /\ source[ingest.file] # Absent
    /\ TextOf[source[ingest.file]] # << >>
    /\ ipc' = "digest"
    /\ ingest' = [ingest EXCEPT !.text = TextOf[source[ingest.file]]]
    /\ UNCHANGED <<source, object, mixed, ingests, edits>>

(* sha256_file: the second read. *)
Digest ==
    /\ ipc = "digest"
    /\ source[ingest.file] # Absent
    /\ ipc' = "open"
    /\ ingest' = [ingest EXCEPT !.sha = source[ingest.file]]
    /\ UNCHANGED <<source, object, mixed, ingests, edits>>

(* write_json truncates the file it writes. *)
OpenObject ==
    /\ ipc = "open"
    /\ ipc' = "write"
    /\ object' = [object EXCEPT ![ingest.file] = Partial]
    /\ UNCHANGED <<source, ingest, mixed, ingests, edits>>

UnitOf(i) ==
    [id |-> <<ingest.file, i>>, text |-> ingest.text[i], sha |-> ingest.text[i],
     verified |-> ingest.verified]

WriteObject ==
    /\ ipc = "write"
    /\ EndIngest
    /\ object' = [object EXCEPT ![ingest.file] =
           [file |-> ingest.file, local |-> ingest.file, sha |-> ingest.sha,
            mode |-> ingest.mode, units |-> {UnitOf(i) : i \in DOMAIN ingest.text}]]
    /\ mixed' = IF ingest.edited
                THEN mixed \cup {<<UnitOf(i).id, UnitOf(i).text, ingest.sha>> :
                                     i \in DOMAIN ingest.text}
                ELSE mixed
    /\ UNCHANGED <<source, ingests, edits>>

(* A read or write fails, a library is missing, nothing was extracted, or  *)
(* the process is killed.                                                  *)
StopIngest ==
    /\ ipc # "idle"
    /\ EndIngest
    /\ UNCHANGED <<source, object, mixed, ingests, edits>>

IngestStep ==
    \/ \E f \in Files, mode \in Mode, verified \in BOOLEAN : LaunchIngest(f, mode, verified)
    \/ Extract \/ Digest \/ OpenObject \/ WriteObject \/ StopIngest

(* Someone replaces or removes a source file. *)
EditSource(f, content) ==
    /\ edits < MaxEdits
    /\ content # source[f]
    /\ source' = [source EXCEPT ![f] = content]
    /\ ingest' = IF ipc = "digest" /\ ingest.file = f
                 THEN [ingest EXCEPT !.edited = TRUE] ELSE ingest
    /\ edits' = edits + 1
    /\ UNCHANGED <<object, ipc, mixed, ingests>>
=============================================================================
