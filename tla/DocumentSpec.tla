------------------------------ MODULE DocumentSpec ------------------------------
(***************************************************************************)
(* What tools/verifiable_document works on: the JSON specification of a    *)
(* document, the findings of validate.py, and the documents build.py       *)
(* renders from it.                                                        *)
(*                                                                         *)
(* A content of a source file stands for its SHA-256 as well, and a text   *)
(* for its own: the digests are taken to be injective, and so are the      *)
(* anchors and bookmarks that common.py derives from identifiers. A source *)
(* has its file for a source_id; its units are known by that file and      *)
(* their place in it, as ingest.py numbers them.                           *)
(***************************************************************************)
EXTENDS Naturals, Sequences, Functions

CONSTANTS
    Files,       \* the source files
    Contents,    \* what a source file may hold
    Text,        \* the text of a unit
    TextOf,      \* the units that are extracted from a content, in order
    ClaimIds,
    Absent, Partial,   \* a file that is not there, and one that is being written
    Unread             \* what is known of a file that nobody looks at

ASSUME SpecAssumption ==
    /\ TextOf \in [Contents -> Seq(Text)]
    /\ Absent \notin Contents /\ Unread \notin Contents \cup {Absent}
    /\ Files \cap {Absent, Unread} = {}

UnitId == Files \X (Nat \ {0})

Unit == [id : UnitId, text : Text, sha : Text, verified : BOOLEAN]

Mode == {"evidence-pack", "page-image-evidence"}

(* "local" is what local_path leads to: a file, Absent when nothing is     *)
(* there, Unread when the field is missing or it leads to a directory.     *)
Source == [file : Files, local : Files \cup {Absent, Unread}, sha : Contents, mode : Mode,
           units : SUBSET Unit]

(* "open" claims are assumptions that carry no qualification. *)
Claim == [id : ClaimIds, material : BOOLEAN, open : BOOLEAN,
          evidence : SUBSET UnitId, counter : SUBSET UnitId]

(* An unreadable file is not a JSON object; a broken one has a field of    *)
(* the wrong type or value; a loose one has a heading whose level is no    *)
(* number, which the JSON schema refuses and the checks in Python do not.  *)
Form == {"good", "loose", "broken", "unreadable"}

(* What the author writes: everything but the sources. *)
Outline == [form : Form, sensitive : BOOLEAN, claims : Seq(Claim)]

Specification == [outline : Outline, sources : Seq(Source)]

Claims(S) == Range(S.outline.claims)

Units(S) == UNION {S.sources[k].units : k \in DOMAIN S.sources}

Refs(c) == c.evidence \cup c.counter

-----------------------------------------------------------------------------
(* The findings of validate_spec. "seen" is what the local_path of each    *)
(* source led to when it was looked at: a content, Absent or Unread.       *)

DuplicateClaim(S) ==
    \E i, j \in DOMAIN S.outline.claims :
        i # j /\ S.outline.claims[i].id = S.outline.claims[j].id

MaterialWithoutEvidence(S) == \E c \in Claims(S) : c.material /\ c.evidence = {}

DuplicateSource(S) ==
    \E k, l \in DOMAIN S.sources : k # l /\ S.sources[k].file = S.sources[l].file

SourceWithoutUnits(S) == \E k \in DOMAIN S.sources : S.sources[k].units = {}

SourceDigestMismatch(S, seen) ==
    \E k \in DOMAIN S.sources : seen[k] \in Contents /\ seen[k] # S.sources[k].sha

(* A mutant: only the texts that are cited are compared. *)
CheckCitedOnly(S) ==
    \E u \in Units(S) : u.sha # u.text /\ \E c \in Claims(S) : u.id \in c.evidence

UnitDigestMismatch(S) == \E u \in Units(S) : u.sha # u.text

UnverifiedScan(S) ==
    \E k \in DOMAIN S.sources :
        /\ S.sources[k].mode = "page-image-evidence"
        /\ \E u \in S.sources[k].units : ~u.verified

DuplicateUnit(S) ==
    \E k, l \in DOMAIN S.sources : \E u \in S.sources[k].units, v \in S.sources[l].units :
        u.id = v.id /\ (k # l \/ u # v)

UnresolvedRef(S) ==
    \E c \in Claims(S) : \E ref \in Refs(c) : \A u \in Units(S) : u.id # ref

(* A mutant: counterevidence counts as support. *)
CountAllRefs(S) ==
    \E c \in Claims(S) :
        /\ c.material /\ c.evidence # {}
        /\ ~\E u \in Units(S) : u.id \in Refs(c) /\ u.verified

(* Only evidence counts as support, not counterevidence. With duplicate    *)
(* units the code looks at the last one; they are an error of their own.   *)
MaterialWithoutVerifiedUnit(S) ==
    \E c \in Claims(S) :
        /\ c.material /\ c.evidence # {}
        /\ ~\E u \in Units(S) : u.id \in c.evidence /\ u.verified

(* The errors that do not depend on the files. jsonschema is optional.     *)
SpecErrors(S, schema) ==
    \/ S.outline.form = "broken"
    \/ S.outline.form = "loose" /\ schema
    \/ S.sources = << >>
    \/ DuplicateClaim(S) \/ MaterialWithoutEvidence(S)
    \/ DuplicateSource(S) \/ SourceWithoutUnits(S)
    \/ UnitDigestMismatch(S) \/ UnverifiedScan(S) \/ DuplicateUnit(S)
    \/ UnresolvedRef(S) \/ MaterialWithoutVerifiedUnit(S)

Errors(S, schema, seen) == SpecErrors(S, schema) \/ SourceDigestMismatch(S, seen)

SourceMissing(seen) == \E k \in DOMAIN seen : seen[k] = Absent

SupportAndCounter(S) == \E c \in Claims(S) : c.evidence \cap c.counter # {}

UnusedSource(S) ==
    \E k \in DOMAIN S.sources :
        \A c \in Claims(S), u \in S.sources[k].units : u.id \notin Refs(c)

Warnings(S, seen) ==
    \/ S.outline.sensitive
    \/ \E c \in Claims(S) : c.open
    \/ SourceMissing(seen) \/ SupportAndCounter(S) \/ UnusedSource(S)

-----------------------------------------------------------------------------
(* A rendered document: the specification it shows, the anchors (in a      *)
(* DOCX, bookmarks) it holds and the targets of its internal links.        *)

Format == {"html", "docx"}

ClaimAnchor(c) == <<"claim", c.id>>

UnitAnchor(id) == <<"evidence", id>>

Backlinks(S, u) == {c \in Claims(S) : u.id \in Refs(c)}

Targets(S) ==
    {UnitAnchor(ref) : ref \in UNION {Refs(c) : c \in Claims(S)}}
        \cup {ClaimAnchor(c) : c \in UNION {Backlinks(S, u) : u \in Units(S)}}

(* int(level) raises ValueError, units[ref] KeyError. *)
Renders(S) == S.outline.form # "loose" /\ ~UnresolvedRef(S)

HtmlOf(S) ==
    [format  |-> "html", of |-> S, targets |-> Targets(S),
     anchors |-> {ClaimAnchor(c) : c \in Claims(S)} \cup {UnitAnchor(u.id) : u \in Units(S)}
                     \cup {<<"source", S.sources[k].file>> : k \in DOMAIN S.sources}]

DocxOf(S) ==
    [format  |-> "docx", of |-> S, targets |-> Targets(S),
     anchors |-> {ClaimAnchor(c) : c \in Claims(S)} \cup {UnitAnchor(u.id) : u \in Units(S)}]

Rendered(format, S) == IF format = "html" THEN HtmlOf(S) ELSE DocxOf(S)

LinkErrors(document) == document.targets \ document.anchors

-----------------------------------------------------------------------------
(* What a reader of a document relies on: every claim and unit has an      *)
(* identifier of its own, every reference leads to a unit, every unit is   *)
(* the text its digest says, scans were checked by a human, and every      *)
(* material claim is supported by a unit that a human has verified.        *)
Sound(S) ==
    /\ \A i, j \in DOMAIN S.outline.claims :
           S.outline.claims[i].id = S.outline.claims[j].id => i = j
    /\ \A u, v \in Units(S) : u.id = v.id => u = v
    /\ \A c \in Claims(S) : \A ref \in Refs(c) : \E u \in Units(S) : u.id = ref
    /\ \A u \in Units(S) : u.sha = u.text
    /\ \A k \in DOMAIN S.sources : S.sources[k].mode = "page-image-evidence" =>
           \A u \in S.sources[k].units : u.verified
    /\ \A c \in Claims(S) : c.material =>
           \E u \in Units(S) : u.id \in c.evidence /\ u.verified
=============================================================================
