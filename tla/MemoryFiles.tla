------------------------------ MODULE MemoryFiles ------------------------------
(***************************************************************************)
(* The three kinds of memory file the lifecycle scripts rewrite, and what  *)
(* each script's text function does to one of them:                        *)
(*                                                                         *)
(*   memory/index.yaml          [active, matter]                           *)
(*   memory/CURRENT.md          the sequence of its "## " sections         *)
(*   memory/sessions/<id>.md    how far the session note has been written  *)
(*                                                                         *)
(* These are pure operators: a script reads a whole file, applies one of   *)
(* them, and writes the whole file back.                                   *)
(***************************************************************************)
EXTENDS Integers, Sequences, FiniteSetsExt

CONSTANTS
    Slug,        \* session slugs
    Matter,      \* matter ids
    PrefixOf,    \* the pairs <<a, b>> of slugs where a is a prefix of b
    LastSecond,  \* bound: the clock runs over 0..LastSecond
    Day,         \* calendar days (UTC)
    DayOf        \* the day of each second

Second == 0..LastSecond

ASSUME FilesAssumption ==
    /\ Slug # {} /\ Matter # {}
    /\ LastSecond \in Nat
    /\ DayOf \in [Second -> Day]
    /\ PrefixOf \subseteq Slug \X Slug
    /\ \A s \in Slug : <<s, s>> \in PrefixOf
    /\ Matter \cap {"null", "absent"} = {}

-----------------------------------------------------------------------------
(* Names. A session id is a UTC second and a slug, a session branch a UTC  *)
(* day and a slug: start_session.py derives both from one clock reading.   *)

SessionId == [at : Second, slug : Slug]

SessionBranch(at, slug) == [day |-> DayOf[at], slug |-> slug]

Main == [name |-> "main"]

Branch == {Main} \cup [day : Day, slug : Slug]

(* One record of the index and one bullet of CURRENT.md: both name the     *)
(* session, its branch and its matter.                                     *)
Entry == [id : SessionId, branch : Branch, matter : Matter]

(* `session_id in line`: a substring test, so an id also covers the ids of *)
(* the same second whose slug it is a prefix of. "ids" is the id read from *)
(* the note's header, or no id when the header still is the placeholder.   *)
Mentions(entry, ids) ==
    \E id \in ids : /\ id.at = entry.id.at
                    /\ <<id.slug, entry.id.slug>> \in PrefixOf

(* Mutant: the id is compared without its time. *)
WithoutSlug(entries, ids) ==
    {entry \in entries : \A id \in ids : <<id.slug, entry.id.slug>> \notin PrefixOf}

Without(entries, ids) == {entry \in entries : ~ Mentions(entry, ids)}

-----------------------------------------------------------------------------
(* memory/index.yaml. The matter is "absent" once the active_matter line   *)
(* itself is gone: a file that was cut to length 0 by open("w").           *)

IndexText == [active : SUBSET Entry, matter : Matter \cup {"null", "absent"}]

ShippedIndex == [active |-> {}, matter |-> "null"]

EmptyIndex == [active |-> {}, matter |-> "absent"]

(* new_matter.py: a line that is not there is not added. *)
UpdateIndex(text, matter) ==
    [text EXCEPT !.matter = IF @ = "absent" THEN @ ELSE matter]

(* Mutants: the new session takes the place of the others; only its id is  *)
(* written.                                                                *)
OnlyActiveSession(text, entry) == [text EXCEPT !.active = {entry}]

AddActiveId(text, entry) == [text EXCEPT !.active = @ \cup {entry.id}]

AddActiveSession(text, entry) == [text EXCEPT !.active = @ \cup {entry}]

RemoveActiveSession(text, ids) == [text EXCEPT !.active = Without(@, ids)]

-----------------------------------------------------------------------------
(* memory/CURRENT.md. Only the sections the scripts look for have a body.  *)

Section ==
    [kind : {"matters", "branches", "handoff", "other"},
     body : SUBSET (Matter \cup Entry \cup SessionId)]

CurrentText == Seq(Section)

EmptyCurrent == <<>>

ShippedCurrent ==
    << [kind |-> "matters",  body |-> {}], [kind |-> "other", body |-> {}],
       [kind |-> "branches", body |-> {}], [kind |-> "other", body |-> {}] >>

Sections(text, kind) == {i \in DOMAIN text : text[i].kind = kind}

(* The pattern of new_matter.py, start_session.py and finish_session.py    *)
(* finds a section only when another one follows it.                       *)
Followed(text, kind) == {i \in Sections(text, kind) : i < Len(text)}

AppendSection(text, kind, body) == Append(text, [kind |-> kind, body |-> body])

RewriteSection(text, i, body) ==
    [text EXCEPT ![i] = [kind |-> text[i].kind, body |-> body]]

AddTo(text, kind, item) ==
    LET i == Min(Followed(text, kind)) IN
    IF Followed(text, kind) = {}
    THEN AppendSection(text, kind, {item})
    ELSE RewriteSection(text, i, text[i].body \cup {item})

UpdateCurrentMatter(text, matter) == AddTo(text, "matters", matter)

AddCurrentSession(text, entry) == AddTo(text, "branches", entry)

(* Mutant: every session's bullet goes. *)
PruneAllBranches(text, ids) ==
    LET i == Min(Followed(text, "branches")) IN
    IF Followed(text, "branches") = {} THEN text ELSE RewriteSection(text, i, {})

(* finish_session.py: drop the session's bullets, replace the handoff.     *)
PruneBranches(text, ids) ==
    LET i == Min(Followed(text, "branches")) IN
    IF Followed(text, "branches") = {}
    THEN text
    ELSE RewriteSection(text, i, Without(text[i].body, ids))

ReplaceHandoff(text, ids) ==
    IF Sections(text, "handoff") = {}
    THEN AppendSection(text, "handoff", ids)
    ELSE RewriteSection(text, Min(Sections(text, "handoff")), ids)

UpdateCurrentHandoff(text, ids) == ReplaceHandoff(PruneBranches(text, ids), ids)

(* The sessions CURRENT.md shows as active. *)
CurrentSessions(text) == UNION {text[i].body : i \in Sections(text, "branches")}

-----------------------------------------------------------------------------
(* memory/sessions/<id>.md, by what its lines say:                         *)
(*   "empty"          no header and no "Ended" line                        *)
(*   "template"       the placeholders are still in it                     *)
(*   "open", "ended"  its header holds the id, "Ended" is blank or set     *)
(*   "endedTemplate"  "Ended" is set while the placeholders are in it      *)

NoteText == {"absent", "empty", "template", "open", "ended", "endedTemplate"}

ReplaceTemplate(note) ==
    CASE note = "template"      -> "open"
      [] note = "endedTemplate" -> "ended"
      [] OTHER                  -> note

WriteHandoff(note) ==
    CASE note = "template" -> "endedTemplate"
      [] note = "open"     -> "ended"
      [] OTHER             -> note

(* The id finish_session.py works with: the header's, or the file's stem   *)
(* when there is no header; no session has the id of a placeholder.        *)
HeaderIds(note, id) == IF note \in {"template", "endedTemplate"} THEN {} ELSE {id}

=============================================================================
