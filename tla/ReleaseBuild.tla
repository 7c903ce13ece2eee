------------------------------ MODULE ReleaseBuild ------------------------------
(***************************************************************************)
(* scripts/build_release.py and the output directory it is run on again    *)
(* and again, directly or with --check-reproducibility, while files of the *)
(* repository are edited. A build reads its sources one by one, and the    *)
(* requirements once more for the SBOM. The archive is renamed into place; *)
(* a file that is written in place is truncated first.                     *)
(*                                                                         *)
(* A source is known by how often it has been edited: an edit brings a     *)
(* content the file has not had before. An archive is known by what it     *)
(* holds, and so is its digest. One version is built, with a given         *)
(* SOURCE_DATE_EPOCH or the manifest's.                                    *)
(***************************************************************************)
EXTENDS Naturals, Sequences, Functions

CONSTANTS
    Order,           \* the sources in the order they are read, the manifest first
    Requirements,    \* workspace-template/requirements.txt
    Absent, Partial, \* a file that is not there, and one that is being written
    MaxLaunches, MaxEdits     \* bounds

Item == Range(Order)

Content == [Item -> Nat]

Sbom == [of : Content, deps : Nat]

File == Content \cup Sbom \cup {Absent, Partial}

ASSUME BuildAssumption ==
    /\ Order \in Seq(Item) /\ Requirements \in Item
    /\ Absent # Partial
    /\ Absent \notin Content \cup Sbom /\ Partial \notin Content \cup Sbom
    /\ MaxLaunches \in Nat /\ MaxEdits \in Nat

VARIABLES
    source,     \* the repository
    out,        \* the files in the output directory and in the temporary ones
    pc,         \* the next step of the build, "idle" when none runs
    run,        \* its mode and directory, what it has read and what it copies
    report,     \* how the last build ended
    verified,   \* history: archives that have passed _extract_and_check
    middle,     \* history: the repository when the first of two builds ended
    count       \* launches and edits

vars == <<source, out, pc, run, report, verified, middle, count>>

-----------------------------------------------------------------------------

Dir == {"dist", "first", "second"}

Part == {"archive", "checksum", "sbom"}

Nothing == [part \in Part |-> Absent]

Steps == {"idle", "collect", "check", "checksum", "writeChecksum", "requirements",
          "sbom", "writeSbom", "end", "copy", "writeCopy"}

(* Everything has its type, and a build that is past its collection has    *)
(* read every source.                                                      *)
TypeOK ==
    /\ source \in Content
    /\ out \in [Dir -> [Part -> File]]
    /\ pc \in Steps
    /\ run \in [repro : BOOLEAN, dir : Dir, read : Content, next : Nat \ {0},
                deps : Nat, part : Part]
    /\ report \in {"none", "passed", "failed"}
    /\ verified \subseteq Content
    /\ middle \in Content
    /\ count \in [launches : Nat, edits : Nat]
    /\ run.next <= Len(Order) + 1
    /\ pc \notin {"idle", "collect"} => run.next > Len(Order)

Unread == [i \in Item |-> 0]

NewRun(repro, dir) ==
    [repro |-> repro, dir |-> dir, read |-> Unread, next |-> 1, deps |-> 0,
     part |-> "archive"]

Init ==
    /\ source = Unread
    /\ out = [d \in Dir |-> Nothing]
    /\ pc = "idle"
    /\ run = NewRun(FALSE, "dist")
    /\ report = "none"
    /\ verified = {}
    /\ middle = Unread
    /\ count = [launches |-> 0, edits |-> 0]

-----------------------------------------------------------------------------

Goto(step) == pc' = step

(* The temporary directories go with the run.                              *)
End(status, files) ==
    /\ Goto("idle")
    /\ report' = status
    /\ out' = [d \in Dir |-> IF d = "dist" THEN files ELSE Nothing]
    /\ UNCHANGED <<source, run, verified, middle, count>>

Archive == out[run.dir]["archive"]

SetFile(d, part, content) == out' = [out EXCEPT ![d] = [@ EXCEPT ![part] = content]]

Write(part, content, step) ==
    /\ SetFile(run.dir, part, content)
    /\ Goto(step)
    /\ UNCHANGED <<source, run, report, verified, middle, count>>

Launch(repro) ==
    /\ pc = "idle"
    /\ count.launches < MaxLaunches
    /\ count' = [count EXCEPT !.launches = @ + 1]
    /\ run' = NewRun(repro, IF repro THEN "first" ELSE "dist")
    /\ report' = "none"
    /\ Goto("collect")
    /\ UNCHANGED <<source, out, verified, middle>>

(* The project's manifest, then the payload file by file.                  *)
ReadSource ==
    /\ pc = "collect"
    /\ run.next <= Len(Order)
    /\ run' = [run EXCEPT !.read = [@ EXCEPT ![Order[run.next]] = source[Order[run.next]]],
                          !.next = @ + 1]
    /\ UNCHANGED <<source, out, pc, report, verified, middle, count>>

(* Mutant: the last source is forgotten. *)
WriteTooEarly ==
    /\ pc = "collect"
    /\ run.next >= Len(Order)
    /\ Write("archive", run.read, "check")

(* Mutant: the checksum file is written with the archive. *)
WriteWithChecksum ==
    /\ pc = "collect"
    /\ run.next > Len(Order)
    /\ out' = [out EXCEPT ![run.dir] =
                  [@ EXCEPT !["archive"] = run.read, !["checksum"] = run.read]]
    /\ Goto("check")
    /\ UNCHANGED <<source, run, report, verified, middle, count>>

(* Written beside its place, where nobody reads it, and renamed.           *)
WriteArchive ==
    /\ pc = "collect"
    /\ run.next > Len(Order)
    /\ Write("archive", run.read, "check")

(* _extract_and_check passes; like any other step it may also fail.        *)
Check ==
    /\ pc = "check"
    /\ verified' = verified \cup {Archive}
    /\ Goto("checksum")
    /\ UNCHANGED <<source, out, run, report, middle, count>>

OpenChecksum == pc = "checksum" /\ Write("checksum", Partial, "writeChecksum")

WriteChecksum == pc = "writeChecksum" /\ Write("checksum", Archive, "requirements")

(* _runtime_dependencies reads the repository, not the archive.            *)
ReadRequirements ==
    /\ pc = "requirements"
    /\ run' = [run EXCEPT !.deps = source[Requirements]]
    /\ Goto("sbom")
    /\ UNCHANGED <<source, out, report, verified, middle, count>>

OpenSbom == pc = "sbom" /\ Write("sbom", Partial, "writeSbom")

WriteSbom == pc = "writeSbom" /\ Write("sbom", [of |-> Archive, deps |-> run.deps], "end")

EndDirect ==
    /\ pc = "end"
    /\ ~ run.repro
    /\ End("passed", out["dist"])

(* Mutant: both builds use one collection. *)
CollectOnce ==
    /\ pc = "end"
    /\ run.repro /\ run.dir = "first"
    /\ run' = [run EXCEPT !.dir = "second"]
    /\ middle' = source
    /\ Goto("collect")
    /\ UNCHANGED <<source, out, report, verified, count>>

EndFirst ==
    /\ pc = "end"
    /\ run.repro /\ run.dir = "first"
    /\ run' = NewRun(TRUE, "second")
    /\ middle' = source
    /\ Goto("collect")
    /\ UNCHANGED <<source, out, report, verified, count>>

Same == \A part \in {"archive", "sbom"} : out["first"][part] = out["second"][part]

Compare ==
    /\ pc = "end"
    /\ run.repro /\ run.dir = "second"
    /\ IF Same THEN /\ Goto("copy")
                    /\ UNCHANGED <<source, out, run, report, verified, middle, count>>
       ELSE End("failed", out["dist"])

(* shutil.copyfile, for the archive, the checksum file and the SBOM.       *)
OpenCopy ==
    /\ pc = "copy"
    /\ SetFile("dist", run.part, Partial)
    /\ Goto("writeCopy")
    /\ UNCHANGED <<source, run, report, verified, middle, count>>

Copied == [out["dist"] EXCEPT ![run.part] = out["first"][run.part]]

(* Mutant: the SBOM is not copied. *)
CopyTwo ==
    /\ pc = "writeCopy"
    /\ IF run.part = "checksum" THEN End("passed", Copied)
       ELSE /\ out' = [out EXCEPT !["dist"] = Copied]
            /\ run' = [run EXCEPT !.part = "checksum"]
            /\ Goto("copy")
            /\ UNCHANGED <<source, report, verified, middle, count>>

WriteCopy ==
    /\ pc = "writeCopy"
    /\ IF run.part = "sbom" THEN End("passed", Copied)
       ELSE /\ out' = [out EXCEPT !["dist"] = Copied]
            /\ run' = [run EXCEPT !.part = IF @ = "archive" THEN "checksum" ELSE "sbom"]
            /\ Goto("copy")
            /\ UNCHANGED <<source, report, verified, middle, count>>

-----------------------------------------------------------------------------

(* A BuildError, an OSError or a kill in any step.                         *)
Fail == pc # "idle" /\ End("failed", out["dist"])

Edit(i) ==
    /\ count.edits < MaxEdits
    /\ count' = [count EXCEPT !.edits = @ + 1]
    /\ source' = [source EXCEPT ![i] = @ + 1]
    /\ UNCHANGED <<out, pc, run, report, verified, middle>>

Build ==
    \/ ReadSource \/ WriteArchive \/ Check
    \/ OpenChecksum \/ WriteChecksum \/ ReadRequirements \/ OpenSbom \/ WriteSbom
    \/ EndDirect \/ EndFirst \/ Compare \/ OpenCopy \/ WriteCopy

Next ==
    \/ \E repro \in BOOLEAN : Launch(repro)
    \/ Build \/ Fail
    \/ \E i \in Item : Edit(i)

Spec == Init /\ [][Next]_vars

-----------------------------------------------------------------------------
(* Properties.                                                             *)

Dist == out["dist"]

(* When a build has passed, in either mode, what lies in the output        *)
(* directory is whole and belongs together, whatever older, failed or      *)
(* killed builds had left there.                                           *)
SuccessIsTogether ==
    report = "passed" =>
        /\ Dist["archive"] \in Content
        /\ Dist["checksum"] = Dist["archive"]
        /\ Dist["sbom"] \in Sbom /\ Dist["sbom"].of = Dist["archive"]

(* At any moment, also in the middle of a build or after one that died: an *)
(* archive that the checksum file beside it confirms has passed its check. *)
VouchedIsVerified ==
    Dist["archive"] \in Content /\ Dist["checksum"] = Dist["archive"] =>
        Dist["archive"] \in verified

(* A build that passes with --check-reproducibility shipped the repository *)
(* as it was at one moment, edited or not while it was read, and its SBOM  *)
(* names the dependencies of that moment.                                  *)
ReproducibleIsSnapshot ==
    report = "passed" /\ run.repro =>
        Dist["archive"] = middle /\ Dist["sbom"].deps = middle[Requirements]

(* With --check-reproducibility nothing in the output directory changes    *)
(* unless two builds are there that agree in all their files.              *)
AgreedBeforeCopied ==
    [][run.repro /\ out'["dist"] # Dist =>
           out["first"] = out["second"] /\ out["first"]["archive"] \in verified]_vars

-----------------------------------------------------------------------------
(* Why they hold: the parts of an inductive invariant.                     *)

Built == {"check", "checksum", "writeChecksum", "requirements", "sbom", "writeSbom", "end"}

Copying == {"copy", "writeCopy"}

Whole(d) ==
    /\ out[d]["archive"] \in verified
    /\ out[d]["checksum"] = out[d]["archive"]
    /\ out[d]["sbom"] \in Sbom /\ out[d]["sbom"].of = out[d]["archive"]

(* What has been written where, at each step.                              *)
FilesInv ==
    /\ run.dir \in {"first", "second"} <=> run.repro
    /\ pc \in Built => Archive = run.read
    /\ pc \in Built \ {"check"} => Archive \in verified
    /\ pc \in {"requirements", "sbom", "writeSbom", "end"} =>
          out[run.dir]["checksum"] = Archive
    /\ pc = "end" => out[run.dir]["sbom"] = [of |-> Archive, deps |-> run.deps]
    /\ pc # "idle" /\ run.dir = "second" => Whole("first")
    /\ pc \in Copying => run.dir = "second" /\ out["first"] = out["second"]
    /\ pc \in Copying /\ run.part # "archive" => Dist["archive"] = out["first"]["archive"]
    /\ pc \in Copying /\ run.part = "sbom" => Dist["checksum"] = Dist["archive"]
    /\ pc \notin Copying /\ run.repro /\ pc # "idle" => run.part = "archive"
    /\ pc # "idle" => report = "none"
    /\ Dist["checksum"] \in verified \cup {Absent, Partial}

(* What has been read lies between the repository then and now: a source   *)
(* that both builds found the same has not changed between its two reads.  *)
ReadInv ==
    /\ \A i \in Item : run.read[i] <= source[i] /\ middle[i] <= source[i]
    /\ pc \in {"sbom", "writeSbom", "end"} =>
          run.read[Requirements] <= run.deps /\ run.deps <= source[Requirements]
    /\ pc # "idle" /\ run.dir = "second" =>
          /\ \A i \in Item : out["first"]["archive"][i] <= middle[i]
          /\ out["first"]["archive"][Requirements] <= out["first"]["sbom"].deps
          /\ out["first"]["sbom"].deps <= middle[Requirements]
          /\ \A k \in 1 .. Len(Order) : k < run.next => middle[Order[k]] <= run.read[Order[k]]
    /\ pc \in Copying =>
          /\ out["first"]["archive"] = middle
          /\ out["first"]["sbom"].deps = middle[Requirements]

BuildInv ==
    /\ TypeOK /\ FilesInv /\ ReadInv
    /\ SuccessIsTogether /\ VouchedIsVerified /\ ReproducibleIsSnapshot
=============================================================================
