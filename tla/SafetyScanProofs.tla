---------------------------- MODULE SafetyScanProofs ----------------------------
(***************************************************************************)
(* Safety of a scan, for every set of paths and repositories and any       *)
(* number of changes while it runs.                                        *)
(***************************************************************************)
EXTENDS SafetyScan, TLAPS

Finding == {"file", "remote"}

LEMMA IfType ==
    /\ \A c \in BOOLEAN : If(c, "file") \in SUBSET Finding
    /\ \A c \in BOOLEAN : If(c, "remote") \in SUBSET Finding
BY DEF If, Finding

LEMMA FileFindingType ==
    ASSUME NEW p, NEW content
    PROVE  /\ FileFinding(p, content) \in SUBSET Finding
           /\ "file" \notin FileFinding(p, content) => Accepted(p, content)
BY DEF FileFinding, Finding

LEMMA VerdictType ==
    ASSUME NEW f \in SUBSET Finding
    PROVE  Verdict(f) \in {"safe", "blocked"} /\ (Verdict(f) = "safe" <=> f = {})
BY DEF Verdict

(* What a change of the files comes to. *)
LEMMA FilesSet ==
    ASSUME TypeOK, EditFiles
    PROVE  \E files \in [Path -> Entry] : SetFiles(files)
<1>0. file \in [Path -> Entry]
  BY DEF TypeOK
<1>1. ASSUME NEW p \in Path, NEW content \in Content \cup {Absent}
      PROVE  /\ [file EXCEPT ![p].tree = content] \in [Path -> Entry]
             /\ [file EXCEPT ![p].index = content] \in [Path -> Entry]
  BY <1>0 DEF Entry
<1>2. [p \in Path |-> [file[p] EXCEPT !.head = file[p].index]] \in [Path -> Entry]
  <2>1. ASSUME NEW p \in Path
        PROVE  [file[p] EXCEPT !.head = file[p].index] \in Entry
    BY <1>0 DEF Entry
  <2> QED BY <2>1
<1>3. \A p \in Path : {file[p].tree, file[p].index, file[p].head} \subseteq Content \cup {Absent}
  BY <1>0 DEF Entry
<1>4. CASE SetFiles([p \in Path |-> [file[p] EXCEPT !.head = file[p].index]])
  BY <1>2, <1>4
<1>5. CASE \E p \in Path : \E content \in Content \cup {Absent} :
               SetFiles([file EXCEPT ![p].tree = content])
  BY <1>1, <1>5
<1>6. CASE \E p \in Path : SetFiles([file EXCEPT ![p].index = file[p].tree])
  BY <1>1, <1>3, <1>6
<1>7. CASE \E p \in Path : SetFiles([file EXCEPT ![p].index = file[p].head])
  BY <1>1, <1>3, <1>7
<1>8. CASE \E p \in Path : SetFiles([file EXCEPT ![p].index = Absent])
  BY <1>1, <1>8
<1> QED BY <1>4, <1>5, <1>6, <1>7, <1>8 DEF EditFiles

(* The user and GitHub change the world and leave the scan alone. *)
LEMMA WorldTyped ==
    ASSUME TypeOK, Change, EditFiles \/ EditOrigin \/ EditHost
    PROVE  /\ TypeOK' /\ UNCHANGED <<pc, scan, slipped>> /\ Running
           /\ \A p \in Path : entries[p] \subseteq entries'[p]
           /\ origins \subseteq origins'
           /\ \A r \in Repo : answers[r] \subseteq answers'[r]
<1>1. UNCHANGED <<pc, scan, slipped>> /\ Running /\ changes' \in 0..MaxChanges
  BY ScanAssumption DEF Change, TypeOK
<1>2. CASE EditFiles
  <2>1. PICK files \in [Path -> Entry] : SetFiles(files)
    BY <1>2, FilesSet
  <2> QED BY <1>1, <2>1 DEF TypeOK, SetFiles
<1>3. CASE EditOrigin
  BY <1>1, <1>3 DEF TypeOK, EditOrigin
<1>4. CASE EditHost
  <2>1. PICK now \in Hosts :
            /\ host' = now
            /\ answers' = [r \in Repo |-> answers[r] \cup {now[r]}]
            /\ UNCHANGED <<file, origin, entries, origins>>
    BY <1>4 DEF EditHost
  <2>2. now \in [Repo -> Metadata \cup {Absent}]
    BY ScanAssumption
  <2> QED BY <1>1, <2>1, <2>2 DEF TypeOK
<1> QED BY <1>2, <1>3, <1>4

(* A step of the scan leaves the world alone. *)
LEMMA Stepped ==
    ASSUME TypeOK, UNCHANGED world, scan' \in Scan, slipped' \in SUBSET Path,
           pc' \in FileSteps \cup RemoteSteps \cup {"safe", "blocked"},
           pc' = "tree" => scan'.at \in scan'.indexed \ scan'.todo,
           pc' \in RemoteSteps \cup {"safe"} => scan'.todo = {},
           pc' = "safe" => scan'.findings = {},
           pc' \in {"login", "view"} => scan'.repo \in Repo
    PROVE  TypeOK'
BY DEF TypeOK, world

-----------------------------------------------------------------------------
(* The steps of the scan of the files. *)

SameArgs ==
    /\ scan'.profile = scan.profile /\ scan'.staged = scan.staged
    /\ scan'.remote = scan.remote /\ scan'.verified = scan.verified

LEMMA FindRootTyped ==
    ASSUME TypeOK, FindRoot
    PROVE  TypeOK' /\ SameArgs
<1>0. scan \in Scan /\ slipped \in SUBSET Path /\ UNCHANGED <<world, slipped>>
  BY DEF TypeOK, FindRoot
<1>1. PICK ok \in BOOLEAN :
        IF ok /\ scan.inGit
        THEN pc' = (IF scan.staged THEN "diff" ELSE "cached") /\ UNCHANGED scan
        ELSE /\ pc' = "files"
             /\ scan' = IF scan.staged THEN [scan EXCEPT !.findings = @ \cup {"file"}]
                        ELSE [scan EXCEPT !.walk = TRUE, !.todo = Path \ Skipped]
  BY DEF FindRoot
<1>2. scan' \in Scan /\ SameArgs
  <2>1. CASE UNCHANGED scan
    BY <1>0, <2>1 DEF SameArgs
  <2>2. CASE scan' = [scan EXCEPT !.findings = @ \cup {"file"}]
    BY <1>0, <2>2 DEF SameArgs, Scan
  <2>3. CASE scan' = [scan EXCEPT !.walk = TRUE, !.todo = Path \ Skipped]
    BY <1>0, <2>3 DEF SameArgs, Scan
  <2> QED BY <1>1, <2>1, <2>2, <2>3
<1> QED BY <1>0, <1>1, <1>2, Stepped DEF FileSteps, RemoteSteps

LEMMA ListStagedTyped ==
    ASSUME TypeOK, ListStaged
    PROVE  TypeOK' /\ SameArgs
<1>0. scan \in Scan /\ slipped \in SUBSET Path /\ UNCHANGED <<world, slipped>> /\ pc' = "files"
  BY DEF TypeOK, ListStaged
<1>1. PICK ok \in BOOLEAN :
        scan' = [Listed({p \in Path : ok /\ Staged(file[p])}) EXCEPT
                    !.indexed = {p \in Path : ok /\ Staged(file[p])},
                    !.findings = @ \cup If(~ok, "file")]
  BY DEF ListStaged
<1>2. scan' \in Scan /\ SameArgs
  BY <1>0, <1>1, IfType DEF SameArgs, Scan, Listed, Finding
<1> QED BY <1>0, <1>2, Stepped DEF FileSteps, RemoteSteps

LEMMA ListCachedTyped ==
    ASSUME TypeOK, ListCached
    PROVE  TypeOK' /\ SameArgs
<1>0. scan \in Scan /\ slipped \in SUBSET Path /\ UNCHANGED <<world, slipped>> /\ pc' = "others"
  BY DEF TypeOK, ListCached
<1>1. PICK ok \in BOOLEAN :
        scan' = [scan EXCEPT !.indexed = {p \in Path : ok /\ file[p].index # Absent},
                             !.findings = @ \cup If(~ok, "file")]
  BY DEF ListCached
<1>2. scan' \in Scan /\ SameArgs
  BY <1>0, <1>1, IfType DEF SameArgs, Scan, Finding
<1> QED BY <1>0, <1>2, Stepped DEF FileSteps, RemoteSteps

LEMMA ListOthersTyped ==
    ASSUME TypeOK, ListOthers
    PROVE  TypeOK' /\ SameArgs
<1>0. /\ scan \in Scan /\ UNCHANGED world /\ pc' = "files"
      /\ slipped' = {p \in Path : p \notin scan.indexed /\ file[p].index # Absent}
  BY DEF TypeOK, ListOthers
<1>1. PICK ok \in BOOLEAN :
        scan' = [Listed(scan.indexed \cup
                    {p \in Path \ Ignored :
                        ok /\ file[p].index = Absent /\ file[p].tree # Absent}) EXCEPT
                    !.findings = @ \cup If(~ok, "file")]
  BY DEF ListOthers
<1>2. scan' \in Scan /\ SameArgs
  BY <1>0, <1>1, IfType DEF SameArgs, Scan, Listed, Finding
<1> QED BY <1>0, <1>2, Stepped DEF FileSteps, RemoteSteps

LEMMA ReadIndexTyped ==
    ASSUME TypeOK, NEW p \in Path, ReadIndex(p)
    PROVE  TypeOK' /\ SameArgs
<1>0. /\ scan \in Scan /\ slipped \in SUBSET Path /\ UNCHANGED <<world, slipped>>
      /\ p \in scan.indexed /\ pc' = IF scan.staged THEN "files" ELSE "tree"
  BY DEF TypeOK, ReadIndex
<1>1. PICK content \in {file[p].index, Absent} :
        scan' = [scan EXCEPT !.todo = @ \ {p}, !.at = p,
                             !.findings = @ \cup FileFinding(p, content)]
  BY DEF ReadIndex
<1>2. scan' \in Scan /\ SameArgs /\ scan'.at = p /\ scan'.todo = scan.todo \ {p}
      /\ scan'.indexed = scan.indexed
  BY <1>0, <1>1, FileFindingType DEF SameArgs, Scan, Finding
<1> QED BY <1>0, <1>2, Stepped DEF FileSteps, RemoteSteps

LEMMA ReadTreeTyped ==
    ASSUME TypeOK, ReadTree
    PROVE  TypeOK' /\ SameArgs
<1>0. scan \in Scan /\ slipped \in SUBSET Path /\ UNCHANGED <<world, slipped>> /\ pc' = "files"
  BY DEF TypeOK, ReadTree
<1>1. PICK content \in {file[scan.at].tree, Absent} :
        scan' = [scan EXCEPT !.findings = @ \cup FileFinding(scan.at, content)]
  BY DEF ReadTree
<1>2. scan' \in Scan /\ SameArgs
  BY <1>0, <1>1, FileFindingType DEF SameArgs, Scan, Finding
<1> QED BY <1>0, <1>2, Stepped DEF FileSteps, RemoteSteps

LEMMA ReadFileTyped ==
    ASSUME TypeOK, NEW p \in Path, ReadOther(p) \/ Walk(p)
    PROVE  TypeOK' /\ SameArgs
<1>0. /\ scan \in Scan /\ slipped \in SUBSET Path
      /\ UNCHANGED <<world, slipped>> /\ pc' = "files"
  BY DEF TypeOK, ReadOther, Walk
<1>1. \/ scan' = [scan EXCEPT !.todo = @ \ {p}]
      \/ \E content : scan' = [scan EXCEPT !.todo = @ \ {p},
                                           !.findings = @ \cup FileFinding(p, content)]
  BY DEF ReadOther, Walk
<1>2. CASE scan' = [scan EXCEPT !.todo = @ \ {p}]
  <2>1. scan' \in Scan /\ SameArgs
    BY <1>0, <1>2 DEF SameArgs, Scan
  <2> QED BY <1>0, <2>1, Stepped DEF FileSteps, RemoteSteps
<1>3. ASSUME NEW content,
             scan' = [scan EXCEPT !.todo = @ \ {p}, !.findings = @ \cup FileFinding(p, content)]
      PROVE  TypeOK' /\ SameArgs
  <2>1. scan' \in Scan /\ SameArgs
    BY <1>0, <1>3, FileFindingType DEF SameArgs, Scan, Finding
  <2> QED BY <1>0, <2>1, Stepped DEF FileSteps, RemoteSteps
<1> QED BY <1>1, <1>2, <1>3

LEMMA EndFilesTyped ==
    ASSUME TypeOK, EndFiles
    PROVE  TypeOK' /\ SameArgs
<1>0. /\ scan \in Scan /\ slipped \in SUBSET Path /\ UNCHANGED <<world, slipped, scan>>
      /\ scan.todo = {} /\ scan.findings \in SUBSET Finding
      /\ pc' = IF scan.remote THEN "remoteRoot" ELSE Verdict(scan.findings)
  BY DEF TypeOK, EndFiles, AfterFiles, Scan, Finding
<1> QED BY <1>0, VerdictType, Stepped DEF SameArgs, FileSteps, RemoteSteps

LEMMA ScanFilesTyped ==
    ASSUME TypeOK, ScanFiles
    PROVE  TypeOK' /\ SameArgs
BY FindRootTyped, ListStagedTyped, ListCachedTyped, ListOthersTyped, ReadIndexTyped,
   ReadTreeTyped, ReadFileTyped, EndFilesTyped DEF ScanFiles

-----------------------------------------------------------------------------
(* The steps of the remote check. *)

LEMMA Returned ==
    ASSUME TypeOK, NEW finding \in SUBSET Finding, Return(finding), UNCHANGED <<world, slipped>>,
           scan.todo = {}
    PROVE  /\ TypeOK'
           /\ scan' = [scan EXCEPT !.findings = scan.findings \cup finding]
           /\ scan'.findings = scan.findings \cup finding
           /\ pc' \in {"safe", "blocked"}
           /\ pc' = "safe" <=> scan.findings \cup finding = {}
<1>0. scan \in Scan /\ slipped \in SUBSET Path
  BY DEF TypeOK
<1>1. /\ scan' = [scan EXCEPT !.findings = scan.findings \cup finding]
      /\ pc' = Verdict(scan.findings \cup finding)
  BY DEF Return
<1>2. scan.findings \cup finding \in SUBSET Finding
  BY <1>0 DEF Scan, Finding
<1>3. /\ scan' \in Scan /\ scan'.findings = scan.findings \cup finding /\ scan'.todo = {}
  BY <1>0, <1>1, <1>2 DEF Scan, Finding
<1>4. /\ pc' \in {"safe", "blocked"}
      /\ pc' = "safe" <=> scan.findings \cup finding = {}
  BY <1>1, <1>2, VerdictType
<1> QED BY <1>0, <1>1, <1>3, <1>4, Stepped DEF FileSteps, RemoteSteps

LEMMA InRemote ==
    ASSUME TypeOK, CheckRemote
    PROVE  /\ pc \in RemoteSteps /\ scan.todo = {} /\ scan \in Scan
           /\ slipped \in SUBSET Path /\ UNCHANGED <<world, slipped>>
<1>1. pc \in RemoteSteps
  BY DEF CheckRemote, RemoteRoot, ListRemotes, GetFetchUrls, GetPushUrls, GetLogin, View,
         RemoteSteps
<1>2. UNCHANGED <<world, slipped>>
  BY DEF CheckRemote, RemoteRoot, ListRemotes, GetFetchUrls, GetPushUrls, GetLogin, View
<1> QED BY <1>1, <1>2 DEF TypeOK

LEMMA FetchUrlsTyped ==
    ASSUME TypeOK, GetFetchUrls
    PROVE  /\ TypeOK' /\ scan' = [scan EXCEPT !.fetch = scan'.fetch]
           /\ scan'.fetch # {} => origin # Absent /\ scan'.fetch = origin.fetch
<1>0. /\ scan \in Scan /\ scan.todo = {} /\ slipped \in SUBSET Path
      /\ UNCHANGED <<world, slipped>> /\ pc' = "push"
  BY DEF TypeOK, GetFetchUrls, RemoteSteps
<1>1. PICK urls : /\ scan' = [scan EXCEPT !.fetch = urls]
                  /\ urls = {} \/ (origin # Absent /\ urls = origin.fetch)
  BY Zenon DEF GetFetchUrls
<1>2. urls \in SUBSET Url
  BY <1>1, ScanAssumption DEF TypeOK, Origin
<1>3. scan' \in Scan /\ scan'.todo = {} /\ scan'.fetch = urls
  BY <1>0, <1>1, <1>2 DEF Scan
<1> QED BY <1>0, <1>1, <1>3, Stepped DEF FileSteps, RemoteSteps

(* The URLs that a push check compares. *)
LEMMA PushUrlsShape ==
    ASSUME GetPushUrls
    PROVE  \/ Return({"remote"})
           \/ \E push : \E r \in Repo : \E broken \in BOOLEAN :
                  /\ push = {} \/ (origin # Absent /\ push = origin.push)
                  /\ Identify(scan.fetch, push, r)
                  /\ broken <=> \E url \in scan.fetch \cup push : ~url.plain
                  /\ pc' = IF scan.profile = "upstream-public" THEN "login" ELSE "view"
                  /\ scan' = [scan EXCEPT !.repo = r, !.findings = @ \cup If(broken, "remote")]
BY Zenon DEF GetPushUrls

LEMMA GetPushUrlsTyped ==
    ASSUME TypeOK, GetPushUrls
    PROVE  \/ Return({"remote"})
           \/ /\ TypeOK' /\ SameArgs /\ pc' \in {"login", "view"}
              /\ pc' = "view" => scan.profile # "upstream-public"
              /\ scan'.findings \in SUBSET Finding
              /\ "remote" \notin scan'.findings => \E push :
                     /\ push = {} \/ (origin # Absent /\ push = origin.push)
                     /\ Identify(scan.fetch, push, scan'.repo)
                     /\ \A url \in scan.fetch \cup push : url.plain
<1>0. /\ scan \in Scan /\ scan.todo = {} /\ slipped \in SUBSET Path
      /\ UNCHANGED <<world, slipped>>
  BY DEF TypeOK, GetPushUrls, RemoteSteps
<1>1. SUFFICES ASSUME ~Return({"remote"})
               PROVE  /\ TypeOK' /\ SameArgs /\ pc' \in {"login", "view"}
                      /\ pc' = "view" => scan.profile # "upstream-public"
                      /\ scan'.findings \in SUBSET Finding
                      /\ "remote" \notin scan'.findings => \E push :
                             /\ push = {} \/ (origin # Absent /\ push = origin.push)
                             /\ Identify(scan.fetch, push, scan'.repo)
                             /\ \A url \in scan.fetch \cup push : url.plain
  OBVIOUS
<1>2. PICK push : \E r \in Repo : \E broken \in BOOLEAN :
        /\ push = {} \/ (origin # Absent /\ push = origin.push)
        /\ Identify(scan.fetch, push, r)
        /\ broken <=> \E url \in scan.fetch \cup push : ~url.plain
        /\ pc' = IF scan.profile = "upstream-public" THEN "login" ELSE "view"
        /\ scan' = [scan EXCEPT !.repo = r, !.findings = @ \cup If(broken, "remote")]
  BY <1>1, PushUrlsShape
<1>3. PICK r \in Repo, broken \in BOOLEAN :
        /\ push = {} \/ (origin # Absent /\ push = origin.push)
        /\ Identify(scan.fetch, push, r)
        /\ broken <=> \E url \in scan.fetch \cup push : ~url.plain
        /\ pc' = IF scan.profile = "upstream-public" THEN "login" ELSE "view"
        /\ scan' = [scan EXCEPT !.repo = r, !.findings = @ \cup If(broken, "remote")]
  BY <1>2
<1>4. /\ scan' \in Scan /\ SameArgs /\ scan'.repo = r /\ scan'.todo = {}
      /\ scan'.findings = scan.findings \cup If(broken, "remote")
  BY <1>0, <1>3, IfType DEF Scan, SameArgs, Finding
<1>5. "remote" \notin scan'.findings => ~broken
  BY <1>4 DEF If
<1>6. TypeOK'
  BY <1>0, <1>3, <1>4, Stepped DEF FileSteps, RemoteSteps
<1>7. scan'.findings \in SUBSET Finding
  BY <1>4 DEF Scan, Finding
<1> QED BY <1>3, <1>4, <1>5, <1>6, <1>7

LEMMA GetLoginTyped ==
    ASSUME TypeOK, GetLogin
    PROVE  \/ Return({"remote"})
           \/ /\ TypeOK' /\ SameArgs /\ pc' = "view" /\ scan'.repo = scan.repo
              /\ "remote" \notin scan'.findings =>
                     "remote" \notin scan.findings /\ scan.repo \in Own \cap Named
<1>0. /\ scan \in Scan /\ scan.todo = {} /\ slipped \in SUBSET Path /\ scan.repo \in Repo
      /\ UNCHANGED <<world, slipped>>
  BY DEF TypeOK, GetLogin, RemoteSteps
<1>1. SUFFICES ASSUME ~Return({"remote"})
               PROVE  /\ TypeOK' /\ SameArgs /\ pc' = "view" /\ scan'.repo = scan.repo
                      /\ "remote" \notin scan'.findings =>
                             "remote" \notin scan.findings /\ scan.repo \in Own \cap Named
  OBVIOUS
<1>2. PICK wrong \in BOOLEAN :
        /\ wrong <=> scan.repo \notin Own \cap Named
        /\ pc' = "view"
        /\ scan' = [scan EXCEPT !.findings = @ \cup If(wrong, "remote")]
  BY <1>1, Zenon DEF GetLogin
<1>3. /\ scan' \in Scan /\ SameArgs /\ scan'.repo = scan.repo /\ scan'.todo = {}
      /\ scan'.findings = scan.findings \cup If(wrong, "remote")
  BY <1>0, <1>2, IfType DEF Scan, SameArgs, Finding
<1>4. "remote" \notin scan'.findings => ~wrong /\ "remote" \notin scan.findings
  BY <1>3 DEF If
<1> QED BY <1>0, <1>2, <1>3, <1>4, Stepped DEF FileSteps, RemoteSteps

LEMMA ViewTyped ==
    ASSUME TypeOK, View
    PROVE  \/ Return({"remote"})
           \/ /\ TypeOK' /\ scan'.profile = scan.profile /\ scan'.staged = scan.staged
              /\ scan'.remote = scan.remote /\ scan'.repo = scan.repo
              /\ pc' \in {"safe", "blocked"}
              /\ scan'.verified \/ pc' = "safe" =>
                     /\ "remote" \notin scan.findings
                     /\ host[scan.repo] # Absent
                     /\ host[scan.repo].repo \in Expected
                     /\ host[scan.repo].visibility \in Wanted[scan.profile]
<1>0. /\ scan \in Scan /\ scan.todo = {} /\ slipped \in SUBSET Path /\ scan.repo \in Repo
      /\ UNCHANGED <<world, slipped>>
  BY DEF TypeOK, View, RemoteSteps
<1>1. CASE Return({"remote"})
  BY <1>1
<1>2. CASE ~Return({"remote"})
  <2> DEFINE answer == host[scan.repo]
             f == scan.findings \cup If(answer.repo \notin Expected, "remote")
                      \cup If(answer.visibility \notin Wanted[scan.profile], "remote")
  <2>1. /\ answer # Absent
        /\ scan' = [scan EXCEPT !.findings = f, !.verified = "remote" \notin f]
        /\ pc' = Verdict(f)
    BY <1>2, Zenon DEF View
  <2>2. f \in SUBSET Finding
    BY <1>0 DEF Scan, If, Finding
  <2>3. "remote" \notin f => /\ "remote" \notin scan.findings /\ answer.repo \in Expected
                             /\ answer.visibility \in Wanted[scan.profile]
    BY DEF If
  <2> HIDE DEF f
  <2>4. /\ scan' \in Scan /\ scan'.profile = scan.profile /\ scan'.staged = scan.staged
        /\ scan'.remote = scan.remote /\ scan'.repo = scan.repo /\ scan'.todo = {}
        /\ scan'.findings = f /\ scan'.verified = ("remote" \notin f)
    BY <1>0, <2>1, <2>2 DEF Scan, Finding
  <2>5. pc' \in {"safe", "blocked"} /\ (pc' = "safe" <=> f = {})
    BY <2>1, <2>2, VerdictType
  <2>6. TypeOK'
    BY <1>0, <2>4, <2>5, Stepped DEF FileSteps, RemoteSteps
  <2> QED BY <2>1, <2>3, <2>4, <2>5, <2>6
<1> QED BY <1>1, <1>2

LEMMA ListRemotesShape ==
    ASSUME ListRemotes
    PROVE  \/ pc' = "fetch" /\ UNCHANGED scan
           \/ Return({"remote"})
           \/ Return({}) /\ scan.profile = "workspace-local" /\ origin = Absent
<1>1. PICK ok \in BOOLEAN :
        IF ok /\ origin # Absent
        THEN pc' = "fetch" /\ UNCHANGED scan
        ELSE Return(If(~ok \/ scan.profile # "workspace-local", "remote"))
  BY DEF ListRemotes
<1>2. CASE ~ok \/ scan.profile # "workspace-local"
  <2>1. If(~ok \/ scan.profile # "workspace-local", "remote") = {"remote"}
    BY <1>2 DEF If
  <2> QED BY <1>1, <2>1
<1>3. CASE ok /\ scan.profile = "workspace-local"
  <2>1. If(~ok \/ scan.profile # "workspace-local", "remote") = {}
    BY <1>3 DEF If
  <2> QED BY <1>1, <1>3, <2>1
<1> QED BY <1>2, <1>3

LEMMA CheckRemoteTyped ==
    ASSUME TypeOK, CheckRemote
    PROVE  TypeOK'
<1>0. pc \in RemoteSteps /\ scan.todo = {} /\ UNCHANGED <<world, slipped>>
  BY InRemote
<1>1. ASSUME NEW finding \in SUBSET Finding, Return(finding) PROVE TypeOK'
  BY <1>0, <1>1, Returned
<1>2. ASSUME UNCHANGED scan, pc' \in {"remotes", "fetch"} PROVE TypeOK'
  BY <1>0, <1>2, Stepped DEF TypeOK, FileSteps, RemoteSteps
<1>3. CASE RemoteRoot
  BY <1>1, <1>2, <1>3 DEF RemoteRoot, Finding
<1>4. CASE ListRemotes
  <2>1. {} \in SUBSET Finding /\ {"remote"} \in SUBSET Finding
    BY DEF Finding
  <2> QED BY <1>1, <1>2, <1>4, <2>1, ListRemotesShape
<1>5. CASE GetFetchUrls
  BY <1>5, FetchUrlsTyped
<1>6. CASE GetPushUrls
  BY <1>1, <1>6, GetPushUrlsTyped DEF Finding
<1>7. CASE GetLogin
  BY <1>1, <1>7, GetLoginTyped DEF Finding
<1>8. CASE View
  BY <1>1, <1>8, ViewTyped DEF Finding
<1> QED BY <1>3, <1>4, <1>5, <1>6, <1>7, <1>8 DEF CheckRemote

(* Every variable keeps its type, and a scan that has passed has read all  *)
(* that it listed.                                                         *)
THEOREM ScanTypeCorrect == Spec => []TypeOK
<1>1. Init => TypeOK
  <2> SUFFICES ASSUME Init PROVE TypeOK
    OBVIOUS
  <2>1. scan \in Scan
    BY DEF Init, Scan, Effective, Profile
  <2>2. host \in [Repo -> Metadata \cup {Absent}] /\ file \in [Path -> Entry]
    BY ScanAssumption DEF Init
  <2> QED BY <2>1, <2>2, ScanAssumption DEF Init, TypeOK, FileSteps, RemoteSteps
<1>2. TypeOK /\ [Next]_vars => TypeOK'
  <2> SUFFICES ASSUME TypeOK, [Next]_vars PROVE TypeOK'
    OBVIOUS
  <2>1. CASE UNCHANGED vars
    BY <2>1 DEF vars, TypeOK
  <2> QED BY <2>1, WorldTyped, ScanFilesTyped, CheckRemoteTyped DEF Next
<1> QED BY <1>1, <1>2, PTL DEF Spec

-----------------------------------------------------------------------------
(* The remote. What the check has learnt at each of its steps was true at  *)
(* a moment of the scan, unless it has a finding.                          *)

Fetched(r) == \E o \in origins \ {Absent} : PlainlyName(o.fetch, r)

Pushed(r) == \E o \in origins \ {Absent} : PlainlyName(o.push, r)

Learnt ==
    /\ scan.profile = "workspace-private" => scan.remote
    /\ scan.verified => pc \in {"safe", "blocked"}
    /\ pc = "push" => scan.fetch = {} \/ \E o \in origins \ {Absent} : scan.fetch = o.fetch
    /\ pc \in {"login", "view"} /\ "remote" \notin scan.findings =>
           Fetched(scan.repo) /\ Pushed(scan.repo)
    /\ pc = "view" /\ scan.profile = "upstream-public" /\ "remote" \notin scan.findings =>
           scan.repo \in Own \cap Named
    /\ RemoteWasVerified

LEMMA NotVouched ==
    ASSUME pc \notin {"safe", "blocked"}, Learnt
    PROVE  ~scan.verified /\ ~Vouched
BY DEF Learnt, Vouched

LEMMA WorldLearnt ==
    ASSUME TypeOK, Learnt, Change, EditFiles \/ EditOrigin \/ EditHost
    PROVE  Learnt'
<1>1. /\ UNCHANGED <<pc, scan>> /\ pc \notin {"safe", "blocked"}
      /\ origins \subseteq origins'
  BY WorldTyped DEF Running, FileSteps, RemoteSteps
<1>2. ~Vouched'
  BY <1>1 DEF Learnt, Vouched
<1>3. /\ Fetched(scan.repo) => Fetched(scan.repo)'
      /\ Pushed(scan.repo) => Pushed(scan.repo)'
  BY <1>1 DEF Fetched, Pushed, PlainlyName
<1> QED BY <1>1, <1>2, <1>3 DEF Learnt, RemoteWasVerified

LEMMA FilesLearnt ==
    ASSUME TypeOK, Learnt, ScanFiles
    PROVE  Learnt'
<1>1. SameArgs /\ UNCHANGED world
  BY ScanFilesTyped DEF ScanFiles, FindRoot, ListStaged, ListCached, ListOthers, ReadIndex,
     ReadTree, ReadOther, Walk, EndFiles
<1>2. pc \in FileSteps /\ ~scan.verified
  BY DEF ScanFiles, FindRoot, ListStaged, ListCached, ListOthers, ReadIndex,
     ReadTree, ReadOther, Walk, EndFiles, FileSteps, Learnt
<1>3. pc' \in FileSteps \cup {"remoteRoot"} \/ (pc' \in {"safe", "blocked"} /\ ~scan.remote)
  <2>1. CASE EndFiles
    BY <2>1, VerdictType DEF EndFiles, AfterFiles, TypeOK, Scan, Finding
  <2> QED BY <1>2, <2>1 DEF ScanFiles, FindRoot, ListStaged, ListCached, ListOthers, ReadIndex,
          ReadTree, ReadOther, Walk, FileSteps
<1>4. ~Vouched'
  BY <1>1, <1>2, <1>3 DEF Vouched, SameArgs, Learnt, FileSteps
<1> QED BY <1>1, <1>2, <1>3, <1>4 DEF Learnt, RemoteWasVerified, SameArgs, FileSteps

LEMMA ReturnLearnt ==
    ASSUME TypeOK, Learnt, pc \in RemoteSteps, scan.todo = {}, UNCHANGED <<world, slipped>>,
           Return({"remote"})
    PROVE  Learnt'
<1>1. /\ scan' = [scan EXCEPT !.findings = scan.findings \cup {"remote"}]
      /\ pc' = "blocked"
  BY Returned DEF Finding
<1>2. /\ scan'.profile = scan.profile /\ scan'.remote = scan.remote
      /\ scan'.verified = scan.verified /\ ~scan.verified
  BY <1>1, NotVouched DEF TypeOK, Scan, RemoteSteps
<1>3. ~Vouched'
  BY <1>1, <1>2 DEF Vouched
<1> QED BY <1>1, <1>2, <1>3 DEF Learnt, RemoteWasVerified

LEMMA FoundLearnt ==
    ASSUME TypeOK, Learnt, RemoteRoot \/ ListRemotes
    PROVE  Learnt'
<1>0. /\ pc \in RemoteSteps /\ scan.todo = {} /\ UNCHANGED <<world, slipped>>
      /\ ~scan.verified /\ origin \in origins
  BY InRemote, NotVouched DEF CheckRemote, RemoteSteps, TypeOK
<1>1. CASE Return({"remote"})
  BY <1>0, <1>1, ReturnLearnt
<1>2. CASE UNCHANGED scan /\ pc' \in {"remotes", "fetch"}
  <2>1. ~Vouched'
    BY <1>0, <1>2 DEF Vouched
  <2> QED BY <1>0, <1>2, <2>1 DEF Learnt, RemoteWasVerified
<1>3. CASE Return({}) /\ scan.profile = "workspace-local" /\ origin = Absent
  <2>2. /\ scan' = [scan EXCEPT !.findings = scan.findings \cup {}]
        /\ pc' \in {"safe", "blocked"}
    BY <1>0, <1>3, Returned DEF Finding
  <2>3. /\ scan'.profile = scan.profile /\ scan'.remote = scan.remote
        /\ scan'.verified = scan.verified
    BY <2>2 DEF TypeOK, Scan
  <2>4. ~Vouched'
    BY <1>0, <1>3, <2>3 DEF Vouched, world
  <2> QED BY <2>2, <2>3, <2>4, <1>0 DEF Learnt, RemoteWasVerified
<1> QED BY <1>1, <1>2, <1>3, ListRemotesShape DEF RemoteRoot

LEMMA UrlsLearnt ==
    ASSUME TypeOK, Learnt, GetFetchUrls \/ GetPushUrls
    PROVE  Learnt'
<1>0. /\ pc \in RemoteSteps /\ scan.todo = {} /\ UNCHANGED <<world, slipped>>
      /\ ~scan.verified /\ origin \in origins /\ UNCHANGED <<origin, origins>>
  BY InRemote, NotVouched DEF CheckRemote, RemoteSteps, TypeOK, world
<1>1. CASE GetFetchUrls
  <2>1. /\ scan' = [scan EXCEPT !.fetch = scan'.fetch]
        /\ scan'.fetch # {} => origin # Absent /\ scan'.fetch = origin.fetch
    BY <1>1, FetchUrlsTyped
  <2>2. pc' = "push" /\ scan \in Scan
    BY <1>1 DEF GetFetchUrls, TypeOK
  <2>3. /\ scan'.profile = scan.profile /\ scan'.remote = scan.remote
        /\ scan'.verified = scan.verified
    BY <2>1, <2>2 DEF Scan
  <2>4. ~Vouched'
    BY <1>0, <2>2, <2>3 DEF Vouched
  <2> QED BY <1>0, <2>1, <2>2, <2>3, <2>4 DEF Learnt, RemoteWasVerified
<1>2. CASE GetPushUrls /\ Return({"remote"})
  BY <1>0, <1>2, ReturnLearnt
<1>3. CASE GetPushUrls /\ ~Return({"remote"})
  <2>1. /\ SameArgs /\ pc' \in {"login", "view"}
        /\ pc' = "view" => scan.profile # "upstream-public"
        /\ "remote" \notin scan'.findings => \E push :
               /\ push = {} \/ (origin # Absent /\ push = origin.push)
               /\ Identify(scan.fetch, push, scan'.repo)
               /\ \A url \in scan.fetch \cup push : url.plain
    BY <1>3, GetPushUrlsTyped
  <2>2. ~Vouched'
    BY <1>0, <2>1 DEF Vouched, SameArgs
  <2>3. ASSUME "remote" \notin scan'.findings
        PROVE  Fetched(scan.repo)' /\ Pushed(scan.repo)'
    <3>1. PICK push :
            /\ push = {} \/ (origin # Absent /\ push = origin.push)
            /\ Identify(scan.fetch, push, scan'.repo)
            /\ \A url \in scan.fetch \cup push : url.plain
      BY <2>1, <2>3
    <3>2. /\ push = origin.push /\ origin # Absent
          /\ PlainlyName(push, scan'.repo) /\ PlainlyName(scan.fetch, scan'.repo)
      BY <3>1 DEF Identify, PlainlyName
    <3>3. PICK o \in origins \ {Absent} : scan.fetch = o.fetch
      BY <1>3, <3>1 DEF Learnt, GetPushUrls, Identify
    <3> QED BY <1>0, <3>2, <3>3 DEF Fetched, Pushed, PlainlyName
  <2> QED BY <1>0, <2>1, <2>2, <2>3 DEF Learnt, RemoteWasVerified, SameArgs
<1> QED BY <1>1, <1>2, <1>3

LEMMA LoginLearnt ==
    ASSUME TypeOK, Learnt, GetLogin
    PROVE  Learnt'
<1>0. /\ pc = "login" /\ scan.todo = {} /\ UNCHANGED <<world, slipped>>
      /\ ~scan.verified /\ UNCHANGED origins
  BY InRemote, NotVouched DEF CheckRemote, GetLogin, world
<1>1. CASE Return({"remote"})
  BY <1>0, <1>1, ReturnLearnt DEF RemoteSteps
<1>2. CASE ~Return({"remote"})
  <2>1. /\ SameArgs /\ pc' = "view" /\ scan'.repo = scan.repo
        /\ "remote" \notin scan'.findings =>
               "remote" \notin scan.findings /\ scan.repo \in Own \cap Named
    BY <1>2, GetLoginTyped
  <2>2. ~Vouched'
    BY <1>0, <2>1 DEF Vouched, SameArgs
  <2> QED BY <1>0, <2>1, <2>2
          DEF Learnt, RemoteWasVerified, SameArgs, Fetched, Pushed, PlainlyName
<1> QED BY <1>1, <1>2

LEMMA ViewLearnt ==
    ASSUME TypeOK, Learnt, View
    PROVE  Learnt'
<1>0. /\ pc = "view" /\ scan.todo = {} /\ UNCHANGED <<world, slipped>> /\ scan.repo \in Repo
      /\ UNCHANGED <<origins, answers>> /\ host[scan.repo] \in answers[scan.repo]
  BY InRemote DEF CheckRemote, View, world, TypeOK
<1>1. CASE Return({"remote"})
  BY <1>0, <1>1, ReturnLearnt DEF RemoteSteps
<1>2. CASE ~Return({"remote"})
  <2>1. /\ scan'.profile = scan.profile /\ scan'.remote = scan.remote
        /\ pc' \in {"safe", "blocked"}
        /\ scan'.verified \/ pc' = "safe" =>
               /\ "remote" \notin scan.findings
               /\ host[scan.repo] # Absent
               /\ host[scan.repo].repo \in Expected
               /\ host[scan.repo].visibility \in Wanted[scan.profile]
    BY <1>2, ViewTyped
  <2>2. ASSUME Vouched' PROVE RemoteWasVerified'
    <3>1. /\ "remote" \notin scan.findings /\ host[scan.repo] # Absent
          /\ host[scan.repo].repo \in Expected
          /\ host[scan.repo].visibility \in Wanted[scan.profile]
      BY <2>1, <2>2 DEF Vouched
    <3>2. /\ Fetched(scan.repo) /\ Pushed(scan.repo)
          /\ scan.profile = "upstream-public" => scan.repo \in Own \cap Named
      BY <1>0, <3>1 DEF Learnt
    <3>3. host[scan.repo].repo = scan.repo
      BY <3>1, <3>2, ScanAssumption DEF Expected
    <3>4. host[scan.repo] \in answers[scan.repo] \ {Absent}
      BY <1>0, <3>1
    <3> QED BY <1>0, <2>1, <3>1, <3>2, <3>3, <3>4
            DEF RemoteWasVerified, Fetched, Pushed, PlainlyName, Wanted
  <2>3. RemoteWasVerified'
    BY <2>2 DEF RemoteWasVerified
  <2> QED BY <2>1, <2>3 DEF Learnt
<1> QED BY <1>1, <1>2

(* What the check of the remote has learnt was true at a moment of the     *)
(* scan, after every one of its steps.                                     *)
THEOREM ScanLearns == Spec => []Learnt
<1>1. Init => Learnt
  <2> SUFFICES ASSUME Init PROVE Learnt
    OBVIOUS
  <2>1. PICK profile \in Profile, staged \in BOOLEAN, asked \in BOOLEAN, inGit \in BOOLEAN :
           scan = [profile |-> profile, staged |-> staged,
                   remote |-> Effective(profile, asked), inGit |-> inGit,
                   walk |-> FALSE, indexed |-> {}, todo |-> {}, at |-> Absent,
                   fetch |-> {}, repo |-> Absent, findings |-> {}, verified |-> FALSE]
    BY DEF Init
  <2>2. scan.verified = FALSE /\ scan.profile = profile /\ scan.remote = Effective(profile, asked)
    BY <2>1
  <2>3. pc = "root" /\ (profile = "workspace-private" => Effective(profile, asked))
    BY DEF Init, Effective
  <2> QED BY <2>2, <2>3 DEF Learnt, RemoteWasVerified, Vouched
<1>2. TypeOK /\ Learnt /\ [Next]_vars => Learnt'
  <2> SUFFICES ASSUME TypeOK, Learnt, [Next]_vars PROVE Learnt'
    OBVIOUS
  <2>1. CASE UNCHANGED vars
    BY <2>1 DEF vars, Learnt, RemoteWasVerified, Vouched, Fetched, Pushed, PlainlyName, Wanted
  <2> QED BY <2>1, WorldLearnt, FilesLearnt, FoundLearnt, UrlsLearnt, LoginLearnt, ViewLearnt
          DEF Next, CheckRemote
<1> QED BY <1>1, <1>2, ScanTypeCorrect, PTL DEF Spec

(* A remote that a report calls verified, and the one behind a private     *)
(* workspace that passes, was one repository to fetch from and to push to, *)
(* and GitHub knew it under that name with the visibility asked for.       *)
THEOREM RemoteAlwaysVerified == Spec => []RemoteWasVerified
BY ScanLearns, PTL DEF Learnt

-----------------------------------------------------------------------------
(* The files. A path that the lists have left out, or that has been read   *)
(* without a finding, was fine at a moment of the scan.                    *)

StagedRead ==
    scan.staged /\ pc \notin {"root", "diff"} =>
        scan.todo \subseteq scan.indexed /\ \A p \in Path : p \in scan.todo \/ StagedFine(p)

WalkRead == scan.walk => \A p \in Path : p \in scan.todo \/ WalkFine(p)

(* The index entry of "at" has been read, its worktree file has not. *)
TreeRead(p) == TreeFine(p) \/ (pc = "tree" /\ scan.at = p)

FullRead ==
    ~scan.staged /\ ~scan.walk =>
        /\ pc = "others" => \A p \in Path \ scan.indexed : IndexFine(p)
        /\ pc \notin {"root", "cached", "others"} => \A p \in Path \ slipped :
               /\ p \in scan.todo \/ TreeRead(p)
               /\ p \in scan.todo \cap scan.indexed \/ IndexFine(p)

FilesRead ==
    /\ pc = "root" => ~scan.walk /\ scan.indexed = {}
    /\ pc = "diff" => scan.staged
    /\ pc \in {"cached", "others", "tree"} => ~scan.staged
    /\ pc \in {"diff", "cached", "others", "tree"} => ~scan.walk
    /\ scan.walk => ~scan.staged /\ scan.indexed = {}
    /\ "file" \notin scan.findings => StagedRead /\ WalkRead /\ FullRead

LEMMA FineLater ==
    ASSUME NEW p, entries[p] \subseteq entries'[p], scan'.profile = scan.profile
    PROVE  /\ StagedFine(p) => StagedFine(p)'
           /\ IndexFine(p) => IndexFine(p)'
           /\ TreeFine(p) => TreeFine(p)'
           /\ WalkFine(p) => WalkFine(p)'
BY DEF StagedFine, IndexFine, TreeFine, WalkFine, Accepted, PathFinding, ContentFinding

(* What a path is now counts. *)
LEMMA FineNow ==
    ASSUME TypeOK, NEW p \in Path
    PROVE  /\ ~Staged(file[p]) \/ Accepted(p, file[p].index) => StagedFine(p)
           /\ file[p].index = Absent \/ Accepted(p, file[p].index) => IndexFine(p)
           /\ \/ file[p].index = Absent /\ (file[p].tree = Absent \/ p \in Ignored)
              \/ Accepted(p, file[p].tree)
              => TreeFine(p)
           /\ p \in Skipped \/ file[p].tree = Absent \/ Accepted(p, file[p].tree)
              => WalkFine(p)
BY DEF TypeOK, StagedFine, IndexFine, TreeFine, WalkFine

(* A candidate without a finding could be read and was accepted. *)
LEMMA ReadAccepted ==
    ASSUME NEW p, NEW c, NEW content \in {c, Absent}, "file" \notin FileFinding(p, content)
    PROVE  Accepted(p, c)
BY DEF FileFinding, Accepted, ContentFinding

(* The steps that read no file: a change of the world, the end of the      *)
(* files and the check of the remote.                                      *)
LEMMA KeptRead ==
    ASSUME FilesRead, UNCHANGED slipped,
           scan'.profile = scan.profile, scan'.staged = scan.staged, scan'.walk = scan.walk,
           scan'.indexed = scan.indexed, scan'.todo = scan.todo, scan'.at = scan.at,
           scan.findings \subseteq scan'.findings,
           \A p \in Path : entries[p] \subseteq entries'[p],
           \/ pc' = pc
           \/ /\ pc \in {"files"} \cup RemoteSteps
              /\ pc' \in RemoteSteps \cup {"safe", "blocked"}
    PROVE  FilesRead'
<1>1. \A p \in Path : /\ StagedFine(p) => StagedFine(p)'
                      /\ IndexFine(p) => IndexFine(p)'
                      /\ TreeFine(p) => TreeFine(p)'
                      /\ WalkFine(p) => WalkFine(p)'
  BY FineLater
<1>2. ASSUME "file" \notin scan'.findings PROVE (StagedRead /\ WalkRead /\ FullRead)'
  <2>1. StagedRead /\ WalkRead /\ FullRead
    BY <1>2 DEF FilesRead
  <2>2. StagedRead'
    BY <1>1, <2>1 DEF StagedRead, RemoteSteps
  <2>3. WalkRead'
    BY <1>1, <2>1 DEF WalkRead
  <2>4. \A p \in Path : TreeRead(p) => TreeRead(p)'
    BY <1>1 DEF TreeRead, RemoteSteps
  <2>5. FullRead'
    BY <1>1, <2>1, <2>4 DEF FullRead, RemoteSteps
  <2> QED BY <2>2, <2>3, <2>5
<1> QED BY <1>2 DEF FilesRead, RemoteSteps

LEMMA RootRead ==
    ASSUME TypeOK, FilesRead, FindRoot
    PROVE  FilesRead'
<1>0. pc = "root" /\ scan \in Scan /\ ~scan.walk /\ scan.indexed = {}
  BY DEF FindRoot, FilesRead, TypeOK
<1>1. CASE pc' = (IF scan.staged THEN "diff" ELSE "cached") /\ UNCHANGED scan
  BY <1>0, <1>1 DEF FilesRead, StagedRead, WalkRead, FullRead
<1>2. CASE scan.staged /\ pc' = "files" /\ scan' = [scan EXCEPT !.findings = @ \cup {"file"}]
  <2>1. scan'.staged /\ ~scan'.walk /\ "file" \in scan'.findings
    BY <1>0, <1>2 DEF Scan
  <2> QED BY <1>2, <2>1 DEF FilesRead
<1>3. CASE /\ ~scan.staged /\ pc' = "files"
           /\ scan' = [scan EXCEPT !.walk = TRUE, !.todo = Path \ Skipped]
  <2>1. ~scan'.staged /\ scan'.walk /\ scan'.indexed = {} /\ scan'.todo = Path \ Skipped
    BY <1>0, <1>3 DEF Scan
  <2>2. \A p \in Path : p \in scan'.todo \/ WalkFine(p)'
    <3> SUFFICES ASSUME NEW p \in Path, p \in Skipped PROVE WalkFine(p)'
      BY <2>1
    <3> QED BY DEF WalkFine
  <2> QED BY <1>3, <2>1, <2>2 DEF FilesRead, StagedRead, WalkRead, FullRead
<1> QED BY <1>1, <1>2, <1>3 DEF FindRoot

LEMMA StagedListed ==
    ASSUME TypeOK, FilesRead, ListStaged
    PROVE  FilesRead'
<1>0. /\ pc = "diff" /\ pc' = "files" /\ scan \in Scan /\ scan.staged /\ ~scan.walk
      /\ \A p \in Path : entries'[p] = entries[p]
  BY DEF ListStaged, FilesRead, TypeOK, world
<1>1. PICK ok \in BOOLEAN :
        scan' = [Listed({p \in Path : ok /\ Staged(file[p])}) EXCEPT
                    !.indexed = {p \in Path : ok /\ Staged(file[p])},
                    !.findings = @ \cup If(~ok, "file")]
  BY DEF ListStaged
<1> DEFINE staged == {p \in Path : ok /\ Staged(file[p])}
<1>2. /\ scan'.staged /\ ~scan'.walk /\ scan'.profile = scan.profile
      /\ scan'.todo = staged \ Odd /\ scan'.indexed = staged
      /\ scan'.findings = scan.findings \cup If(staged \cap Odd # {}, "file") \cup If(~ok, "file")
  BY <1>0, <1>1 DEF Listed, Scan
<1>3. ASSUME "file" \notin scan'.findings
      PROVE  StagedRead'
  <2>1. ok /\ staged \cap Odd = {}
    BY <1>2, <1>3 DEF If
  <2>2. ASSUME NEW p \in Path, p \notin scan'.todo PROVE StagedFine(p)'
    <3>1. ~Staged(file[p])
      BY <1>2, <2>1, <2>2
    <3> QED BY <1>0, <1>2, <3>1, FineNow, FineLater
  <2> QED BY <1>2, <2>2 DEF StagedRead
<1> QED BY <1>0, <1>2, <1>3 DEF FilesRead, WalkRead, FullRead

LEMMA CachedListed ==
    ASSUME TypeOK, FilesRead, ListCached
    PROVE  FilesRead'
<1>0. /\ pc = "cached" /\ pc' = "others" /\ scan \in Scan /\ ~scan.staged /\ ~scan.walk
      /\ \A p \in Path : entries'[p] = entries[p]
  BY DEF ListCached, FilesRead, TypeOK, world
<1>1. PICK ok \in BOOLEAN :
        scan' = [scan EXCEPT !.indexed = {p \in Path : ok /\ file[p].index # Absent},
                             !.findings = @ \cup If(~ok, "file")]
  BY DEF ListCached
<1>2. /\ ~scan'.staged /\ ~scan'.walk /\ scan'.profile = scan.profile
      /\ scan'.indexed = {p \in Path : ok /\ file[p].index # Absent}
      /\ scan'.findings = scan.findings \cup If(~ok, "file")
  BY <1>0, <1>1 DEF Scan
<1>3. ASSUME "file" \notin scan'.findings, NEW p \in Path \ scan'.indexed
      PROVE  IndexFine(p)'
  <2>1. file[p].index = Absent
    BY <1>2, <1>3 DEF If
  <2> QED BY <1>0, <1>2, <2>1, FineNow, FineLater
<1> QED BY <1>0, <1>2, <1>3 DEF FilesRead, StagedRead, WalkRead, FullRead

LEMMA OthersListed ==
    ASSUME TypeOK, FilesRead, ListOthers
    PROVE  FilesRead'
<1>0. /\ pc = "others" /\ pc' = "files" /\ scan \in Scan /\ ~scan.staged /\ ~scan.walk
      /\ slipped' = {p \in Path : p \notin scan.indexed /\ file[p].index # Absent}
      /\ \A p \in Path : entries'[p] = entries[p]
  BY DEF ListOthers, FilesRead, TypeOK, world
<1>1. PICK ok \in BOOLEAN :
        scan' = [Listed(scan.indexed \cup
                    {p \in Path \ Ignored :
                        ok /\ file[p].index = Absent /\ file[p].tree # Absent}) EXCEPT
                    !.findings = @ \cup If(~ok, "file")]
  BY DEF ListOthers
<1> DEFINE others == {p \in Path \ Ignored :
                          ok /\ file[p].index = Absent /\ file[p].tree # Absent}
           listed == scan.indexed \cup others
<1>2. /\ ~scan'.staged /\ ~scan'.walk /\ scan'.profile = scan.profile
      /\ scan'.todo = listed \ Odd /\ scan'.indexed = scan.indexed
      /\ scan'.findings = scan.findings \cup If(listed \cap Odd # {}, "file") \cup If(~ok, "file")
  BY <1>0, <1>1 DEF Listed, Scan
<1>3. ASSUME "file" \notin scan'.findings, NEW p \in Path \ slipped'
      PROVE  /\ p \in scan'.todo \/ TreeRead(p)'
             /\ p \in scan'.todo \cap scan'.indexed \/ IndexFine(p)'
  <2>1. ok /\ listed \cap Odd = {} /\ "file" \notin scan.findings
    BY <1>2, <1>3 DEF If
  <2>2. \A q \in Path \ scan.indexed : IndexFine(q)
    BY <1>0, <2>1 DEF FilesRead, FullRead
  <2>3. CASE p \in scan.indexed
    BY <1>2, <2>1, <2>3
  <2>4. CASE p \notin scan.indexed
    <3>1. IndexFine(p)'
      BY <1>0, <1>2, <2>2, <2>4, FineLater
    <3>2. CASE p \in others
      BY <1>2, <2>1, <3>1, <3>2
    <3>3. CASE p \notin others
      <4>1. file[p].index = Absent /\ (file[p].tree = Absent \/ p \in Ignored)
        BY <1>0, <1>3, <2>1, <2>4, <3>3
      <4>2. TreeFine(p)'
        BY <1>0, <1>2, <4>1, FineNow, FineLater
      <4> QED BY <3>1, <4>2 DEF TreeRead
    <3> QED BY <3>2, <3>3
  <2> QED BY <2>3, <2>4
<1> QED BY <1>0, <1>2, <1>3 DEF FilesRead, StagedRead, WalkRead, FullRead

LEMMA IndexRead ==
    ASSUME TypeOK, FilesRead, NEW p \in Path, ReadIndex(p)
    PROVE  FilesRead'
<1>0. /\ pc = "files" /\ pc' = (IF scan.staged THEN "files" ELSE "tree") /\ scan \in Scan
      /\ p \in scan.todo \cap scan.indexed /\ UNCHANGED slipped
      /\ \A q \in Path : entries'[q] = entries[q]
  BY DEF ReadIndex, TypeOK, world
<1>1. PICK content \in {file[p].index, Absent} :
        scan' = [scan EXCEPT !.todo = @ \ {p}, !.at = p,
                             !.findings = @ \cup FileFinding(p, content)]
  BY DEF ReadIndex
<1>2. /\ scan'.staged = scan.staged /\ scan'.walk = scan.walk /\ scan'.profile = scan.profile
      /\ scan'.todo = scan.todo \ {p} /\ scan'.indexed = scan.indexed /\ scan'.at = p
      /\ scan'.findings = scan.findings \cup FileFinding(p, content)
  BY <1>0, <1>1 DEF Scan
<1>3. ~scan.walk
  BY <1>0 DEF FilesRead
<1>4. ASSUME "file" \notin scan'.findings
      PROVE  StagedRead' /\ FullRead'
  <2>1. Accepted(p, file[p].index) /\ "file" \notin scan.findings
    BY <1>2, <1>4, ReadAccepted
  <2>2. StagedFine(p)' /\ IndexFine(p)'
    BY <1>0, <1>2, <2>1, FineNow, FineLater
  <2>3. /\ \A q \in Path : StagedFine(q) => StagedFine(q)'
        /\ \A q \in Path : IndexFine(q) => IndexFine(q)'
        /\ \A q \in Path : TreeFine(q) => TreeFine(q)'
    BY <1>0, <1>2, FineLater
  <2>4. StagedRead /\ FullRead
    BY <2>1 DEF FilesRead
  <2>5. StagedRead'
    BY <1>0, <1>2, <1>3, <2>2, <2>3, <2>4 DEF StagedRead
  <2>6. ASSUME ~scan.staged, NEW q \in Path \ slipped'
        PROVE  /\ q \in scan'.todo \/ TreeRead(q)'
               /\ q \in scan'.todo \cap scan'.indexed \/ IndexFine(q)'
    <3>1. /\ q \in scan.todo \/ TreeFine(q)
          /\ q \in scan.todo \cap scan.indexed \/ IndexFine(q)
      BY <1>0, <1>3, <2>4, <2>6 DEF FullRead, TreeRead
    <3>2. pc' = "tree"
      BY <1>0, <2>6
    <3> QED BY <1>2, <2>2, <2>3, <3>1, <3>2 DEF TreeRead
  <2>7. FullRead'
    BY <1>0, <1>2, <2>6 DEF FullRead
  <2> QED BY <2>5, <2>7
<1> QED BY <1>0, <1>2, <1>3, <1>4 DEF FilesRead, WalkRead

LEMMA TreeReadStep ==
    ASSUME TypeOK, FilesRead, ReadTree
    PROVE  FilesRead'
<1>0. /\ pc = "tree" /\ pc' = "files" /\ scan \in Scan /\ UNCHANGED slipped
      /\ scan.at \in Path /\ ~scan.staged /\ ~scan.walk
      /\ \A q \in Path : entries'[q] = entries[q]
  BY DEF ReadTree, TypeOK, world, FilesRead, Scan
<1>1. PICK content \in {file[scan.at].tree, Absent} :
        scan' = [scan EXCEPT !.findings = @ \cup FileFinding(scan.at, content)]
  BY DEF ReadTree
<1>2. /\ scan'.staged = scan.staged /\ scan'.walk = scan.walk /\ scan'.profile = scan.profile
      /\ scan'.todo = scan.todo /\ scan'.indexed = scan.indexed
      /\ scan'.findings = scan.findings \cup FileFinding(scan.at, content)
  BY <1>0, <1>1 DEF Scan
<1>3. ASSUME "file" \notin scan'.findings, NEW q \in Path \ slipped'
      PROVE  /\ q \in scan'.todo \/ TreeRead(q)'
             /\ q \in scan'.todo \cap scan'.indexed \/ IndexFine(q)'
  <2>1. Accepted(scan.at, file[scan.at].tree) /\ "file" \notin scan.findings
    BY <1>2, <1>3, ReadAccepted
  <2>2. TreeFine(scan.at)
    BY <1>0, <2>1, FineNow
  <2>3. /\ q \in scan.todo \/ TreeFine(q)
        /\ q \in scan.todo \cap scan.indexed \/ IndexFine(q)
    BY <1>0, <1>3, <2>1, <2>2 DEF FilesRead, FullRead, TreeRead
  <2> QED BY <1>0, <1>2, <2>3, FineLater DEF TreeRead
<1> QED BY <1>0, <1>2, <1>3 DEF FilesRead, StagedRead, WalkRead, FullRead

LEMMA OtherRead ==
    ASSUME TypeOK, FilesRead, NEW p \in Path, ReadOther(p)
    PROVE  FilesRead'
<1>0. /\ pc = "files" /\ pc' = "files" /\ scan \in Scan /\ UNCHANGED slipped
      /\ p \in scan.todo \ scan.indexed /\ ~scan.walk
      /\ \A q \in Path : entries'[q] = entries[q]
  BY DEF ReadOther, TypeOK, world
<1>1. PICK content \in {file[p].tree, Absent} :
        scan' = [scan EXCEPT !.todo = @ \ {p}, !.findings = @ \cup FileFinding(p, content)]
  BY DEF ReadOther
<1>2. /\ scan'.staged = scan.staged /\ scan'.walk = scan.walk /\ scan'.profile = scan.profile
      /\ scan'.todo = scan.todo \ {p} /\ scan'.indexed = scan.indexed
      /\ scan'.findings = scan.findings \cup FileFinding(p, content)
  BY <1>0, <1>1 DEF Scan
<1>3. ASSUME "file" \notin scan'.findings
      PROVE  ~scan.staged /\ FullRead'
  <2>1. Accepted(p, file[p].tree) /\ "file" \notin scan.findings
    BY <1>2, <1>3, ReadAccepted
  <2>2. TreeFine(p)
    BY <1>0, <2>1, FineNow
  <2>3. ~scan.staged
    BY <1>0, <2>1 DEF FilesRead, StagedRead
  <2>4. ASSUME NEW q \in Path \ slipped'
        PROVE  /\ q \in scan'.todo \/ TreeRead(q)'
               /\ q \in scan'.todo \cap scan'.indexed \/ IndexFine(q)'
    <3>1. /\ q \in scan.todo \/ TreeFine(q)
          /\ q \in scan.todo \cap scan.indexed \/ IndexFine(q)
      BY <1>0, <2>1, <2>3, <2>4 DEF FilesRead, FullRead, TreeRead
    <3>2. (TreeFine(q) => TreeFine(q)') /\ (IndexFine(q) => IndexFine(q)')
      BY <1>0, <1>2, FineLater
    <3> QED BY <1>0, <1>2, <2>2, <3>1, <3>2 DEF TreeRead
  <2> QED BY <1>0, <1>2, <2>3, <2>4 DEF FullRead
<1> QED BY <1>0, <1>2, <1>3 DEF FilesRead, StagedRead, WalkRead

LEMMA Walked ==
    ASSUME TypeOK, FilesRead, NEW p \in Path, Walk(p)
    PROVE  FilesRead'
<1>0. /\ pc = "files" /\ pc' = "files" /\ scan \in Scan /\ UNCHANGED slipped
      /\ p \in scan.todo /\ scan.walk /\ ~scan.staged /\ scan.indexed = {}
      /\ \A q \in Path : entries'[q] = entries[q]
  BY DEF Walk, TypeOK, world, FilesRead
<1>1. \/ file[p].tree = Absent /\ scan' = [scan EXCEPT !.todo = @ \ {p}]
      \/ \E content \in {file[p].tree, Absent} :
             scan' = [scan EXCEPT !.todo = @ \ {p}, !.findings = @ \cup FileFinding(p, content)]
  BY DEF Walk
<1>2. /\ scan'.staged = scan.staged /\ scan'.walk = scan.walk /\ scan'.profile = scan.profile
      /\ scan'.todo = scan.todo \ {p} /\ scan'.indexed = {}
      /\ "file" \notin scan'.findings =>
             "file" \notin scan.findings /\ (file[p].tree = Absent \/ Accepted(p, file[p].tree))
  <2>1. CASE file[p].tree = Absent /\ scan' = [scan EXCEPT !.todo = @ \ {p}]
    BY <1>0, <2>1 DEF Scan
  <2>2. ASSUME NEW content \in {file[p].tree, Absent},
               scan' = [scan EXCEPT !.todo = @ \ {p}, !.findings = @ \cup FileFinding(p, content)]
        PROVE  <1>2!:
    BY <1>0, <2>2, ReadAccepted DEF Scan
  <2> QED BY <1>1, <2>1, <2>2
<1>3. ASSUME "file" \notin scan'.findings
      PROVE  WalkRead'
  <2>1. WalkFine(p) /\ WalkRead
    BY <1>0, <1>2, <1>3, FineNow DEF FilesRead
  <2>2. \A q \in Path : WalkFine(q) => WalkFine(q)'
    BY <1>0, <1>2, FineLater
  <2> QED BY <1>0, <1>2, <2>1, <2>2 DEF WalkRead
<1> QED BY <1>0, <1>2, <1>3 DEF FilesRead, StagedRead, FullRead

(* The steps of the remote check add to what was found and leave what was  *)
(* read of the files as it was.                                            *)
Kept ==
    /\ scan'.profile = scan.profile /\ scan'.staged = scan.staged
    /\ scan'.walk = scan.walk /\ scan'.indexed = scan.indexed
    /\ scan'.todo = scan.todo /\ scan'.at = scan.at
    /\ scan.findings \subseteq scan'.findings

LEMMA RemoteKept ==
    ASSUME TypeOK, CheckRemote
    PROVE  Kept
<1>0. scan \in Scan
  BY DEF TypeOK
<1>1. ASSUME UNCHANGED scan PROVE Kept
  BY <1>1 DEF Kept
<1>2. ASSUME NEW f, scan' = [scan EXCEPT !.findings = scan.findings \cup f] PROVE Kept
  BY <1>0, <1>2 DEF Kept, Scan
<1>3. ASSUME NEW f, Return(f) PROVE Kept
  BY <1>2, <1>3 DEF Return
<1>4. CASE RemoteRoot
  BY <1>1, <1>3, <1>4 DEF RemoteRoot
<1>5. CASE ListRemotes
  BY <1>1, <1>3, <1>5, ListRemotesShape
<1>6. CASE GetFetchUrls
  <2>1. scan' = [scan EXCEPT !.fetch = scan'.fetch]
    BY <1>6, FetchUrlsTyped
  <2> DEFINE u == scan'.fetch
  <2> HIDE DEF u
  <2>2. scan' = [scan EXCEPT !.fetch = u]
    BY <2>1 DEF u
  <2> QED BY <1>0, <2>2 DEF Kept, Scan
<1>7. CASE GetPushUrls
  <2>1. ASSUME NEW r, NEW f, scan' = [scan EXCEPT !.repo = r, !.findings = @ \cup f] PROVE Kept
    BY <1>0, <2>1 DEF Kept, Scan
  <2>2. Return({"remote"}) \/ \E r, f : scan' = [scan EXCEPT !.repo = r, !.findings = @ \cup f]
    BY <1>7, PushUrlsShape
  <2> QED BY <1>3, <2>1, <2>2
<1>8. CASE GetLogin
  <2>1. Return({"remote"}) \/ \E f : scan' = [scan EXCEPT !.findings = @ \cup f]
    BY <1>8, Zenon DEF GetLogin
  <2> QED BY <1>2, <1>3, <2>1
<1>9. CASE View
  <2>1. ASSUME NEW f, NEW g, NEW v,
               scan' = [scan EXCEPT !.findings = scan.findings \cup f \cup g, !.verified = v]
        PROVE  Kept
    BY <1>0, <2>1 DEF Kept, Scan
  <2> DEFINE f == If(host[scan.repo].repo \notin Expected, "remote")
             g == If(host[scan.repo].visibility \notin Wanted[scan.profile], "remote")
  <2>2. \/ Return({"remote"})
        \/ scan' = [scan EXCEPT !.findings = scan.findings \cup f \cup g,
                                !.verified = "remote" \notin scan.findings \cup f \cup g]
    BY <1>9, Zenon DEF View
  <2> DEFINE v == "remote" \notin scan.findings \cup f \cup g
  <2>3. Return({"remote"}) \/ scan' = [scan EXCEPT !.findings = scan.findings \cup f \cup g,
                                                  !.verified = v]
    BY <2>2
  <2> HIDE DEF f, g, v
  <2> QED BY <1>3, <2>1, <2>3
<1> QED BY <1>4, <1>5, <1>6, <1>7, <1>8, <1>9 DEF CheckRemote

(* Where the remote check goes from one of its steps. *)
LEMMA RemoteGoes ==
    ASSUME TypeOK, CheckRemote
    PROVE  pc' \in RemoteSteps \cup {"safe", "blocked"}
<1>1. ASSUME NEW f, Return(f) PROVE pc' \in {"safe", "blocked"}
  BY <1>1 DEF Return, Verdict
<1>2. CASE RemoteRoot \/ ListRemotes
  BY <1>1, <1>2, ListRemotesShape DEF RemoteRoot, RemoteSteps
<1>3. CASE GetFetchUrls
  BY <1>3 DEF GetFetchUrls, RemoteSteps
<1>4. CASE GetPushUrls
  BY <1>1, <1>4, PushUrlsShape DEF RemoteSteps
<1>5. CASE GetLogin
  BY <1>1, <1>5, GetLoginTyped DEF RemoteSteps
<1>6. CASE View
  BY <1>1, <1>6, ViewTyped
<1> QED BY <1>2, <1>3, <1>4, <1>5, <1>6 DEF CheckRemote

(* After every step, a path that is not still to be read, and of which     *)
(* nothing was found, was as the profile allows it at a moment of the      *)
(* scan.                                                                   *)
THEOREM ScanReads == Spec => []FilesRead
<1>1. Init => FilesRead
  <2> SUFFICES ASSUME Init PROVE FilesRead
    OBVIOUS
  <2>1. PICK profile \in Profile, staged \in BOOLEAN, asked \in BOOLEAN, inGit \in BOOLEAN :
           scan = [profile |-> profile, staged |-> staged,
                   remote |-> Effective(profile, asked), inGit |-> inGit,
                   walk |-> FALSE, indexed |-> {}, todo |-> {}, at |-> Absent,
                   fetch |-> {}, repo |-> Absent, findings |-> {}, verified |-> FALSE]
    BY DEF Init
  <2>2. scan.walk = FALSE /\ scan.indexed = {}
    BY <2>1
  <2>3. pc = "root"
    BY DEF Init
  <2> QED BY <2>2, <2>3 DEF FilesRead, StagedRead, WalkRead, FullRead
<1>2. TypeOK /\ FilesRead /\ [Next]_vars => FilesRead'
  <2> SUFFICES ASSUME TypeOK, FilesRead, [Next]_vars PROVE FilesRead'
    OBVIOUS
  <2>1. CASE UNCHANGED vars
    BY <2>1, KeptRead DEF vars
  <2>2. CASE Change /\ (EditFiles \/ EditOrigin \/ EditHost)
    BY <2>2, WorldTyped, KeptRead
  <2>3. CASE CheckRemote
    BY <2>3, InRemote, RemoteKept, RemoteGoes, KeptRead DEF Kept, world
  <2>4. CASE EndFiles
    <3>1. pc = "files" /\ pc' \in RemoteSteps \cup {"safe", "blocked"}
      BY <2>4 DEF EndFiles, AfterFiles, Verdict, RemoteSteps
    <3> QED BY <2>4, <3>1, KeptRead DEF EndFiles, world
  <2> QED BY <2>1, <2>2, <2>3, <2>4, RootRead, StagedListed, CachedListed, OthersListed,
             IndexRead, TreeReadStep, OtherRead, Walked DEF Next, ScanFiles
<1> QED BY <1>1, <1>2, ScanTypeCorrect, PTL DEF Spec

(* A path that a scan lets pass was as the profile allows it at a moment   *)
(* of the scan, in what the scan looks at (the index, the index and the    *)
(* worktree, or, walking, the worktree), unless it entered the index       *)
(* between the two listings.                                               *)
THEOREM AlwaysSafeWasClean == Spec => []SafeWasClean
<1>1. TypeOK /\ FilesRead => SafeWasClean
  <2> SUFFICES ASSUME TypeOK, FilesRead, pc = "safe" PROVE SafeWasClean
    BY DEF SafeWasClean
  <2>1. scan.todo = {} /\ "file" \notin scan.findings
    BY DEF TypeOK
  <2> QED BY <2>1 DEF FilesRead, StagedRead, WalkRead, FullRead, TreeRead, SafeWasClean
<1> QED BY <1>1, ScanReads, ScanTypeCorrect, PTL
=============================================================================
