--------------------------- MODULE ReleaseBuildProofs ---------------------------
(***************************************************************************)
(* Safety of the release builder, for any sources, builds and edits.       *)
(***************************************************************************)
EXTENDS ReleaseBuild, TLAPS

LEMMA OrderFacts ==
    /\ Len(Order) \in Nat
    /\ \A k \in 1 .. Len(Order) : Order[k] \in Item
    /\ \A i \in Item : \E k \in 1 .. Len(Order) : Order[k] = i
    /\ Requirements \in Item
BY BuildAssumption DEF Item, Range

LEMMA ContentValue ==
    ASSUME NEW c \in Content, NEW i \in Item
    PROVE  c[i] \in Nat
BY DEF Content

LEMMA TypeFacts ==
    /\ Content \subseteq File /\ Sbom \subseteq File /\ {Absent, Partial} \subseteq File
    /\ Absent \notin Content \cup Sbom /\ Partial \notin Content \cup Sbom
    /\ Unread \in Content /\ Nothing \in [Part -> File]
    /\ \A c \in Content, i \in Item, n \in Nat : c[i] \in Nat /\ [c EXCEPT ![i] = n] \in Content
    /\ \A c \in Content, n \in Nat : [of |-> c, deps |-> n] \in Sbom
BY BuildAssumption DEF Content, Sbom, File, Unread, Nothing

LEMMA NewRunFacts ==
    ASSUME NEW repro \in BOOLEAN, NEW dir \in Dir
    PROVE  /\ NewRun(repro, dir) \in [repro : BOOLEAN, dir : Dir, read : Content,
                                     next : Nat \ {0}, deps : Nat, part : Part]
           /\ NewRun(repro, dir).next <= Len(Order) + 1
BY TypeFacts, OrderFacts DEF NewRun, Part

(* Writing one file changes that file only.                                *)
LEMMA SetFileEffect ==
    ASSUME out \in [Dir -> [Part -> File]], NEW d \in Dir, NEW part \in Part, NEW c,
           SetFile(d, part, c)
    PROVE  /\ out'[d][part] = c
           /\ \A e \in Dir, p \in Part : e # d \/ p # part => out'[e][p] = out[e][p]
           /\ \A e \in Dir : e # d => out'[e] = out[e]
           /\ c \in File => out' \in [Dir -> [Part -> File]]
BY DEF SetFile

(* Every step keeps the types.                                             *)
LEMMA TypeStep ==
    ASSUME TypeOK, FilesInv, [Next]_vars
    PROVE  TypeOK'
<1> USE DEF TypeOK, Steps, Dir, Part
<1>1. CASE \E repro \in BOOLEAN : Launch(repro)
  <2> SUFFICES ASSUME NEW repro \in BOOLEAN, Launch(repro)
               PROVE  TypeOK'
    BY <1>1
  <2>1. /\ run' \in [repro : BOOLEAN, dir : Dir, read : Content, next : Nat \ {0},
                     deps : Nat, part : Part]
        /\ run'.next <= Len(Order) + 1
    BY NewRunFacts DEF Launch
  <2> QED
    BY <2>1 DEF Launch, Goto
<1>2. CASE ReadSource
  <2>1. run.next \in 1 .. Len(Order)
    BY <1>2, OrderFacts DEF ReadSource
  <2>2. Order[run.next] \in Item /\ source[Order[run.next]] \in Nat
    BY <2>1, OrderFacts DEF Content
  <2>3. [run.read EXCEPT ![Order[run.next]] = source[Order[run.next]]] \in Content
    BY <2>2 DEF Content
  <2>4. run.next + 1 \in Nat \ {0} /\ run.next + 1 <= Len(Order) + 1
    BY <2>1, OrderFacts
  <2> QED
    BY <1>2, <2>3, <2>4 DEF ReadSource
<1>3. CASE WriteArchive
  <2>1. run.read \in File /\ run.next > Len(Order)
    BY <1>3, TypeFacts DEF WriteArchive
  <2> QED
    BY <1>3, <2>1, SetFileEffect DEF WriteArchive, Write, Goto
<1>4. CASE Check
  <2>1. Archive \in Content
    BY <1>4 DEF Check, FilesInv, Built
  <2> QED
    BY <1>4, <2>1, TypeFacts DEF Check, Goto
<1>5. CASE OpenChecksum
  BY <1>5, OrderFacts, TypeFacts, SetFileEffect DEF OpenChecksum, Write, Goto
<1>6. CASE WriteChecksum
  <2>1. Archive \in Content
    BY <1>6 DEF WriteChecksum, FilesInv, Built
  <2> QED
    BY <1>6, <2>1, TypeFacts, SetFileEffect DEF WriteChecksum, Write, Goto
<1>7. CASE ReadRequirements
  BY <1>7, OrderFacts, TypeFacts DEF ReadRequirements, Goto
<1>8. CASE OpenSbom
  BY <1>8, OrderFacts, TypeFacts, SetFileEffect DEF OpenSbom, Write, Goto
<1>9. CASE WriteSbom
  <2>1. Archive \in Content
    BY <1>9 DEF WriteSbom, FilesInv, Built
  <2> QED
    BY <1>9, <2>1, TypeFacts, SetFileEffect DEF WriteSbom, Write, Goto
<1>10. CASE EndDirect
  BY <1>10, OrderFacts, TypeFacts DEF EndDirect, End, Goto
<1>11. CASE EndFirst
  <2>1. NewRun(TRUE, "second") \in [repro : BOOLEAN, dir : Dir, read : Content,
                                     next : Nat \ {0}, deps : Nat, part : Part]
        /\ NewRun(TRUE, "second").next <= Len(Order) + 1
    BY NewRunFacts
  <2> QED
    BY <1>11, <2>1 DEF EndFirst, Goto
<1>12. CASE Compare
  BY <1>12, OrderFacts, TypeFacts DEF Compare, Same, End, Goto
<1>13. CASE OpenCopy
  BY <1>13, OrderFacts, TypeFacts, SetFileEffect DEF OpenCopy, Goto
<1>14. CASE WriteCopy
  <2>1. Copied \in [Part -> File]
    BY TypeFacts DEF Copied
  <2>2. CASE run.part = "sbom"
    BY <1>14, <2>1, <2>2, TypeFacts DEF WriteCopy, End, Goto
  <2>3. CASE run.part # "sbom"
    BY <1>14, <2>1, <2>3 DEF WriteCopy, Goto
  <2> QED
    BY <2>2, <2>3
<1>15. CASE Fail
  BY <1>15, OrderFacts, TypeFacts DEF Fail, End, Goto
<1>16. CASE \E i \in Item : Edit(i)
  <2> SUFFICES ASSUME NEW i \in Item, Edit(i)
               PROVE  TypeOK'
    BY <1>16
  <2>1. source[i] + 1 \in Nat
    BY DEF Content
  <2>2. source' \in Content
    BY <2>1 DEF Edit, Content
  <2> QED
    BY <2>2 DEF Edit
<1>17. CASE UNCHANGED vars
  BY <1>17, OrderFacts, TypeFacts DEF vars, Goto
<1> QED
  BY <1>1, <1>2, <1>3, <1>4, <1>5, <1>6, <1>7, <1>8, <1>9, <1>10, <1>11, <1>12, <1>13,
       <1>14, <1>15, <1>16, <1>17 DEF Next, Build

(* Every file is what its step has made it.                                *)
LEMMA FilesStep ==
    ASSUME TypeOK, FilesInv, [Next]_vars
    PROVE  FilesInv'
<1> USE DEF TypeOK, FilesInv, Dir, Part, Steps, Built, Copying, Dist, Archive, Whole
<1>1. CASE \E repro \in BOOLEAN : Launch(repro)
  BY <1>1 DEF Launch, NewRun, Goto
<1>2. CASE ReadSource
  BY <1>2 DEF ReadSource, Goto
<1>3. CASE WriteArchive
  BY <1>3, SetFileEffect DEF WriteArchive, Write, Goto
<1>4. CASE Check
  BY <1>4 DEF Check, Goto
<1>5. CASE OpenChecksum
  BY <1>5, SetFileEffect DEF OpenChecksum, Write, Goto
<1>6. CASE WriteChecksum
  BY <1>6, SetFileEffect DEF WriteChecksum, Write, Goto
<1>7. CASE ReadRequirements
  BY <1>7 DEF ReadRequirements, Goto
<1>8. CASE OpenSbom
  BY <1>8, SetFileEffect DEF OpenSbom, Write, Goto
<1>9. CASE WriteSbom
  BY <1>9, SetFileEffect DEF WriteSbom, Write, Goto
<1>10. CASE EndDirect
  BY <1>10 DEF EndDirect, End, Goto
<1>11. CASE EndFirst
  <2>1. run'.repro = TRUE /\ run'.dir = "second" /\ run'.part = "archive"
    BY <1>11 DEF EndFirst, NewRun
  <2>2. Archive \in Content /\ Archive = run.read /\ run.dir = "first"
    BY <1>11 DEF EndFirst
  <2>3. [of |-> Archive, deps |-> run.deps] \in Sbom
    BY <2>2, TypeFacts
  <2>4. Whole("first")
    BY <1>11, <2>2, <2>3 DEF EndFirst
  <2> QED
    BY <1>11, <2>1, <2>4 DEF EndFirst, Goto
<1>12. CASE Compare
  BY <1>12 DEF Compare, Same, End, Goto
<1>13. CASE OpenCopy
  BY <1>13, SetFileEffect DEF OpenCopy, Goto
<1>14. CASE WriteCopy
  BY <1>14 DEF WriteCopy, Copied, End, Goto
<1>15. CASE Fail
  BY <1>15 DEF Fail, End, Goto
<1>16. CASE \E i \in Item : Edit(i)
  BY <1>16 DEF Edit, Goto
<1>17. CASE UNCHANGED vars
  BY <1>17 DEF vars, Goto
<1> QED
  BY <1>1, <1>2, <1>3, <1>4, <1>5, <1>6, <1>7, <1>8, <1>9, <1>10, <1>11, <1>12, <1>13,
       <1>14, <1>15, <1>16, <1>17 DEF Next, Build

(* What was read stays between the repository then and now.                *)
LEMMA ReadStep ==
    ASSUME TypeOK, FilesInv, ReadInv, [Next]_vars
    PROVE  ReadInv'
<1> USE DEF TypeOK, FilesInv, ReadInv, Dir, Part, Steps, Built, Copying, Dist, Archive,
     Whole
<1>1. CASE \E repro \in BOOLEAN : Launch(repro)
  <2> SUFFICES ASSUME NEW repro \in BOOLEAN, Launch(repro)
               PROVE  ReadInv'
    BY <1>1
  <2>1. run'.read = Unread /\ run'.dir # "second"
    BY DEF Launch, NewRun
  <2>2. \A i \in Item : Unread[i] = 0 /\ source[i] \in Nat
    BY ContentValue DEF Unread
  <2> QED
    BY <2>1, <2>2 DEF Launch, Goto
<1>2. CASE ReadSource
  <2>1. PICK i \in Item : i = Order[run.next]
    BY <1>2, OrderFacts DEF ReadSource
  <2>2. run' = [run EXCEPT !.read = [run.read EXCEPT ![i] = source[i]],
                       !.next = run.next + 1]
    BY <1>2, <2>1 DEF ReadSource
  <2>3. /\ run'.dir = run.dir /\ run'.next = run.next + 1
        /\ \A j \in Item : run'.read[j] = IF j = i THEN source[i] ELSE run.read[j]
    BY <2>1, <2>2 DEF Content
  <2>4. \A j \in Item : run'.read[j] <= source[j] /\ middle[j] <= source[j]
    BY <2>1, <2>3, ContentValue
  <2>5. ASSUME run.dir = "second", NEW k \in 1 .. Len(Order), k < run'.next
        PROVE  middle[Order[k]] <= run'.read[Order[k]]
    <3>1. Order[k] \in Item /\ (k < run.next \/ k = run.next)
      BY <2>1, <2>3, <2>5, OrderFacts
    <3>2. CASE Order[k] = i
      BY <2>1, <2>3, <3>2
    <3>3. CASE Order[k] # i
      <4>1. k < run.next
        BY <2>1, <3>1, <3>3
      <4>2. middle[Order[k]] <= run.read[Order[k]]
        BY <1>2, <2>5, <4>1 DEF ReadSource
      <4> QED
        BY <2>3, <3>1, <3>3, <4>2
    <3> QED
      BY <3>2, <3>3
  <2> QED
    BY <1>2, <2>3, <2>4, <2>5 DEF ReadSource
<1>3. CASE WriteArchive
  BY <1>3, OrderFacts, TypeFacts, SetFileEffect DEF WriteArchive, Write, Goto
<1>4. CASE Check
  BY <1>4, OrderFacts, TypeFacts DEF Check, Goto
<1>5. CASE OpenChecksum
  BY <1>5, OrderFacts, TypeFacts, SetFileEffect DEF OpenChecksum, Write, Goto
<1>6. CASE WriteChecksum
  BY <1>6, OrderFacts, TypeFacts, SetFileEffect DEF WriteChecksum, Write, Goto
<1>7. CASE ReadRequirements
  <2>1. /\ run'.deps = source[Requirements] /\ run'.read = run.read /\ run'.dir = run.dir
        /\ run'.next = run.next
    BY <1>7 DEF ReadRequirements
  <2>2. run.read[Requirements] <= source[Requirements] /\ source[Requirements] \in Nat
    BY OrderFacts, ContentValue
  <2> QED
    BY <1>7, <2>1, <2>2 DEF ReadRequirements, Goto
<1>8. CASE OpenSbom
  BY <1>8, OrderFacts, TypeFacts, SetFileEffect DEF OpenSbom, Write, Goto
<1>9. CASE WriteSbom
  BY <1>9, OrderFacts, TypeFacts, SetFileEffect DEF WriteSbom, Write, Goto
<1>10. CASE EndDirect
  BY <1>10, OrderFacts, TypeFacts DEF EndDirect, End, Goto
<1>11. CASE EndFirst
  <2>1. /\ run'.read = Unread /\ run'.dir = "second" /\ run'.next = 1
    BY <1>11 DEF EndFirst, NewRun
  <2>2. \A i \in Item : Unread[i] = 0 /\ source[i] \in Nat
    BY ContentValue DEF Unread
  <2>3. /\ out["first"]["archive"] = run.read
        /\ out["first"]["sbom"].deps = run.deps
        /\ run.read[Requirements] <= run.deps /\ run.deps <= source[Requirements]
    BY <1>11 DEF EndFirst
  <2>4. pc' = "collect" /\ out' = out /\ middle' = source /\ source' = source
    BY <1>11 DEF EndFirst, Goto
  <2> QED
    BY <2>1, <2>2, <2>3, <2>4, OrderFacts
<1>12. CASE Compare
  <2>1. CASE ~ Same
    BY <1>12, <2>1 DEF Compare, End, Goto
  <2>2. CASE Same
    <3>1. /\ out["first"]["archive"] = run.read
          /\ out["first"]["archive"] \in Content
          /\ pc = "end" /\ run.dir = "second"
      BY <1>12, <2>2 DEF Compare, Same
    <3>2. ASSUME NEW i \in Item PROVE run.read[i] = middle[i]
      <4>1. PICK k \in 1 .. Len(Order) : Order[k] = i
        BY OrderFacts
      <4>2. k < run.next
        BY <3>1, OrderFacts
      <4>3. middle[i] <= run.read[i] /\ run.read[i] <= middle[i]
        BY <3>1, <4>1, <4>2
      <4> QED
        BY <4>3, ContentValue
    <3>3. run.read = middle
      BY <3>2 DEF Content
    <3>4. out["first"]["sbom"].deps = middle[Requirements]
      <4>1. out["first"]["sbom"].deps \in Nat /\ middle[Requirements] \in Nat
        BY <3>1, OrderFacts, ContentValue DEF Sbom
      <4>2. /\ middle[Requirements] <= out["first"]["sbom"].deps
            /\ out["first"]["sbom"].deps <= middle[Requirements]
        BY <3>1, <3>3
      <4> QED
        BY <4>1, <4>2
    <3> QED
      BY <1>12, <2>2, <3>1, <3>3, <3>4 DEF Compare, Goto
  <2> QED
    BY <2>1, <2>2
<1>13. CASE OpenCopy
  BY <1>13, OrderFacts, TypeFacts, SetFileEffect DEF OpenCopy, Goto
<1>14. CASE WriteCopy
  <2>1. /\ pc = "writeCopy" /\ source' = source /\ middle' = middle /\ pc' \in {"idle", "copy"}
        /\ run'.read = run.read /\ run'.dir = run.dir /\ run'.next = run.next
        /\ pc' = "copy" => out'["first"] = out["first"]
    BY <1>14 DEF WriteCopy, End, Goto
  <2> QED
    BY <2>1
<1>15. CASE Fail
  BY <1>15, OrderFacts, TypeFacts DEF Fail, End, Goto
<1>16. CASE \E i \in Item : Edit(i)
  <2> SUFFICES ASSUME NEW i \in Item, Edit(i)
               PROVE  ReadInv'
    BY <1>16
  <2>1. \A j \in Item : source'[j] = IF j = i THEN source[j] + 1 ELSE source[j]
    BY DEF Edit, Content
  <2>2. \A j \in Item : source[j] <= source'[j] /\ source[j] \in Nat /\ source'[j] \in Nat
    BY <2>1, ContentValue
  <2>3. \A j \in Item : run.read[j] <= source'[j] /\ middle[j] <= source'[j]
    BY <2>2, ContentValue
  <2>4. run.deps <= source[Requirements] => run.deps <= source'[Requirements]
    BY <2>2, OrderFacts
  <2> QED
    BY <2>3, <2>4 DEF Edit
<1>17. CASE UNCHANGED vars
  BY <1>17, OrderFacts, TypeFacts DEF vars, Goto
<1> QED
  BY <1>1, <1>2, <1>3, <1>4, <1>5, <1>6, <1>7, <1>8, <1>9, <1>10, <1>11, <1>12, <1>13,
       <1>14, <1>15, <1>16, <1>17 DEF Next, Build

(* A build passes when everything is in its place.                         *)
LEMMA SuccessStep ==
    ASSUME TypeOK, FilesInv, SuccessIsTogether, [Next]_vars
    PROVE  SuccessIsTogether'
<1> USE DEF TypeOK, FilesInv, SuccessIsTogether, Dir, Part, Steps, Built, Copying, Dist,
     Archive, Whole
<1>1. CASE \E repro \in BOOLEAN : Launch(repro)
  BY <1>1 DEF Launch, NewRun, Goto
<1>2. CASE ReadSource
  BY <1>2 DEF ReadSource, Goto
<1>3. CASE WriteArchive
  BY <1>3, SetFileEffect DEF WriteArchive, Write, Goto
<1>4. CASE Check
  BY <1>4 DEF Check, Goto
<1>5. CASE OpenChecksum
  BY <1>5, SetFileEffect DEF OpenChecksum, Write, Goto
<1>6. CASE WriteChecksum
  BY <1>6, SetFileEffect DEF WriteChecksum, Write, Goto
<1>7. CASE ReadRequirements
  BY <1>7 DEF ReadRequirements, Goto
<1>8. CASE OpenSbom
  BY <1>8, SetFileEffect DEF OpenSbom, Write, Goto
<1>9. CASE WriteSbom
  BY <1>9, SetFileEffect DEF WriteSbom, Write, Goto
<1>10. CASE EndDirect
  <2>1. Archive \in Content /\ [of |-> Archive, deps |-> run.deps] \in Sbom
    BY <1>10, TypeFacts DEF EndDirect
  <2> QED
    BY <1>10, <2>1 DEF EndDirect, End, Goto
<1>11. CASE EndFirst
  BY <1>11 DEF EndFirst, NewRun, Goto
<1>12. CASE Compare
  BY <1>12 DEF Compare, Same, End, Goto
<1>13. CASE OpenCopy
  BY <1>13, SetFileEffect DEF OpenCopy, Goto
<1>14. CASE WriteCopy
  <2>1. CASE run.part = "sbom"
    <3>1. Copied["archive"] = Dist["archive"] /\ Copied["checksum"] = Dist["checksum"]
            /\ Copied["sbom"] = out["first"]["sbom"]
      BY <2>1 DEF Copied
    <3>2. out'["dist"] = Copied /\ Whole("first") /\ Dist["archive"] = out["first"]["archive"]
             /\ Dist["checksum"] = Dist["archive"]
      BY <1>14, <2>1 DEF WriteCopy, End
    <3> QED
      BY <3>1, <3>2
  <2>2. CASE run.part # "sbom"
    BY <1>14, <2>2 DEF WriteCopy
  <2> QED
    BY <2>1, <2>2
<1>15. CASE Fail
  BY <1>15 DEF Fail, End, Goto
<1>16. CASE \E i \in Item : Edit(i)
  BY <1>16 DEF Edit, Goto
<1>17. CASE UNCHANGED vars
  BY <1>17 DEF vars, Goto
<1> QED
  BY <1>1, <1>2, <1>3, <1>4, <1>5, <1>6, <1>7, <1>8, <1>9, <1>10, <1>11, <1>12, <1>13,
       <1>14, <1>15, <1>16, <1>17 DEF Next, Build

(* What is copied is the repository between the builds.                    *)
LEMMA SnapshotStep ==
    ASSUME TypeOK, FilesInv, ReadInv, ReproducibleIsSnapshot, [Next]_vars
    PROVE  ReproducibleIsSnapshot'
<1> USE DEF TypeOK, FilesInv, ReadInv, ReproducibleIsSnapshot, Dir, Part, Steps, Built,
     Copying, Dist, Archive, Whole
<1>1. CASE \E repro \in BOOLEAN : Launch(repro)
  BY <1>1 DEF Launch, NewRun, Goto
<1>2. CASE ReadSource
  BY <1>2 DEF ReadSource, Goto
<1>3. CASE WriteArchive
  BY <1>3, SetFileEffect DEF WriteArchive, Write, Goto
<1>4. CASE Check
  BY <1>4 DEF Check, Goto
<1>5. CASE OpenChecksum
  BY <1>5, SetFileEffect DEF OpenChecksum, Write, Goto
<1>6. CASE WriteChecksum
  BY <1>6, SetFileEffect DEF WriteChecksum, Write, Goto
<1>7. CASE ReadRequirements
  BY <1>7 DEF ReadRequirements, Goto
<1>8. CASE OpenSbom
  BY <1>8, SetFileEffect DEF OpenSbom, Write, Goto
<1>9. CASE WriteSbom
  BY <1>9, SetFileEffect DEF WriteSbom, Write, Goto
<1>10. CASE EndDirect
  BY <1>10 DEF EndDirect, End, Goto
<1>11. CASE EndFirst
  BY <1>11 DEF EndFirst, NewRun, Goto
<1>12. CASE Compare
  BY <1>12 DEF Compare, Same, End, Goto
<1>13. CASE OpenCopy
  BY <1>13, SetFileEffect DEF OpenCopy, Goto
<1>14. CASE WriteCopy
  BY <1>14 DEF WriteCopy, Copied, End, Goto
<1>15. CASE Fail
  BY <1>15 DEF Fail, End, Goto
<1>16. CASE \E i \in Item : Edit(i)
  BY <1>16 DEF Edit, Goto
<1>17. CASE UNCHANGED vars
  BY <1>17 DEF vars, Goto
<1> QED
  BY <1>1, <1>2, <1>3, <1>4, <1>5, <1>6, <1>7, <1>8, <1>9, <1>10, <1>11, <1>12, <1>13,
       <1>14, <1>15, <1>16, <1>17 DEF Next, Build

(* Only the copying steps of a reproducible build touch the output.        *)
LEMMA CopyStep ==
    ASSUME TypeOK, FilesInv, [Next]_vars
    PROVE  run.repro /\ out'["dist"] # Dist =>
               out["first"] = out["second"] /\ out["first"]["archive"] \in verified
<1> USE DEF TypeOK, FilesInv, Dir, Part, Steps, Built, Copying, Dist, Archive, Whole
<1>1. CASE \E repro \in BOOLEAN : Launch(repro)
  BY <1>1 DEF Launch, NewRun, Goto
<1>2. CASE ReadSource
  BY <1>2 DEF ReadSource, Goto
<1>3. CASE WriteArchive
  BY <1>3, SetFileEffect DEF WriteArchive, Write, Goto
<1>4. CASE Check
  BY <1>4 DEF Check, Goto
<1>5. CASE OpenChecksum
  BY <1>5, SetFileEffect DEF OpenChecksum, Write, Goto
<1>6. CASE WriteChecksum
  BY <1>6, SetFileEffect DEF WriteChecksum, Write, Goto
<1>7. CASE ReadRequirements
  BY <1>7 DEF ReadRequirements, Goto
<1>8. CASE OpenSbom
  BY <1>8, SetFileEffect DEF OpenSbom, Write, Goto
<1>9. CASE WriteSbom
  BY <1>9, SetFileEffect DEF WriteSbom, Write, Goto
<1>10. CASE EndDirect
  BY <1>10 DEF EndDirect, End, Goto
<1>11. CASE EndFirst
  BY <1>11 DEF EndFirst
<1>12. CASE Compare
  BY <1>12 DEF Compare, Same, End, Goto
<1>13. CASE OpenCopy
  BY <1>13, SetFileEffect DEF OpenCopy, Goto
<1>14. CASE WriteCopy
  BY <1>14 DEF WriteCopy, Copied, End, Goto
<1>15. CASE Fail
  BY <1>15 DEF Fail, End, Goto
<1>16. CASE \E i \in Item : Edit(i)
  BY <1>16 DEF Edit, Goto
<1>17. CASE UNCHANGED vars
  BY <1>17 DEF vars, Goto
<1> QED
  BY <1>1, <1>2, <1>3, <1>4, <1>5, <1>6, <1>7, <1>8, <1>9, <1>10, <1>11, <1>12, <1>13,
       <1>14, <1>15, <1>16, <1>17 DEF Next, Build

(* The invariants, from the first state on.                                *)
LEMMA BuildInvariant == Spec => []BuildInv
<1>1. ASSUME Init PROVE BuildInv
  <2>1. TypeOK
    <3>1. NewRun(FALSE, "dist") \in [repro : BOOLEAN, dir : Dir, read : Content,
                                    next : Nat \ {0}, deps : Nat, part : Part]
          /\ NewRun(FALSE, "dist").next <= Len(Order) + 1
      BY NewRunFacts DEF Dir
    <3> QED
      BY <1>1, <3>1, TypeFacts DEF Init, TypeOK, Steps
  <2>2. FilesInv
    BY <1>1 DEF Init, FilesInv, NewRun, Nothing, Dist, Archive, Built, Copying, Dir,
         Part
  <2>3. ReadInv
    BY <1>1 DEF Init, ReadInv, NewRun, Unread, Copying
  <2> QED
    BY <1>1, <2>1, <2>2, <2>3, BuildAssumption
       DEF Init, BuildInv, SuccessIsTogether, VouchedIsVerified, ReproducibleIsSnapshot,
           Dist, Nothing, Dir, Part
<1>2. BuildInv /\ [Next]_vars => BuildInv'
  <2> SUFFICES ASSUME BuildInv, [Next]_vars
               PROVE  BuildInv'
    OBVIOUS
  <2>1. TypeOK' /\ FilesInv' /\ ReadInv' /\ SuccessIsTogether' /\ ReproducibleIsSnapshot'
    BY TypeStep, FilesStep, ReadStep, SuccessStep, SnapshotStep DEF BuildInv
  <2>2. VouchedIsVerified'
    BY <2>1, BuildAssumption DEF FilesInv, VouchedIsVerified
  <2> QED
    BY <2>1, <2>2 DEF BuildInv
<1> QED
  BY <1>1, <1>2, PTL DEF Spec

-----------------------------------------------------------------------------
(* The builder's state keeps its types, and no build goes on to write      *)
(* before it has read all sources.                                         *)
THEOREM BuildTypeCorrect == Spec => []TypeOK
<1>1. BuildInv => TypeOK
  BY DEF BuildInv
<1> QED
  BY <1>1, BuildInvariant, PTL

(* After a build that passed, the three files of the output belong         *)
(* together, whatever older builds left.                                   *)
THEOREM SuccessAlwaysTogether == Spec => []SuccessIsTogether
<1>1. BuildInv => SuccessIsTogether
  BY DEF BuildInv
<1> QED
  BY <1>1, BuildInvariant, PTL

(* A checksum file never confirms an archive that was not checked.         *)
THEOREM VouchedAlwaysVerified == Spec => []VouchedIsVerified
<1>1. BuildInv => VouchedIsVerified
  BY DEF BuildInv
<1> QED
  BY <1>1, BuildInvariant, PTL

(* Building twice and comparing is a double collect: the archive and the   *)
(* SBOM are of one moment of the repository, for any edits meanwhile.      *)
THEOREM ReproducibleAlwaysSnapshot == Spec => []ReproducibleIsSnapshot
<1>1. BuildInv => ReproducibleIsSnapshot
  BY DEF BuildInv
<1> QED
  BY <1>1, BuildInvariant, PTL

(* Before two builds agree, a reproducible build leaves the output alone.  *)
THEOREM AlwaysAgreedBeforeCopied == Spec => AgreedBeforeCopied
<1>1. BuildInv /\ [Next]_vars =>
         [run.repro /\ out'["dist"] # Dist =>
             out["first"] = out["second"] /\ out["first"]["archive"] \in verified]_vars
  BY CopyStep DEF BuildInv
<1> QED
  BY <1>1, BuildInvariant, PTL DEF Spec, AgreedBeforeCopied
====================================================================================
