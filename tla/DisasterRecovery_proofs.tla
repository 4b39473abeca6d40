---------------------- MODULE DisasterRecovery_proofs ----------------------
(* Proofs about DisasterRecovery, for any files, accepters and sizes. *)
EXTENDS DisasterRecovery, TLAPS

---------------------------------------------------------------------------
(* The inductive invariant *)

SourceIsMoment == source \in moments

\* Only the artifact is left to the kernel to write: all else is synced.
DirtyIsStaged == dirty \subseteq {<<"staging", "artifact">>}

\* A manifest says one thing twice, and it is a state the source was in.
Sound(manifest) ==
  /\ manifest \in Manifest
  /\ manifest.digest \in moments
  /\ manifest.listing = manifest.digest

SignaturesSound == \A d \in Dir : Signed(d) => Sound(dirs[d]["signature"])

\* The artifact is the copy the stage holds, of one moment.
Packed == dirs["staging"]["artifact"] = stage.packed /\ stage.packed \in moments

\* The end of the walk lies between every digest of the walk and every read of tar.
WalkEnd(m) == \A f \in File :
  /\ stage.seen[f] <= m[f] /\ m[f] <= source[f]
  /\ f \notin stage.todo => m[f] <= stage.packed[f]

\* What the running stage knows, phase by phase.
StageSound ==
  /\ stage.phase # "idle" => dirs["staging"] # NoDir
  /\ stage.phase \in {"verifying", "comparing"} => kind = "evidence"
  /\ kind = "logs" /\ stage.phase = "reading" =>
       \A f \in File \ stage.todo : stage.seen[f] <= source[f]
  /\ kind = "logs" /\ stage.phase = "packing" => \E m \in moments : WalkEnd(m)
  /\ kind = "evidence" /\ stage.phase = "reading" =>
       /\ Packed
       /\ \A f \in File : stage.packed[f] <= source[f]
       /\ \A f \in File \ stage.todo :
            stage.packed[f] <= stage.seen[f] /\ stage.seen[f] <= source[f]
  /\ stage.phase \in {"verifying", "comparing"} =>
       /\ Packed
       /\ \A f \in File : stage.packed[f] <= stage.seen[f] /\ stage.seen[f] <= source[f]
       /\ \A f \in File \ stage.todo : stage.seen[f] = stage.packed[f]
  /\ stage.phase = "sealing" => Packed /\ stage.seen = stage.packed
  /\ stage.phase = "signing" => Sound(dirs["staging"]["manifest"])

Filling == {"copying", "checked"}

\* One accept at a time has current.next in hand, and what it has checked stays.
AcceptSound ==
  /\ \A a \in Accepter : accept[a] \in Filling => dirs["next"] # NoDir
  /\ \A a, b \in Accepter : accept[a] \in Filling /\ accept[b] \in Filling => a = b
  /\ \A a \in Accepter : accept[a] = "checked" => Verifies(dirs["next"])

Inv ==
  /\ TypeOK /\ SourceIsMoment /\ DirtyIsStaged /\ SignaturesSound
  /\ StageSound /\ AcceptSound /\ CurrentVerified

---------------------------------------------------------------------------
(* What single actions do *)

LEMMA IdleType ==
  /\ Nothing \in Snapshot
  /\ Idle \in [phase : {"idle"}, todo : SUBSET File, seen : Snapshot, packed : Snapshot]
  /\ Idle.phase = "idle"
BY DEF Nothing, Snapshot, Idle

LEMMA EmptyType ==
  /\ Empty \in [Name -> Contents]
  /\ Empty # NoDir
  /\ \A n \in Name : Empty[n] = Absent
BY ConstantsAssumption DEF Empty, Contents

\* Putting a file into a directory leaves the other files and directories.
LEMMA PutFile ==
  ASSUME TypeOK, NEW d \in Dir, dirs[d] # NoDir, NEW n \in Name, NEW c \in Contents,
         dirs' = [dirs EXCEPT ![d][n] = c]
  PROVE  /\ dirs' \in [Dir -> {NoDir} \cup [Name -> Contents]]
         /\ dirs'[d] # NoDir
         /\ dirs'[d][n] = c
         /\ \A k \in Name \ {n} : dirs'[d][k] = dirs[d][k]
         /\ \A e \in Dir \ {d} : dirs'[e] = dirs[e]
<1>1. dirs[d] \in [Name -> Contents]
  BY DEF TypeOK
<1>2. dirs'[d] = [dirs[d] EXCEPT ![n] = c]
  BY DEF TypeOK
<1>3. dirs'[d] \in [Name -> Contents]
  BY <1>1, <1>2
<1>4. dirs'[d] # NoDir
  BY <1>3, ConstantsAssumption
<1>5. \A e \in Dir \ {d} : dirs'[e] = dirs[e]
  BY DEF TypeOK
<1>6. dirs' \in [Dir -> {NoDir} \cup [Name -> Contents]]
  BY <1>3, <1>5 DEF TypeOK
<1>7. QED
  BY <1>1, <1>2, <1>4, <1>5, <1>6

\* A power loss can only tear the artifact in staging.
LEMMA SurvivesTyped ==
  ASSUME TypeOK, DirtyIsStaged, NEW torn \in SUBSET dirty, NEW d \in Dir
  PROVE  /\ Survives(d, torn) = NoDir <=> dirs[d] = NoDir
         /\ d # "staging" => Survives(d, torn) = dirs[d]
         /\ dirs[d] # NoDir =>
              /\ Survives(d, torn) \in [Name -> Contents]
              /\ Survives(d, torn)["artifact"] \in {Torn, dirs[d]["artifact"]}
              /\ Survives(d, torn)["manifest"] = dirs[d]["manifest"]
              /\ Survives(d, torn)["signature"] = dirs[d]["signature"]
<1>1. CASE dirs[d] = NoDir
  BY <1>1 DEF Survives
<1>2. CASE dirs[d] # NoDir
  <2>1. dirs[d] \in [Name -> Contents]
    BY <1>2 DEF TypeOK
  <2>2. Survives(d, torn) = [n \in Name |-> IF <<d, n>> \in torn THEN Torn ELSE dirs[d][n]]
    BY <1>2 DEF Survives
  <2>3. \A n \in Name : <<d, n>> \in torn => d = "staging" /\ n = "artifact"
    BY DEF DirtyIsStaged
  <2>4. Survives(d, torn) \in [Name -> Contents]
    BY <2>1, <2>2 DEF Contents
  <2>5. d # "staging" => Survives(d, torn) = dirs[d]
    BY <2>1, <2>2, <2>3
  <2>6. Survives(d, torn) # NoDir
    BY <2>4, ConstantsAssumption
  <2>7. \A n \in Name : n # "artifact" => Survives(d, torn)[n] = dirs[d][n]
    BY <2>2, <2>3
  <2>8. Survives(d, torn)["artifact"] \in {Torn, dirs[d]["artifact"]}
    BY <2>2 DEF Name
  <2>9. QED
    BY <1>2, <2>4, <2>5, <2>6, <2>7, <2>8 DEF Name
<1>3. QED
  BY <1>1, <1>2

\* What a power loss does, without the choice of what it tears.
LEMMA PowerLossDoes ==
  ASSUME TypeOK, DirtyIsStaged, PowerLoss
  PROVE  /\ dirs' \in [Dir -> {NoDir} \cup [Name -> Contents]]
         /\ dirs'["current"] \in {dirs["current"], NoDir}
         /\ dirs'["next"] \in {dirs["next"], dirs["current"]}
         /\ dirs'["staging"] = NoDir <=> dirs["staging"] = NoDir
         /\ dirs["staging"] # NoDir =>
              /\ dirs'["staging"]["artifact"] \in {Torn, dirs["staging"]["artifact"]}
              /\ dirs'["staging"]["manifest"] = dirs["staging"]["manifest"]
              /\ dirs'["staging"]["signature"] = dirs["staging"]["signature"]
<1>1. PICK torn \in SUBSET dirty, undone \in {FALSE, undurable} :
        LET left == [d \in Dir |-> Survives(d, torn)]
        IN dirs' = IF undone
                   THEN [left EXCEPT !["next"] = left["current"], !["current"] = NoDir]
                   ELSE left
  BY DEF PowerLoss
<1>2. \A d \in Dir : Survives(d, torn) \in {NoDir} \cup [Name -> Contents]
  BY SurvivesTyped
<1>3. dirs'["staging"] = Survives("staging", torn)
  BY <1>1 DEF Dir
<1>4. dirs'["next"] \in {dirs["next"], dirs["current"]}
  BY <1>1, SurvivesTyped DEF Dir
<1>5. dirs'["current"] \in {dirs["current"], NoDir}
  BY <1>1, SurvivesTyped DEF Dir
<1>6. dirs' \in [Dir -> {NoDir} \cup [Name -> Contents]]
  BY <1>1, <1>2, <1>3, <1>4, <1>5 DEF TypeOK, Dir
<1>7. QED
  BY <1>3, <1>4, <1>5, <1>6, SurvivesTyped DEF Dir

---------------------------------------------------------------------------
(* The steps preserve the invariant, part by part *)

LEMMA InitInv == Init => Inv
<1>1. ASSUME Init PROVE TypeOK
  BY <1>1, IdleType DEF Init, TypeOK
<1>2. ASSUME Init PROVE \A d \in Dir : dirs[d] = NoDir
  BY <1>2 DEF Init
<1>3. ASSUME Init
      PROVE  /\ SourceIsMoment /\ DirtyIsStaged /\ SignaturesSound
             /\ AcceptSound /\ CurrentVerified
  BY <1>2, <1>3 DEF Init, SourceIsMoment, DirtyIsStaged, SignaturesSound, Signed,
                    AcceptSound, Filling, CurrentVerified, Dir
<1>4. ASSUME Init PROVE StageSound
  BY <1>4, IdleType DEF Init, StageSound
<1>5. QED
  BY <1>1, <1>3, <1>4 DEF Inv

\* Which files a stage or an accept puts where, and that they have their type.
LEMMA StagePuts ==
  ASSUME Inv, Stage
  PROVE  \/ UNCHANGED dirs
         \/ BeginStage
         \/ /\ StartTar \/ PackFails
            /\ dirs["staging"] # NoDir /\ Staged("artifact", Torn)
         \/ /\ Extract
            /\ dirs["staging"] # NoDir /\ Staged("artifact", stage.packed)
            /\ stage.packed \in Snapshot
         \/ /\ VacuumInto
            /\ dirs["staging"] # NoDir /\ Staged("artifact", source)
         \/ /\ Seal
            /\ dirs["staging"] # NoDir
            /\ Staged("manifest", [digest |-> stage.packed, listing |-> stage.packed])
            /\ stage.packed \in moments
         \/ /\ Sign
            /\ dirs["staging"] # NoDir
            /\ Staged("signature", dirs["staging"]["manifest"])
            /\ Sound(dirs["staging"]["manifest"])
<1>1. stage \in [phase : {"idle", "reading", "packing", "verifying", "comparing", "sealing", "signing"},
                 todo : SUBSET File, seen : Snapshot, packed : Snapshot]
  BY DEF Inv, TypeOK
<1>2. CASE Seal
  BY <1>2 DEF Seal, Inv, StageSound, Packed
<1>3. CASE Sign
  BY <1>3 DEF Sign, Inv, StageSound
<1>4. CASE StartTar \/ PackFails \/ Extract \/ VacuumInto
  BY <1>1, <1>4 DEF StartTar, PackFails, Extract, VacuumInto, Inv, StageSound
<1>5. CASE \/ RefuseEmpty \/ StartCompare \/ StagerDies
           \/ \E f \in File : Read(f) \/ TarFile(f) \/ CompareTable(f)
  BY <1>5 DEF RefuseEmpty, StartCompare, StagerDies, Read, TarFile, CompareTable
<1>6. QED
  BY <1>2, <1>3, <1>4, <1>5 DEF Stage

LEMMA DirsType ==
  ASSUME Inv, Next
  PROVE  /\ dirs' \in [Dir -> {NoDir} \cup [Name -> Contents]]
         /\ \A d \in Dir : dirs'[d] # NoDir =>
              /\ dirs'[d]["artifact"] \in {Absent, Torn} \cup Snapshot
              /\ dirs'[d]["manifest"] \in {Absent, Torn} \cup Manifest
              /\ dirs'[d]["signature"] \in {Absent, Torn} \cup Manifest
<1> DEFINE Good(d, content) ==
      content # NoDir =>
        /\ content["artifact"] \in {Absent, Torn} \cup Snapshot
        /\ content["manifest"] \in {Absent, Torn} \cup Manifest
        /\ content["signature"] \in {Absent, Torn} \cup Manifest
<1>1. /\ dirs \in [Dir -> {NoDir} \cup [Name -> Contents]]
      /\ \A d \in Dir : Good(d, dirs[d])
  BY DEF Inv, TypeOK
<1>2. CASE UNCHANGED dirs
  BY <1>1, <1>2
<1>3. CASE Stage
  <2>1. CASE BeginStage
    BY <1>1, <2>1, EmptyType DEF BeginStage, Dir, Name
  <2>2. ASSUME NEW c \in Snapshot \cup {Torn}, dirs["staging"] # NoDir, Staged("artifact", c)
        PROVE  dirs' \in [Dir -> {NoDir} \cup [Name -> Contents]] /\ \A d \in Dir : Good(d, dirs'[d])
    BY <1>1, <2>2, PutFile DEF Staged, Inv, Dir, Name, Contents
  <2>3. ASSUME NEW n \in {"manifest", "signature"}, NEW c \in Manifest,
               dirs["staging"] # NoDir, Staged(n, c)
        PROVE  dirs' \in [Dir -> {NoDir} \cup [Name -> Contents]] /\ \A d \in Dir : Good(d, dirs'[d])
    <3>1. c \in Contents /\ n \in Name /\ "staging" \in Dir /\ TypeOK
      BY DEF Contents, Name, Dir, Inv
    <3>2. /\ dirs' \in [Dir -> {NoDir} \cup [Name -> Contents]]
          /\ dirs'["staging"][n] = c
          /\ \A k \in Name \ {n} : dirs'["staging"][k] = dirs["staging"][k]
          /\ \A e \in Dir \ {"staging"} : dirs'[e] = dirs[e]
      BY <2>3, <3>1, PutFile DEF Staged
    <3>3. QED
      BY <1>1, <2>3, <3>2 DEF Name, Dir
  <2>4. stage.packed \in Snapshot /\ source \in Snapshot /\ moments \subseteq Snapshot
    BY DEF Inv, TypeOK
  <2>5. [digest |-> stage.packed, listing |-> stage.packed] \in Manifest
    BY <2>4 DEF Manifest
  <2>6. QED
    BY <1>2, <1>3, <2>1, <2>2, <2>3, <2>4, <2>5, StagePuts DEF Sound
<1>4. CASE \E a \in Accepter : Accept(a)
  <2>1. PICK a \in Accepter : Accept(a)
    BY <1>4
  <2>2. CASE MakeNext(a)
    BY <1>1, <2>2, EmptyType DEF MakeNext, Dir, Name
  <2>3. CASE CopyFile(a)
    <3>1. dirs["next"] # NoDir
      BY <2>3 DEF CopyFile, Inv, AcceptSound, Filling
    <3>2. NextToCopy(dirs["next"]) \in Name
      BY DEF NextToCopy, Name
    <3>3. CASE UNCHANGED dirs
      BY <1>2, <3>3
    <3>4. CASE /\ dirs["staging"] # NoDir
               /\ dirs' = [dirs EXCEPT !["next"][NextToCopy(dirs["next"])]
                                         = dirs["staging"][NextToCopy(dirs["next"])]]
      <4> DEFINE n == NextToCopy(dirs["next"])
      <4>1. dirs["staging"][n] \in Contents
        BY <1>1, <3>2, <3>4 DEF Dir
      <4>2. /\ dirs' \in [Dir -> {NoDir} \cup [Name -> Contents]]
            /\ dirs'["next"][n] = dirs["staging"][n]
            /\ \A k \in Name \ {n} : dirs'["next"][k] = dirs["next"][k]
            /\ \A e \in Dir \ {"next"} : dirs'[e] = dirs[e]
        BY <3>1, <3>2, <3>4, <4>1, PutFile DEF Dir, Inv
      <4> HIDE DEF n
      <4>3. n \in Name
        BY <3>2 DEF n
      <4>4. QED
        BY <1>1, <3>1, <3>4, <4>2, <4>3 DEF Name, Dir
    <3>5. QED
      BY <2>3, <3>3, <3>4 DEF CopyFile
  <2>4. CASE Rename(a)
    BY <1>1, <1>2, <2>4 DEF Rename, Dir
  <2>5. QED
    BY <1>2, <2>1, <2>2, <2>3, <2>4 DEF Accept, StartAccept, VerifyNext, AccepterDies
<1>5. CASE RemoveStaging \/ RemoveNext \/ RetainCurrent
  BY <1>1, <1>5 DEF RemoveStaging, RemoveNext, RetainCurrent, Dir
<1>6. CASE PowerLoss
  BY <1>1, <1>6, PowerLossDoes DEF Inv, Dir
<1>7. QED
  BY <1>2, <1>3, <1>4, <1>5, <1>6 DEF Next, Grow, Writeback

LEMMA StageType ==
  ASSUME Inv, Next
  PROVE  stage' \in [phase : {"idle", "reading", "packing", "verifying", "comparing", "sealing", "signing"},
                     todo : SUBSET File, seen : Snapshot, packed : Snapshot]
<1> DEFINE Stages ==
      [phase : {"idle", "reading", "packing", "verifying", "comparing", "sealing", "signing"},
       todo : SUBSET File, seen : Snapshot, packed : Snapshot]
<1>1. stage \in Stages /\ source \in Snapshot /\ Idle \in Stages
  BY IdleType DEF Inv, TypeOK
<1>2. CASE stage' \in {stage, Idle}
  BY <1>1, <1>2
<1>3. ASSUME NEW f \in File, Read(f) \/ TarFile(f) \/ CompareTable(f)
      PROVE  stage' \in Stages
  <2>1. CASE Read(f)
    BY <1>1, <2>1 DEF Read, Snapshot
  <2>2. CASE TarFile(f)
    BY <1>1, <2>2 DEF TarFile, Snapshot
  <2>3. CASE CompareTable(f)
    BY <1>1, <2>3 DEF CompareTable
  <2>4. QED
    BY <1>3, <2>1, <2>2, <2>3
<1>4. CASE BeginStage \/ StartTar \/ StartCompare \/ Extract \/ Seal
  BY <1>1, <1>4 DEF BeginStage, StartTar, StartCompare, Extract, Seal
<1>5. CASE VacuumInto
  BY <1>1, <1>5 DEF VacuumInto
<1>6. CASE Stage
  BY <1>2, <1>3, <1>4, <1>5, <1>6 DEF Stage, RefuseEmpty, PackFails, Sign, StagerDies
<1>7. CASE \E a \in Accepter : Accept(a)
  BY <1>2, <1>7 DEF Accept, StartAccept, MakeNext, CopyFile, VerifyNext, Rename, AccepterDies
<1>8. QED
  BY <1>2, <1>6, <1>7 DEF Next, Grow, RemoveStaging, RemoveNext, RetainCurrent, Writeback,
                          PowerLoss

\* Which steps touch the variables other than dirs and stage.
LEMMA AcceptMoves ==
  ASSUME Next
  PROVE  \/ UNCHANGED accept
         \/ PowerLoss
         \/ \E a \in Accepter :
              Accept(a) /\ \E place \in {"idle", "verified", "copying", "checked"} : At(a, place)
<1>1. CASE \E a \in Accepter : Accept(a)
  BY <1>1 DEF Accept, StartAccept, MakeNext, CopyFile, VerifyNext, Rename, AccepterDies
<1>2. CASE Stage
  BY <1>2 DEF Stage, BeginStage, Read, StartTar, RefuseEmpty, TarFile, Extract, VacuumInto,
     PackFails, StartCompare, CompareTable, Seal, Sign, StagerDies
<1>3. QED
  BY <1>1, <1>2 DEF Next, Grow, RemoveStaging, RemoveNext, RetainCurrent, Writeback

LEMMA DirtyStep ==
  ASSUME Inv, Next
  PROVE  DirtyIsStaged'
<1>1. dirty \subseteq {<<"staging", "artifact">>}
  BY DEF Inv, DirtyIsStaged
<1>2. CASE \E a \in Accepter : Rename(a)
  BY <1>1, <1>2 DEF Rename, DirtyIsStaged
<1>3. CASE ~ \E a \in Accepter : Rename(a)
  BY <1>1, <1>3 DEF DirtyIsStaged, Next, Grow, Stage, BeginStage, Read, StartTar,
     RefuseEmpty, TarFile, Extract, VacuumInto, PackFails, StartCompare, CompareTable, Seal,
     Sign, StagerDies, Accept, StartAccept, MakeNext, CopyFile, VerifyNext, AccepterDies,
     RemoveStaging, RemoveNext, RetainCurrent, Writeback, PowerLoss, Without
<1>4. QED
  BY <1>2, <1>3

LEMMA TypeStep ==
  ASSUME Inv, Next
  PROVE  TypeOK'
<1>1. TypeOK
  BY DEF Inv
<1>2. source' \in Snapshot /\ moments' \subseteq Snapshot /\ kind' = kind
  <2>1. CASE \E f \in File : Grow(f)
    BY <1>1, <2>1 DEF Grow, TypeOK, Snapshot
  <2>2. CASE Stage
    BY <1>1, <2>2 DEF Stage, BeginStage, Read, StartTar, RefuseEmpty, TarFile, Extract,
       VacuumInto, PackFails, StartCompare, CompareTable, Seal, Sign, StagerDies, TypeOK
  <2>3. QED
    BY <1>1, <2>1, <2>2 DEF Next, Accept, StartAccept, MakeNext, CopyFile, VerifyNext,
       Rename, AccepterDies, RemoveStaging, RemoveNext, RetainCurrent, Writeback,
       PowerLoss, TypeOK
<1>3. accept' \in [Accepter -> {"idle", "verified", "copying", "checked"}]
  BY <1>1, AcceptMoves DEF At, PowerLoss, TypeOK
<1>4. dirty' \subseteq Dir \X Name
  BY DirtyStep DEF DirtyIsStaged, Dir, Name
<1>5. undurable' \in BOOLEAN
  <2>1. undurable' \in {undurable, TRUE, FALSE}
    BY DEF Next, Grow, Stage, BeginStage, Read, StartTar, RefuseEmpty, TarFile, Extract,
       VacuumInto, PackFails, StartCompare, CompareTable, Seal, Sign, StagerDies, Accept,
       StartAccept, MakeNext, CopyFile, VerifyNext, Rename, AccepterDies, RemoveStaging,
       RemoveNext, RetainCurrent, Writeback, PowerLoss
  <2>2. QED
    BY <1>1, <2>1 DEF TypeOK
<1>6. QED
  BY <1>1, <1>2, <1>3, <1>4, <1>5, DirsType, StageType DEF TypeOK

\* A moment, once passed, stays one; the source's own state is the latest.
LEMMA MomentStep ==
  ASSUME Inv, Next
  PROVE  /\ SourceIsMoment'
         /\ moments \subseteq moments'
         /\ \A f \in File : source[f] <= source'[f]
<1>1. source \in Snapshot /\ source \in moments
  BY DEF Inv, TypeOK, SourceIsMoment
<1>2. CASE \E f \in File : Grow(f)
  BY <1>1, <1>2 DEF Grow, Snapshot, SourceIsMoment
<1>3. CASE UNCHANGED <<source, moments>>
  BY <1>1, <1>3 DEF Snapshot, SourceIsMoment
<1>4. QED
  BY <1>2, <1>3 DEF Next, Stage, BeginStage, Read, StartTar, RefuseEmpty, TarFile,
     Extract, VacuumInto, PackFails, StartCompare, CompareTable, Seal, Sign, StagerDies,
     Accept, StartAccept, MakeNext, CopyFile, VerifyNext, Rename, AccepterDies,
     RemoveStaging, RemoveNext, RetainCurrent, Writeback, PowerLoss

\* A signature comes from a signing stage or from a directory that has it.
LEMMA SignatureStep ==
  ASSUME Inv, Next
  PROVE  SignaturesSound'
<1> DEFINE Fine(content) ==
      content # NoDir /\ content["signature"] \notin {Absent, Torn} =>
        Sound(content["signature"])
<1>1. \A d \in Dir : Fine(dirs[d])
  BY DEF Inv, SignaturesSound, Signed
<1>2. ASSUME NEW m, Sound(m) PROVE Sound(m)'
  BY <1>2, MomentStep DEF Sound
<1>3. SUFFICES \A d \in Dir : Fine(dirs'[d])
  BY <1>2 DEF SignaturesSound, Signed, Sound
<1>4. CASE UNCHANGED dirs
  BY <1>1, <1>4
<1>5. CASE Stage
  <2>1. CASE BeginStage
    BY <1>1, <2>1, EmptyType DEF BeginStage, Inv, TypeOK, Dir, Name
  <2>2. ASSUME NEW n \in Name, NEW c \in Contents, dirs["staging"] # NoDir, Staged(n, c),
               n = "signature" => Sound(c)
        PROVE  \A d \in Dir : Fine(dirs'[d])
    BY <1>1, <2>2, PutFile DEF Staged, Inv, Dir, Name
  <2>3. /\ "artifact" \in Name /\ "manifest" \in Name /\ "signature" \in Name
        /\ Torn \in Contents /\ Snapshot \subseteq Contents /\ Manifest \subseteq Contents
        /\ source \in Snapshot /\ moments \subseteq Snapshot
    BY DEF Name, Contents, Inv, TypeOK
  <2>4. stage.packed \in moments =>
          [digest |-> stage.packed, listing |-> stage.packed] \in Contents
    BY <2>3 DEF Manifest
  <2>5. Sound(dirs["staging"]["manifest"]) => dirs["staging"]["manifest"] \in Contents
    BY <2>3 DEF Sound
  <2>6. QED
    BY <1>4, <1>5, <2>1, <2>2, <2>3, <2>4, <2>5, StagePuts
<1>6. CASE \E a \in Accepter : Accept(a)
  <2>1. PICK a \in Accepter : Accept(a)
    BY <1>6
  <2>2. CASE MakeNext(a)
    BY <1>1, <2>2, EmptyType DEF MakeNext, Inv, TypeOK, Dir, Name
  <2>3. CASE CopyFile(a)
    <3> DEFINE n == NextToCopy(dirs["next"])
    <3>1. dirs["next"] # NoDir /\ TypeOK
      BY <2>3 DEF CopyFile, Inv, AcceptSound, Filling
    <3>2. n \in Name
      BY DEF NextToCopy, Name
    <3>3. CASE UNCHANGED dirs
      BY <1>4, <3>3
    <3>4. CASE dirs["staging"] # NoDir /\ dirs' = [dirs EXCEPT !["next"][n] = dirs["staging"][n]]
      <4>1. dirs["staging"][n] \in Contents
        BY <3>1, <3>2, <3>4 DEF TypeOK, Dir
      <4>2. /\ dirs'["next"][n] = dirs["staging"][n]
            /\ \A k \in Name \ {n} : dirs'["next"][k] = dirs["next"][k]
            /\ \A e \in Dir \ {"next"} : dirs'[e] = dirs[e]
        BY <3>1, <3>2, <3>4, <4>1, PutFile DEF Dir
      <4> HIDE DEF n
      <4>3. QED
        BY <1>1, <3>1, <3>2, <3>4, <4>2 DEF Name, Dir
    <3>5. QED
      BY <2>3, <3>3, <3>4 DEF CopyFile
  <2>4. CASE Rename(a)
    BY <1>1, <1>4, <2>4 DEF Rename, Inv, TypeOK, Dir
  <2>5. QED
    BY <1>4, <2>1, <2>2, <2>3, <2>4 DEF Accept, StartAccept, VerifyNext, AccepterDies
<1>7. CASE RemoveStaging \/ RemoveNext \/ RetainCurrent
  BY <1>1, <1>7 DEF RemoveStaging, RemoveNext, RetainCurrent, Inv, TypeOK, Dir
<1>8. CASE PowerLoss
  BY <1>1, <1>8, PowerLossDoes DEF Inv, Dir
<1>9. QED
  BY <1>4, <1>5, <1>6, <1>7, <1>8 DEF Next, Grow, Writeback

\* A step that leaves the stage and its directory alone leaves what is known of them.
LEMMA StageKeeps ==
  ASSUME Inv, Next, UNCHANGED <<stage, kind>>, dirs'["staging"] = dirs["staging"]
  PROVE  StageSound'
<1>1. /\ stage \in [phase : {"idle", "reading", "packing", "verifying", "comparing", "sealing", "signing"},
                    todo : SUBSET File, seen : Snapshot, packed : Snapshot]
      /\ source \in Snapshot /\ source' \in Snapshot /\ moments \subseteq Snapshot
  BY TypeStep DEF Inv, TypeOK
<1>2. moments \subseteq moments' /\ \A f \in File : source[f] <= source'[f]
  BY MomentStep
<1>3. \A m \in moments : WalkEnd(m) => WalkEnd(m)'
  <2>1. TAKE m \in moments
  <2>2. \A f \in File : m[f] \in Nat /\ source[f] \in Nat /\ source'[f] \in Nat
    BY <1>1 DEF Snapshot
  <2>3. QED
    BY <1>2, <2>2 DEF WalkEnd
<1>4. \A f \in File : /\ stage.seen[f] \in Nat /\ stage.packed[f] \in Nat
                      /\ source[f] \in Nat /\ source'[f] \in Nat
  BY <1>1 DEF Snapshot
<1>5. Packed => Packed'
  BY <1>2 DEF Packed
<1>6. \A f \in File, k \in Nat : k <= source[f] => k <= source'[f]
  BY <1>2, <1>4
<1>7. stage.phase = "signing" => Sound(dirs["staging"]["manifest"])'
  BY <1>2 DEF Inv, StageSound, Sound
<1>8. StageSound
  BY DEF Inv
<1>9. kind = "logs" /\ stage.phase = "packing" => \E m \in moments' : WalkEnd(m)'
  BY <1>2, <1>3, <1>8 DEF StageSound
<1>10. /\ \A f \in File : stage.packed[f] <= source[f] => stage.packed[f] <= source'[f]
       /\ \A f \in File : stage.seen[f] <= source[f] => stage.seen[f] <= source'[f]
  BY <1>4, <1>6
<1>11. QED
  BY <1>5, <1>7, <1>8, <1>9, <1>10 DEF StageSound

LEMMA StageStep ==
  ASSUME Inv, Next
  PROVE  StageSound'
<1>1. /\ stage \in [phase : {"idle", "reading", "packing", "verifying", "comparing", "sealing", "signing"},
                    todo : SUBSET File, seen : Snapshot, packed : Snapshot]
      /\ source \in Snapshot /\ moments \subseteq Snapshot /\ source \in moments
      /\ StageSound /\ TypeOK
  BY DEF Inv, TypeOK, SourceIsMoment
<1>2. \A f \in File : stage.seen[f] \in Nat /\ stage.packed[f] \in Nat /\ source[f] \in Nat
  BY <1>1 DEF Snapshot
<1>3. /\ "staging" \in Dir /\ Name = {"artifact", "manifest", "signature"}
      /\ Torn \in Contents /\ Snapshot \subseteq Contents /\ Manifest \subseteq Contents
  BY DEF Dir, Name, Contents
<1>4. CASE stage' = Idle
  BY <1>4, IdleType DEF StageSound
<1>5. CASE BeginStage
  <2>1. /\ dirs'["staging"] # NoDir
        /\ stage'.phase = IF kind = "logs" THEN "reading" ELSE "packing"
        /\ stage'.todo = File /\ kind' = kind /\ kind \in {"logs", "evidence"}
    BY <1>1, <1>5, EmptyType DEF BeginStage, Idle, TypeOK, Dir
  <2>2. QED
    BY <2>1 DEF StageSound
<1>6. ASSUME NEW f \in File, Read(f) PROVE StageSound'
  <2>1. /\ stage.phase = "reading" /\ stage'.phase = "reading" /\ kind' = kind
        /\ stage'.todo = stage.todo \ {f} /\ stage'.packed = stage.packed
        /\ stage'.seen = [stage.seen EXCEPT ![f] = source[f]]
        /\ source' = source /\ moments' = moments /\ dirs' = dirs
    BY <1>1, <1>6 DEF Read
  <2>2. \A g \in File : stage'.seen[g] = IF g = f THEN source[f] ELSE stage.seen[g]
    BY <1>1, <2>1 DEF Snapshot
  <2>3. Packed => Packed'
    BY <2>1 DEF Packed
  <2>4. QED
    BY <1>1, <1>2, <2>1, <2>2, <2>3 DEF StageSound
<1>7. CASE StartTar
  <2>1. /\ stage'.phase = "packing" /\ stage'.todo = File /\ stage'.seen = stage.seen
        /\ source' = source /\ moments' = moments /\ kind' = kind /\ kind = "logs"
    BY <1>1, <1>7 DEF StartTar
  <2>2. dirs'["staging"] # NoDir
    BY <1>1, <1>3, <1>7, PutFile DEF StartTar, Staged, StageSound
  <2>3. \A f \in File : stage.seen[f] <= source[f]
    BY <1>1, <1>7 DEF StartTar, StageSound
  <2>4. WalkEnd(source)'
    BY <1>2, <2>1, <2>3 DEF WalkEnd
  <2>5. QED
    BY <1>1, <2>1, <2>2, <2>4 DEF StageSound
<1>8. ASSUME NEW f \in File, TarFile(f) PROVE StageSound'
  <2>1. /\ stage.phase = "packing" /\ stage'.phase = "packing" /\ kind = "logs" /\ kind' = kind
        /\ stage'.todo = stage.todo \ {f} /\ stage'.seen = stage.seen
        /\ stage'.packed = [stage.packed EXCEPT ![f] = source[f]]
        /\ source' = source /\ moments' = moments /\ dirs' = dirs
    BY <1>1, <1>8 DEF TarFile
  <2>2. \A g \in File : stage'.packed[g] = IF g = f THEN source[f] ELSE stage.packed[g]
    BY <1>1, <2>1 DEF Snapshot
  <2>3. PICK m \in moments : WalkEnd(m)
    BY <1>1, <2>1 DEF StageSound
  <2>4. WalkEnd(m)'
    BY <2>1, <2>2, <2>3 DEF WalkEnd
  <2>5. QED
    BY <1>1, <2>1, <2>3, <2>4 DEF StageSound
<1>9. ASSUME Extract, stage.packed = stage.seen PROVE StageSound'
  <2>1. /\ stage'.phase = "sealing" /\ stage'.packed = stage.packed
        /\ stage'.seen = stage.packed /\ moments' = moments /\ kind' = kind
    BY <1>1, <1>9 DEF Extract
  <2>2. PICK m \in moments : WalkEnd(m)
    BY <1>1, <1>9 DEF Extract, StageSound
  <2>3. \A f \in File : m[f] \in Nat
    BY <1>1 DEF Snapshot
  <2>4. \A f \in File : m[f] = stage.packed[f]
    BY <1>2, <1>9, <2>2, <2>3 DEF Extract, WalkEnd
  <2>5. m = stage.packed
    BY <1>1, <2>4 DEF Snapshot
  <2>6. dirs'["staging"] # NoDir /\ dirs'["staging"]["artifact"] = stage.packed
    <3>1. dirs["staging"] # NoDir
      BY <1>1, <1>9 DEF Extract, StageSound
    <3>2. dirs' = [dirs EXCEPT !["staging"]["artifact"] = stage.packed]
      BY <1>9 DEF Extract, Staged
    <3>3. stage.packed \in Contents
      BY <1>1, <1>3
    <3>4. TypeOK /\ "staging" \in Dir /\ "artifact" \in Name
      BY <1>1, <1>3
    <3>5. QED
      BY <3>1, <3>2, <3>3, <3>4, PutFile
  <2>7. QED
    BY <2>1, <2>2, <2>5, <2>6 DEF StageSound, Packed
<1>10. CASE VacuumInto
  <2>1. /\ stage'.phase = "reading" /\ stage'.packed = source /\ stage'.todo = File
        /\ moments' = moments /\ source' = source /\ kind' = kind /\ kind = "evidence"
    BY <1>1, <1>10 DEF VacuumInto
  <2>2. dirs'["staging"] # NoDir /\ dirs'["staging"]["artifact"] = source
    <3>1. dirs["staging"] # NoDir
      BY <1>1, <1>10 DEF VacuumInto, StageSound
    <3>2. dirs' = [dirs EXCEPT !["staging"]["artifact"] = source]
      BY <1>10 DEF VacuumInto, Staged
    <3>3. source \in Contents
      BY <1>1, <1>3
    <3>4. TypeOK /\ "staging" \in Dir /\ "artifact" \in Name
      BY <1>1, <1>3
    <3>5. QED
      BY <3>1, <3>2, <3>3, <3>4, PutFile
  <2>3. QED
    BY <1>1, <1>2, <2>1, <2>2 DEF StageSound, Packed
<1>11. CASE StartCompare
  <2>1. /\ stage.phase = "reading" /\ stage.todo = {} /\ kind = "evidence" /\ kind' = kind
        /\ stage'.phase = "verifying" /\ stage'.todo = File
        /\ stage'.seen = stage.seen /\ stage'.packed = stage.packed
        /\ source' = source /\ moments' = moments /\ dirs' = dirs
    BY <1>1, <1>11 DEF StartCompare
  <2>2. QED
    BY <1>1, <2>1 DEF StageSound, Packed
<1>12. ASSUME NEW f \in File, CompareTable(f), source[f] = stage.packed[f]
       PROVE  StageSound'
  <2>1. /\ stage.phase \in {"verifying", "comparing"} /\ f \in stage.todo /\ kind' = kind
        /\ stage'.seen = stage.seen /\ stage'.packed = stage.packed
        /\ source' = source /\ moments' = moments /\ dirs' = dirs
        /\ \/ stage'.phase = stage.phase /\ stage'.todo = stage.todo \ {f}
           \/ stage'.phase = "comparing" /\ stage'.todo = File
           \/ stage'.phase = "sealing" /\ stage.todo = {f}
    BY <1>1, <1>12 DEF CompareTable
  <2>2. \A g \in File \ (stage.todo \ {f}) : stage.seen[g] = stage.packed[g]
    BY <1>1, <1>2, <1>12, <2>1 DEF StageSound
  <2>3. stage'.phase = "sealing" => stage.seen = stage.packed
    BY <1>1, <2>1, <2>2 DEF Snapshot
  <2>4. Packed' /\ dirs'["staging"] # NoDir /\ kind = "evidence"
    BY <1>1, <2>1 DEF StageSound, Packed
  <2>5. QED
    BY <1>1, <2>1, <2>2, <2>3, <2>4 DEF StageSound
<1>13. CASE Seal
  <2> DEFINE c == [digest |-> stage.packed, listing |-> stage.packed]
  <2>1. /\ stage'.phase = "signing" /\ moments' = moments
        /\ dirs["staging"] # NoDir /\ Staged("manifest", c) /\ stage.packed \in moments
    BY <1>1, <1>13 DEF Seal, StageSound, Packed
  <2>2. c \in Manifest /\ c.digest = stage.packed /\ c.listing = stage.packed
    BY <1>1 DEF Manifest
  <2> HIDE DEF c
  <2>3. dirs'["staging"] # NoDir /\ dirs'["staging"]["manifest"] = c
    BY <1>1, <1>3, <2>1, <2>2, PutFile DEF Staged
  <2>4. Sound(dirs["staging"]["manifest"])'
    BY <2>1, <2>2, <2>3 DEF Sound
  <2>5. QED
    BY <2>1, <2>3, <2>4 DEF StageSound
<1>14. CASE Stage
  BY <1>4, <1>5, <1>6, <1>7, <1>8, <1>9, <1>10, <1>11, <1>12, <1>13, <1>14
     DEF Stage, RefuseEmpty, PackFails, Sign, StagerDies, Extract, CompareTable
<1>15. CASE \E a \in Accepter : Accept(a)
  <2>1. PICK a \in Accepter : Accept(a)
    BY <1>15
  <2>2. UNCHANGED <<stage, kind>>
    BY <2>1 DEF Accept, StartAccept, MakeNext, CopyFile, VerifyNext, Rename, AccepterDies
  <2>3. dirs'["staging"] = dirs["staging"]
    BY <1>1, <2>1 DEF Accept, StartAccept, MakeNext, CopyFile, VerifyNext, Rename,
                      AccepterDies, TypeOK, Dir
  <2>4. QED
    BY <2>2, <2>3, StageKeeps
<1>16. CASE (\E f \in File : Grow(f)) \/ RemoveNext \/ RetainCurrent \/ Writeback
  <2>1. UNCHANGED <<stage, kind>>
    BY <1>16 DEF Grow, RemoveNext, RetainCurrent, Writeback
  <2>2. dirs'["staging"] = dirs["staging"]
    BY <1>1, <1>16 DEF Grow, RemoveNext, RetainCurrent, Writeback, TypeOK, Dir
  <2>3. QED
    BY <2>1, <2>2, StageKeeps
<1>17. QED
  BY <1>4, <1>14, <1>15, <1>16 DEF Next, RemoveStaging, PowerLoss

\* Who but an accept touches current.next and current.
LEMMA OthersKeep ==
  ASSUME Inv, Next, ~ \E a \in Accepter : Accept(a)
  PROVE  /\ dirs'["current"] \in {dirs["current"], NoDir}
         /\ \/ dirs'["next"] = dirs["next"] /\ UNCHANGED accept
            \/ \A a \in Accepter : accept'[a] = "idle"
<1>1. /\ dirs \in [Dir -> {NoDir} \cup [Name -> Contents]]
      /\ accept \in [Accepter -> {"idle", "verified", "copying", "checked"}]
      /\ TypeOK /\ DirtyIsStaged
  BY DEF Inv, TypeOK
<1>2. CASE Stage
  <2>1. UNCHANGED accept
    BY <1>2 DEF Stage, BeginStage, Read, StartTar, RefuseEmpty, TarFile, Extract, VacuumInto,
       PackFails, StartCompare, CompareTable, Seal, Sign, StagerDies
  <2>2. \A d \in Dir \ {"staging"} : dirs'[d] = dirs[d]
    BY <1>1, <1>2 DEF Stage, BeginStage, Read, StartTar, RefuseEmpty, TarFile, Extract,
       VacuumInto, PackFails, StartCompare, CompareTable, Seal, Sign, StagerDies, Staged
  <2>3. QED
    BY <2>1, <2>2 DEF Dir
<1>3. CASE (\E f \in File : Grow(f)) \/ Writeback \/ RemoveStaging \/ RetainCurrent
  BY <1>1, <1>3 DEF Grow, Writeback, RemoveStaging, RetainCurrent, Dir
<1>4. CASE RemoveNext
  BY <1>1, <1>4 DEF RemoveNext, Dir
<1>5. CASE PowerLoss
  BY <1>1, <1>5, PowerLossDoes DEF PowerLoss
<1>6. QED
  BY <1>2, <1>3, <1>4, <1>5 DEF Next

LEMMA AcceptStep ==
  ASSUME Inv, Next
  PROVE  AcceptSound'
<1>1. /\ dirs \in [Dir -> {NoDir} \cup [Name -> Contents]]
      /\ accept \in [Accepter -> {"idle", "verified", "copying", "checked"}]
      /\ TypeOK /\ AcceptSound
  BY DEF Inv, TypeOK
<1>2. CASE ~ \E a \in Accepter : Accept(a)
  BY <1>1, <1>2, OthersKeep
     DEF AcceptSound, Filling, Verifies, SignatureFits, DigestFits
<1>3. ASSUME NEW a \in Accepter, Accept(a) PROVE AcceptSound'
  <2>1. CASE StartAccept(a) \/ AccepterDies(a)
    BY <1>1, <2>1
       DEF StartAccept, AccepterDies, At, AcceptSound, Filling, Verifies, SignatureFits, DigestFits
  <2>2. CASE MakeNext(a)
    BY <1>1, <2>2, EmptyType
       DEF MakeNext, At, AcceptSound, Filling, Verifies, SignatureFits, DigestFits, Dir
  <2>3. CASE CopyFile(a)
    <3>1. CASE At(a, "idle") /\ UNCHANGED dirs
      BY <1>1, <3>1 DEF At, AcceptSound, Filling, Verifies, SignatureFits, DigestFits
    <3>2. CASE UNCHANGED accept /\ dirs'["next"] # NoDir
      BY <1>1, <2>3, <3>2 DEF CopyFile, AcceptSound, Filling
    <3>3. CASE /\ UNCHANGED accept
               /\ dirs["staging"] # NoDir
               /\ dirs' = [dirs EXCEPT !["next"][NextToCopy(dirs["next"])]
                                         = dirs["staging"][NextToCopy(dirs["next"])]]
      <4>1. NextToCopy(dirs["next"]) \in Name
        BY DEF NextToCopy, Name
      <4>2. dirs["staging"][NextToCopy(dirs["next"])] \in Contents
        BY <1>1, <3>3, <4>1 DEF Dir
      <4>3. dirs["next"] # NoDir /\ "next" \in Dir
        BY <1>1, <2>3 DEF CopyFile, AcceptSound, Filling, Dir
      <4>4. dirs'["next"] # NoDir
        BY <1>1, <3>3, <4>1, <4>2, <4>3, PutFile
      <4>5. QED
        BY <3>2, <3>3, <4>4
    <3>4. QED
      BY <2>3, <3>1, <3>3 DEF CopyFile
  <2>4. CASE VerifyNext(a)
    BY <1>1, <2>4
       DEF VerifyNext, At, AcceptSound, Filling, Verifies, SignatureFits, DigestFits
  <2>5. CASE Rename(a)
    <3>1. \A b \in Accepter : accept'[b] \notin Filling
      BY <1>1, <2>5 DEF Rename, At, AcceptSound, Filling
    <3>2. QED
      BY <3>1 DEF AcceptSound, Filling
  <2>6. QED
    BY <1>3, <2>1, <2>2, <2>3, <2>4, <2>5 DEF Accept
<1>4. QED
  BY <1>2, <1>3

\* current changes by a retirement, a rename that is undone, or a rename onto nothing.
LEMMA CurrentStep ==
  ASSUME Inv, Next
  PROVE  \/ dirs'["current"] \in {dirs["current"], NoDir}
         \/ dirs["current"] = NoDir /\ Verifies(dirs'["current"])
<1>1. CASE ~ \E a \in Accepter : Accept(a)
  BY <1>1, OthersKeep
<1>2. ASSUME NEW a \in Accepter, Accept(a)
      PROVE  \/ dirs'["current"] = dirs["current"]
             \/ dirs["current"] = NoDir /\ Verifies(dirs'["current"])
  <2>1. dirs \in [Dir -> {NoDir} \cup [Name -> Contents]]
    BY DEF Inv, TypeOK
  <2>2. CASE Rename(a)
    BY <2>1, <2>2 DEF Rename, Inv, AcceptSound, Dir
  <2>3. CASE ~Rename(a)
    BY <1>2, <2>1, <2>3 DEF Accept, StartAccept, MakeNext, CopyFile, VerifyNext,
                            AccepterDies, Dir
  <2>4. QED
    BY <2>2, <2>3
<1>3. QED
  BY <1>1, <1>2

LEMMA InvStep == Inv /\ [Next]_vars => Inv'
<1>1. ASSUME Inv, Next PROVE Inv'
  <2>1. CurrentVerified'
    BY <1>1, CurrentStep DEF Inv, CurrentVerified, Verifies, SignatureFits, DigestFits
  <2>2. QED
    BY <1>1, <2>1, TypeStep, MomentStep, DirtyStep, SignatureStep, StageStep, AcceptStep
       DEF Inv
<1>2. ASSUME Inv, UNCHANGED vars PROVE Inv'
  BY <1>2 DEF vars, Inv, TypeOK, SourceIsMoment, DirtyIsStaged, SignaturesSound, Signed,
     Sound, StageSound, Packed, WalkEnd, AcceptSound, CurrentVerified, Verifies,
     SignatureFits, DigestFits
<1>3. QED
  BY <1>1, <1>2

---------------------------------------------------------------------------
(* Theorems *)

\* The strengthening holds in every reachable state.
THEOREM Invariance == Spec => []Inv
BY InitInv, InvStep, PTL DEF Spec

\* Every variable keeps its type: a stage signs no torn artifact.
THEOREM TypeCorrect == Spec => []TypeOK
<1>1. Inv => TypeOK
  BY DEF Inv
<1>2. QED
  BY Invariance, <1>1, PTL

\* The accepted set verifies in every state, however many accepts and stages
\* interleave, die or lose power.
THEOREM AcceptedSetVerifies == Spec => []CurrentVerified
<1>1. Inv => CurrentVerified
  BY DEF Inv
<1>2. QED
  BY Invariance, <1>1, PTL

\* No accept replaces or changes an accepted set.
THEOREM AcceptedSetIsNotReplaced == Spec => CurrentStable
<1>1. Inv /\ [Next]_vars =>
        [dirs["current"] # NoDir => dirs'["current"] \in {dirs["current"], NoDir}]_vars
  BY CurrentStep DEF vars
<1>2. QED
  BY Invariance, <1>1, PTL DEF Spec, CurrentStable

\* What is signed, for any number of files, is one state of the live source.
THEOREM SignedSetIsOneMoment == Spec => []SignedIsOneMoment
<1>1. Inv => SignedIsOneMoment
  BY DEF Inv, SignaturesSound, Sound, SignedIsOneMoment
<1>2. QED
  BY Invariance, <1>1, PTL

\* A manifest's listing is that of the artifact it digests.
THEOREM ListingTrue == Spec => []ListingIsOfArtifact
<1>1. Inv => ListingIsOfArtifact
  BY DEF Inv, SignaturesSound, Sound, ListingIsOfArtifact
<1>2. QED
  BY Invariance, <1>1, PTL
===========================================================================
