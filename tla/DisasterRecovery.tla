------------------------- MODULE DisasterRecovery -------------------------
(* Disaster recovery sets of the evidence store and of the interaction logs:
   neural-memory-evidence-dr and neural-memory-interaction-logs-dr.  "stage"
   writes an artifact, its manifest and the manifest's signature to the fixed
   directory staging; "accept" verifies them, copies them to current.next,
   verifies the copy and renames it to current.  The two programs share this
   shape and differ in how the artifact is made: a VACUUM INTO that is compared
   with the live store, or a tar that is compared with a walk made before it.

   Every system call that another process or a power loss can get in between of
   is a step of its own.  A file of the source (a log, or a table of the
   evidence store) is the number of changes it has seen: it only ever grows, 0
   is an absent or empty file, and equal numbers are equal digests (or, for a
   table that is compared by its rows' number, equal numbers of rows).  A manifest
   is its digest of the artifact and its listing (the digests of the walk, or
   the row counts); a signature is the manifest it signs. *)
EXTENDS Naturals, FiniteSets

CONSTANTS
  File,       \* files of the interaction logs, tables of the evidence store
  Accepter,   \* processes that may run accept
  MaxSize,    \* bound on the changes one file sees
  Torn,       \* a file whose contents are not what was written
  Absent,     \* no such file in the directory
  NoDir       \* no such directory

Name == {"artifact", "manifest", "signature"}
Dir == {"staging", "next", "current"}
Snapshot == [File -> Nat]
Manifest == [digest : Snapshot, listing : Snapshot]
Contents == {Absent, Torn} \cup Snapshot \cup Manifest

ASSUME ConstantsAssumption ==
  /\ MaxSize \in Nat
  /\ Torn # Absent
  /\ {Torn, Absent} \cap (Snapshot \cup Manifest) = {}
  /\ NoDir \notin [Name -> Contents]

VARIABLES
  kind,       \* "logs" or "evidence": which of the two programs
  source,     \* what is being saved
  moments,    \* history: every state the source has been in
  dirs,       \* staging, next (current.next) and current
  dirty,      \* files written and not yet on disk: <<directory, name>>
  undurable,  \* the rename to current is not yet on disk
  stage,      \* the running stage, or Idle
  accept      \* where each accept stands

vars == <<kind, source, moments, dirs, dirty, undurable, stage, accept>>

Nothing == [f \in File |-> 0]
Idle == [phase |-> "idle", todo |-> {}, seen |-> Nothing, packed |-> Nothing]
Empty == [n \in Name |-> Absent]

Init ==
  /\ kind \in {"logs", "evidence"}
  /\ source = Nothing /\ moments = {Nothing}
  /\ dirs = [d \in Dir |-> NoDir]
  /\ dirty = {} /\ undurable = FALSE
  /\ stage = Idle
  /\ accept = [a \in Accepter |-> "idle"]

\* A capture or a write: "writers stopped" is the operator's word, not a lock.
Grow(f) ==
  /\ source[f] < MaxSize
  /\ source' = [source EXCEPT ![f] = @ + 1]
  /\ moments' = moments \cup {source'}
  /\ UNCHANGED <<kind, dirs, dirty, undurable, stage, accept>>

---------------------------------------------------------------------------
(* stage *)

Staged(n, content) == dirs' = [dirs EXCEPT !["staging"][n] = content]

BeginStage ==
  /\ stage = Idle
  /\ dirs["staging"] = NoDir
  /\ dirs' = [dirs EXCEPT !["staging"] = Empty]
  /\ stage' = [Idle EXCEPT !.phase = IF kind = "logs" THEN "reading" ELSE "packing",
                           !.todo = File]
  /\ UNCHANGED <<kind, source, moments, dirty, undurable, accept>>

\* The walk digests one file; the backup's report counts one table.
Read(f) ==
  /\ stage.phase = "reading" /\ f \in stage.todo
  /\ stage' = [stage EXCEPT !.seen[f] = source[f], !.todo = @ \ {f}]
  /\ UNCHANGED <<kind, source, moments, dirs, dirty, undurable, accept>>

\* The walk is over and tar creates its archive.
StartTar ==
  /\ kind = "logs" /\ stage.phase = "reading" /\ stage.todo = {}
  /\ \E f \in File : stage.seen[f] > 0
  /\ Staged("artifact", Torn)
  /\ stage' = [stage EXCEPT !.phase = "packing", !.todo = File]
  /\ UNCHANGED <<kind, source, moments, dirty, undurable, accept>>

RefuseEmpty ==
  /\ kind = "logs" /\ stage.phase = "reading" /\ stage.todo = {}
  /\ \A f \in File : stage.seen[f] = 0
  /\ stage' = Idle
  /\ UNCHANGED <<kind, source, moments, dirs, dirty, undurable, accept>>

TarFile(f) ==
  /\ kind = "logs" /\ stage.phase = "packing" /\ f \in stage.todo
  /\ stage' = [stage EXCEPT !.packed[f] = source[f], !.todo = @ \ {f}]
  /\ UNCHANGED <<kind, source, moments, dirs, dirty, undurable, accept>>

\* Mutant: the archive is listed from its own extraction, not from the walk.
ExtractTrusted ==
  /\ kind = "logs" /\ stage.phase = "packing" /\ stage.todo = {}
  /\ Staged("artifact", stage.packed)
  /\ dirty' = dirty \cup {<<"staging", "artifact">>}
  /\ stage' = [stage EXCEPT !.phase = "sealing", !.seen = stage.packed]
  /\ UNCHANGED <<kind, source, moments, undurable, accept>>

\* The archive is complete, is extracted again and compared with the walk.
Extract ==
  /\ kind = "logs" /\ stage.phase = "packing" /\ stage.todo = {}
  /\ Staged("artifact", stage.packed)
  /\ dirty' = dirty \cup {<<"staging", "artifact">>}
  /\ stage' = IF stage.packed = stage.seen THEN [stage EXCEPT !.phase = "sealing"] ELSE Idle
  /\ UNCHANGED <<kind, source, moments, undurable, accept>>

\* One read transaction copies the whole store; the counts are read after it.
VacuumInto ==
  /\ kind = "evidence" /\ stage.phase = "packing"
  /\ Staged("artifact", source)
  /\ dirty' = dirty \cup {<<"staging", "artifact">>}
  /\ stage' = [stage EXCEPT !.phase = "reading", !.todo = File, !.packed = source]
  /\ UNCHANGED <<kind, source, moments, undurable, accept>>

\* tar or VACUUM INTO fails and leaves what it has written so far.
PackFails ==
  /\ stage.phase = "packing"
  /\ Staged("artifact", Torn)
  /\ stage' = Idle
  /\ UNCHANGED <<kind, source, moments, dirty, undurable, accept>>

StartCompare ==
  /\ kind = "evidence" /\ stage.phase = "reading" /\ stage.todo = {}
  /\ stage' = [stage EXCEPT !.phase = "verifying", !.todo = File]
  /\ UNCHANGED <<kind, source, moments, dirs, dirty, undurable, accept>>

\* Mutant: the counts are signed without the comparison.
CompareTableUnread(f) ==
  /\ stage.phase \in {"verifying", "comparing"} /\ f \in stage.todo
  /\ stage' = [stage EXCEPT !.phase = "sealing"]
  /\ UNCHANGED <<kind, source, moments, dirs, dirty, undurable, accept>>

\* The backup verifies itself, and verify-backup does so once more.  Each table
\* of the source and of the copy is read by itself.
CompareTable(f) ==
  /\ stage.phase \in {"verifying", "comparing"} /\ f \in stage.todo
  /\ \/ /\ source[f] # stage.packed[f]
        /\ stage' = Idle
     \/ /\ source[f] = stage.packed[f] /\ stage.todo # {f}
        /\ stage' = [stage EXCEPT !.todo = @ \ {f}]
     \/ /\ source[f] = stage.packed[f] /\ stage.todo = {f}
        /\ stage' = IF stage.phase = "verifying"
                    THEN [stage EXCEPT !.phase = "comparing", !.todo = File]
                    ELSE [stage EXCEPT !.phase = "sealing", !.todo = {}]
  /\ UNCHANGED <<kind, source, moments, dirs, dirty, undurable, accept>>

\* The artifact is digested again; manifest and signature are created and synced.
Seal ==
  /\ stage.phase = "sealing"
  /\ Staged("manifest", [digest |-> dirs["staging"]["artifact"], listing |-> stage.seen])
  /\ stage' = [stage EXCEPT !.phase = "signing"]
  /\ UNCHANGED <<kind, source, moments, dirty, undurable, accept>>

Sign ==
  /\ stage.phase = "signing"
  /\ Staged("signature", dirs["staging"]["manifest"])
  /\ stage' = Idle
  /\ UNCHANGED <<kind, source, moments, dirty, undurable, accept>>

StagerDies ==
  /\ stage # Idle
  /\ stage' = Idle
  /\ UNCHANGED <<kind, source, moments, dirs, dirty, undurable, accept>>

Stage ==
  \/ BeginStage \/ StartTar \/ RefuseEmpty \/ Extract
  \/ VacuumInto \/ StartCompare \/ PackFails
  \/ Seal \/ Sign \/ StagerDies
  \/ \E f \in File : Read(f) \/ TarFile(f) \/ CompareTable(f)

---------------------------------------------------------------------------
(* accept *)

\* verify_manifest_signature: the signature is there and signs this manifest.
SignatureFits(content) ==
  /\ content["manifest"] \notin {Absent, Torn}
  /\ content["signature"] = content["manifest"]

\* sha256_file, of an artifact that can be read, against its manifest.
DigestFits(content) ==
  /\ content["artifact"] \notin {Absent, Torn}
  /\ content["artifact"] = content["manifest"].digest

\* verify_directory, of the contents of a directory.
Verifies(content) == SignatureFits(content) /\ DigestFits(content)

At(a, place) == accept' = [accept EXCEPT ![a] = place]

StartAccept(a) ==
  /\ accept[a] = "idle"
  /\ dirs["staging"] # NoDir /\ dirs["current"] = NoDir
  /\ Verifies(dirs["staging"])
  /\ At(a, "verified")
  /\ UNCHANGED <<kind, source, moments, dirs, dirty, undurable, stage>>

\* create_dir is exclusive: it fails on a directory that is there.
MakeNext(a) ==
  /\ accept[a] = "verified"
  /\ \/ /\ dirs["next"] = NoDir
        /\ dirs' = [dirs EXCEPT !["next"] = Empty]
        /\ At(a, "copying")
     \/ /\ dirs["next"] # NoDir
        /\ At(a, "idle")
        /\ UNCHANGED dirs
  /\ UNCHANGED <<kind, source, moments, dirty, undurable, stage>>

\* The files are copied in this order, so the next one is the first absent.
NextToCopy(content) ==
  IF content["artifact"] = Absent THEN "artifact"
  ELSE IF content["manifest"] = Absent THEN "manifest" ELSE "signature"

\* Mutant: copies are not synced before they are verified.
CopyFileUnsynced(a) ==
  /\ accept[a] = "copying"
  /\ dirs["next"]["signature"] = Absent
  /\ LET n == NextToCopy(dirs["next"])
     IN /\ dirs["staging"] # NoDir /\ dirs["staging"][n] # Absent
        /\ dirs' = [dirs EXCEPT !["next"][n] = dirs["staging"][n]]
        /\ dirty' = dirty \cup {<<"next", n>>}
  /\ UNCHANGED <<kind, source, moments, undurable, stage, accept>>

\* copy_private: what staging holds at the open, synced before the next file.
\* staging may have been removed, or staged again, since it was verified.
CopyFile(a) ==
  /\ accept[a] = "copying"
  /\ dirs["next"]["signature"] = Absent
  /\ LET n == NextToCopy(dirs["next"])
         found == dirs["staging"] # NoDir /\ dirs["staging"][n] # Absent
     IN \/ /\ found
           /\ dirs' = [dirs EXCEPT !["next"][n] = dirs["staging"][n]]
           /\ UNCHANGED accept
        \/ /\ ~found
           /\ At(a, "idle")
           /\ UNCHANGED dirs
  /\ UNCHANGED <<kind, source, moments, dirty, undurable, stage>>

\* Mutant: the verification of staging is trusted for the copy.
VerifyNextTrusted(a) ==
  /\ accept[a] = "copying"
  /\ dirs["next"]["signature"] # Absent
  /\ At(a, "checked")
  /\ UNCHANGED <<kind, source, moments, dirs, dirty, undurable, stage>>

VerifyNext(a) ==
  /\ accept[a] = "copying"
  /\ dirs["next"]["signature"] # Absent
  /\ At(a, IF Verifies(dirs["next"]) THEN "checked" ELSE "idle")
  /\ UNCHANGED <<kind, source, moments, dirs, dirty, undurable, stage>>

\* Mutant: the set in current is exchanged for the new one.
RenameReplaces(a) ==
  /\ accept[a] = "checked"
  /\ At(a, "idle")
  /\ dirs' = [dirs EXCEPT !["current"] = dirs["next"], !["next"] = NoDir]
  /\ undurable' = TRUE
  /\ UNCHANGED <<kind, source, moments, dirty, stage>>

\* rename(2) replaces no directory that has files in it.
Rename(a) ==
  /\ accept[a] = "checked"
  /\ At(a, "idle")
  /\ \/ /\ dirs["current"] = NoDir
        /\ dirs' = [dirs EXCEPT !["current"] = dirs["next"], !["next"] = NoDir]
        /\ dirty' = {IF p[1] = "next" THEN <<"current", p[2]>> ELSE p : p \in dirty}
        /\ undurable' = TRUE
     \/ /\ dirs["current"] # NoDir
        /\ UNCHANGED <<dirs, dirty, undurable>>
  /\ UNCHANGED <<kind, source, moments, stage>>

AccepterDies(a) ==
  /\ accept[a] # "idle"
  /\ At(a, "idle")
  /\ UNCHANGED <<kind, source, moments, dirs, dirty, undurable, stage>>

Accept(a) ==
  \/ StartAccept(a) \/ MakeNext(a) \/ CopyFile(a) \/ VerifyNext(a) \/ Rename(a)
  \/ AccepterDies(a)

---------------------------------------------------------------------------
(* The operator and the machine *)

Without(d) == {p \in dirty : p[1] # d}

\* No stage runs; an accept may.
RemoveStaging ==
  /\ stage = Idle /\ dirs["staging"] # NoDir
  /\ dirs' = [dirs EXCEPT !["staging"] = NoDir]
  /\ dirty' = Without("staging")
  /\ UNCHANGED <<kind, source, moments, undurable, stage, accept>>

\* What a failed accept left is removed when no accept runs.
RemoveNext ==
  /\ \A a \in Accepter : accept[a] = "idle"
  /\ dirs["next"] # NoDir
  /\ dirs' = [dirs EXCEPT !["next"] = NoDir]
  /\ dirty' = Without("next")
  /\ UNCHANGED <<kind, source, moments, undurable, stage, accept>>

\* "retain it before replacement": the set is moved away, whoever is accepting.
RetainCurrent ==
  /\ dirs["current"] # NoDir /\ ~undurable
  /\ dirs' = [dirs EXCEPT !["current"] = NoDir]
  /\ dirty' = Without("current")
  /\ UNCHANGED <<kind, source, moments, undurable, stage, accept>>

Writeback ==
  /\ dirty # {} \/ undurable
  /\ dirty' = {} /\ undurable' = FALSE
  /\ UNCHANGED <<kind, source, moments, dirs, stage, accept>>

\* What a power loss leaves of a directory: any of its dirty files may be torn.
Survives(d, torn) ==
  IF dirs[d] = NoDir THEN NoDir
  ELSE [n \in Name |-> IF <<d, n>> \in torn THEN Torn ELSE dirs[d][n]]

\* The rename, while it is not on disk, may be undone; every process is gone.
PowerLoss ==
  \E torn \in SUBSET dirty, undone \in {FALSE, undurable} :
    /\ LET left == [d \in Dir |-> Survives(d, torn)]
       IN dirs' = IF undone
                  THEN [left EXCEPT !["next"] = left["current"], !["current"] = NoDir]
                  ELSE left
    /\ dirty' = {} /\ undurable' = FALSE
    /\ stage' = Idle
    /\ accept' = [a \in Accepter |-> "idle"]
    /\ UNCHANGED <<kind, source, moments>>

Next ==
  \/ \E f \in File : Grow(f)
  \/ Stage
  \/ \E a \in Accepter : Accept(a)
  \/ RemoveStaging \/ RemoveNext \/ RetainCurrent
  \/ Writeback \/ PowerLoss

Spec == Init /\ [][Next]_vars

---------------------------------------------------------------------------
(* Properties *)

\* Every variable has its type: a manifest, wherever it has been copied to,
\* digests a whole artifact, and only written files can be dirty.
TypeOK ==
  /\ kind \in {"logs", "evidence"}
  /\ source \in Snapshot /\ moments \subseteq Snapshot
  /\ dirs \in [Dir -> {NoDir} \cup [Name -> Contents]]
  /\ \A d \in Dir : dirs[d] # NoDir =>
       /\ dirs[d]["artifact"] \in {Absent, Torn} \cup Snapshot
       /\ dirs[d]["manifest"] \in {Absent, Torn} \cup Manifest
       /\ dirs[d]["signature"] \in {Absent, Torn} \cup Manifest
  /\ dirty \subseteq Dir \X Name
  /\ undurable \in BOOLEAN
  /\ stage \in [phase : {"idle", "reading", "packing", "verifying", "comparing",
                         "sealing", "signing"},
                todo : SUBSET File, seen : Snapshot, packed : Snapshot]
  /\ accept \in [Accepter -> {"idle", "verified", "copying", "checked"}]

\* The set that current holds verifies, at every moment: whatever was staged
\* anew while it was copied, whoever else accepted, and after any power loss.
CurrentVerified == dirs["current"] # NoDir => Verifies(dirs["current"])

\* A current set is never changed or replaced: it stays until it is retained.
CurrentStable ==
  [][dirs["current"] # NoDir => dirs'["current"] \in {dirs["current"], NoDir}]_vars

Signed(d) == dirs[d] # NoDir /\ dirs[d]["signature"] \notin {Absent, Torn}

\* What is signed is a state the source was in at one moment, although walk
\* and tar read its files one by one while writers may be live.
SignedIsOneMoment == \A d \in Dir : Signed(d) => dirs[d]["signature"].digest \in moments

\* The listing of a signed manifest (digests of the walk, counts read from the
\* live store after the copy) is that of the artifact it was signed with.
ListingIsOfArtifact ==
  \A d \in Dir : Signed(d) => dirs[d]["signature"].listing = dirs[d]["signature"].digest
===========================================================================
