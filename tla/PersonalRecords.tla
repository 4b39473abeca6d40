-------------------------- MODULE PersonalRecords --------------------------
(***************************************************************************)
(* The canonical records of one personal store, and why each is kept:      *)
(* captured here, replicated from the peer, promoted to it.  This is what  *)
(* synchronisation and the derivation of vectors share.  PersonalSync      *)
(* implements it for each of its stores, PersonalEmbeddings builds on it,  *)
(* so the two models agree on what happens to a record.                    *)
(***************************************************************************)

CONSTANT Record   \* content digests

VARIABLES
  known,          \* digests with a canonical_records row
  tombstoned,     \* those with tombstoned = 1
  captured,       \* those with a captures row
  replicas,       \* replica_records
  promoted        \* those a promotion_changes row refers to

recordVars == <<known, tombstoned, captured, replicas, promoted>>

Live == known \ tombstoned

RecordInit ==
  /\ known      = {}
  /\ tombstoned = {}
  /\ captured   = {}
  /\ replicas   = {}
  /\ promoted   = {}

(* A capture is promoted and never clears a tombstone.                     *)
CaptureRecord(r) ==
  /\ known'    = known \cup {r}
  /\ captured' = captured \cup {r}
  /\ promoted' = promoted \cup {r}
  /\ UNCHANGED <<tombstoned, replicas>>

(* Only a live record can be forgotten, and that is promoted too.          *)
ForgetRecord(r) ==
  /\ r \in Live
  /\ tombstoned' = tombstoned \cup {r}
  /\ promoted'   = promoted \cup {r}
  /\ UNCHANGED <<known, captured, replicas>>

(* A bundle brings the records of arriving, some of them, retired, with a  *)
(* tombstone.  A tombstone here stays whatever the peer sends.             *)
MergeRecords(arriving, retired) ==
  /\ known'      = known \cup arriving
  /\ tombstoned' = tombstoned \cup retired
  /\ replicas'   = replicas \cup arriving
  /\ UNCHANGED <<captured, promoted>>

(* A reset deletes what was only replicated.                               *)
ReplicaOnly == replicas \ captured

(* The reset is refused when a record it would delete has been promoted.   *)
DropReplica ==
  /\ ReplicaOnly \cap promoted = {}
  /\ known'      = known \ ReplicaOnly
  /\ tombstoned' = tombstoned \ ReplicaOnly
  /\ replicas'   = {}
  /\ UNCHANGED <<captured, promoted>>

RecordNext ==
  \/ \E r \in Record : CaptureRecord(r) \/ ForgetRecord(r)
  \/ \E arriving \in SUBSET Record : \E retired \in SUBSET arriving :
       MergeRecords(arriving, retired)
  \/ DropReplica

RecordSpec == RecordInit /\ [][RecordNext]_recordVars

---------------------------------------------------------------------------
RecordTypeOK ==
  /\ known \subseteq Record
  /\ tombstoned \subseteq known
  /\ captured \subseteq known
  /\ replicas \subseteq known
  /\ promoted \subseteq known
=============================================================================
