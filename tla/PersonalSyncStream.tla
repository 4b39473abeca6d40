------------------------- MODULE PersonalSyncStream -------------------------
(***************************************************************************)
(* A store's promotion to its peer implements PromotionStream: the         *)
(* fingerprint, the starting cursor, the one-epoch chunks and the          *)
(* monotonic outbox make up for everything the transport may do.  What     *)
(* happens to the records of each store is PersonalRecords, which the      *)
(* derivation of vectors is built on.                                      *)
(***************************************************************************)
EXTENDS PersonalSync

CONSTANT Source     \* the promoting store; the two play the same part

ASSUME SourceIsDevice == Source \in Device

Consumer == Peer(Source)

(* The rows of the stream whose effect the consumer holds, within the      *)
(* epoch of its cursor.                                                    *)
Received ==
  {row \in changes[Source] :
     /\ row.cursor.epoch = cursor[Consumer].epoch
     /\ AtMost(row.cursor, cursor[Consumer])
     /\ row.record \in known[Consumer]
     /\ row.operation = "tombstone" => row.record \in tombstoned[Consumer]}

(* The rows whose import the consumer has answered.                        *)
Answered ==
  {row \in changes[Source] : \E through \in answers[Source] : AtMost(row.cursor, through)}

Stream == INSTANCE PromotionStream WITH
  sent      <- changes[Source],
  epoch     <- cursor[Consumer].epoch,
  received  <- Received,
  answered  <- Answered,
  confirmed <- changes[Source] \ pending[Source]

\* Every behaviour of the two stores is a behaviour of the promotion stream:
\* rows arrive in order and complete, epoch by epoch, and none is marked
\* promoted that the consumer has not committed.
StreamImplemented == Stream!Spec

Records(d) == INSTANCE PersonalRecords WITH
  known      <- known[d],
  tombstoned <- tombstoned[d],
  captured   <- CapturedRecords(d),
  replicas   <- replicas[d],
  promoted   <- {row.record : row \in changes[d]}

\* Whatever synchronisation does, the records of each store change only by the
\* steps PersonalEmbeddings knows: a bump promotes nothing that was not, a
\* replayed bundle merges nothing, a refused reset deletes nothing.
RecordsImplemented ==
  /\ \A d \in Device : Records(d)!RecordInit
  /\ [][\A d \in Device : [Records(d)!RecordNext]_(Records(d)!recordVars)]_vars
=============================================================================
