----------------- MODULE PersonalSyncConvergence_proofs -----------------
(***************************************************************************)
(* What the two stores promise together, for any set of records, origins   *)
(* and tags and any bounds: a reused origin fails closed, divergences      *)
(* resolve, a store at its peer's head holds what the peer holds, one that *)
(* lags can get further but for a reused origin or an epoch left empty,    *)
(* the promotion of one to the other implements PromotionStream and the    *)
(* records of each PersonalRecords.                                        *)
(*                                                                         *)
(* The argument rests on where a record comes from.  A record a store      *)
(* knows was captured there, and then the store has a row for it in its    *)
(* current epoch, or is in the peer's own stream, and then no reset of the *)
(* peer can remove it.                                                     *)
(***************************************************************************)
EXTENDS PersonalSyncStream, PersonalSync_proofs, WellFoundedInduction

---------------------------------------------------------------------------
(* One store acts at a time.                                               *)

(* The operations that change what a store holds, promotes or has read.    *)
Acts(d) ==
  \/ \E o \in Offered[d], r \in Record, ts \in SUBSET Tag : Capture(d, o, r, ts)
  \/ \E r \in Record : Forget(d, r)
  \/ BumpEpoch(d)
  \/ ResetReplica(d)
  \/ \E b \in net : Import(d, b)

Rests(d) ==
  /\ known'[d] = known[d]
  /\ tombstoned'[d] = tombstoned[d]
  /\ sightings'[d] = sightings[d]
  /\ captures'[d] = captures[d]
  /\ replicas'[d] = replicas[d]
  /\ head'[d] = head[d]
  /\ changes'[d] = changes[d]
  /\ cursor'[d] = cursor[d]

LEMMA OneActs ==
  ASSUME TypeOK, NEW d \in Device, NEW e \in Device, Acts(d), e # d
  PROVE  Rests(e)
<1>1. ASSUME NEW o \in Offered[d], NEW r \in Record, NEW ts \in SUBSET Tag,
             Capture(d, o, r, ts)
      PROVE  Rests(e)
  <2>1. head'[e] = head[e] /\ changes'[e] = changes[e]
    BY <1>1 DEF Capture, Promote, streamVars, TypeOK
  <2>2. QED
    BY <1>1, <2>1 DEF Capture, Rests, TypeOK, replicaVars
<1>2. ASSUME NEW r \in Record, Forget(d, r)
      PROVE  Rests(e)
  BY <1>2 DEF Forget, Promote, Rests, TypeOK, replicaVars
<1>3. CASE BumpEpoch(d)
  BY <1>3 DEF BumpEpoch, Rests, TypeOK, recordVars, replicaVars
<1>4. CASE ResetReplica(d)
  BY <1>4 DEF ResetReplica, Rests, TypeOK, streamVars
<1>5. ASSUME NEW b \in net, Import(d, b)
      PROVE  Rests(e)
  BY <1>5 DEF Import, Rests, TypeOK, streamVars
<1>6. QED
  BY <1>1, <1>2, <1>3, <1>4, <1>5 DEF Acts

LEMMA ActsOrRests ==
  ASSUME TypeOK, [Next]_vars, NEW d \in Device
  PROVE  Acts(d) \/ Rests(d)
<1>1. ASSUME NEW e \in Device, Local(e)
      PROVE  Acts(e) \/ Rests(d)
  BY <1>1 DEF Local, Acts, FlagDivergence, AcknowledgeDivergence, Rests, recordVars,
              streamVars, replicaVars
<1>2. ASSUME NEW e \in Device, Sync(e)
      PROVE  Acts(e) \/ Rests(d)
  BY <1>2 DEF Sync, Acts, Export, ImportStale, AcknowledgePromotions, Rests, recordVars,
              streamVars, replicaVars
<1>3. ASSUME (\E b \in net : Lose(b)) \/ UNCHANGED vars
      PROVE  Rests(d)
  BY <1>3 DEF Lose, vars, Rests, recordVars, streamVars, replicaVars
<1>4. QED
  BY <1>1, <1>2, <1>3, OneActs DEF Next

\* A bundle that was not there was exported by its source, and changes nothing
\* else.
LEMMA NewBundle ==
  ASSUME TypeOK, [Next]_vars, NEW b \in net', b \notin net
  PROVE  /\ b.source \in Device
         /\ \A d \in Device : Rests(d)
         /\ \E from \in RequestedFrom(b.source) :
              /\ from \in Cursor
              /\ b.from = from
              /\ b.through \in {from} \cup {row.cursor : row \in Chunk(b.source, from)}
              /\ b.changes = {Wire(b.source, row) : row \in Chunk(b.source, from)}
              /\ b.flagged = ShippedPairs(b.source, b.through, flagged[b.source])
<1>1. PICK d \in Device : \E from \in RequestedFrom(d) : Export(d, from)
  BY BundleOrigins
<1>2. PICK from \in RequestedFrom(d) : Export(d, from)
  BY <1>1
<1>3. b \in Exports(d, from)
  BY <1>2 DEF Export
<1>4. \A e \in Device : Rests(e)
  BY <1>2 DEF Export, Rests, recordVars, streamVars, replicaVars
<1>5. from \in Cursor
  BY RequestedType
<1>6. QED
  BY <1>3, <1>4, <1>5, ExportsParts

---------------------------------------------------------------------------
(* What each operation does to the store that runs it.                     *)

RowsFor(d, r)       == {row \in changes[d] : row.record = r}
TombstonesFor(d, r) == {row \in RowsFor(d, r) : row.operation = "tombstone"}

(* A record with a row in a store's stream can never be deleted there.     *)
Promoted(d, r) == RowsFor(d, r) # {}

LEMMA CaptureEffect ==
  ASSUME TypeOK, NEW d \in Device, NEW o \in Offered[d], NEW r \in Record,
         NEW ts \in SUBSET Tag, Capture(d, o, r, ts)
  PROVE  /\ known'[d] = known[d] \cup {r}
         /\ tombstoned'[d] = tombstoned[d]
         /\ sightings'[d] = sightings[d] \cup {<<o, r>>}
         /\ captures'[d] = captures[d] \cup {<<o, r>>}
         /\ cursor'[d] = cursor[d]
         /\ head'[d].epoch = head[d].epoch
         /\ \/ <<o, r>> \in captures[d]
            \/ \E row \in RowsFor(d, r)' : /\ row.cursor.epoch = head'[d].epoch
                                           /\ Before(head[d], row.cursor)
<1>1. /\ known'[d] = known[d] \cup {r}
      /\ tombstoned'[d] = tombstoned[d]
      /\ sightings'[d] = sightings[d] \cup {<<o, r>>}
      /\ captures'[d] = captures[d] \cup {<<o, r>>}
      /\ cursor'[d] = cursor[d]
  BY DEF Capture, TypeOK, replicaVars
<1>2. CASE Promote(d, "upsert", r)
  <2> DEFINE row == [cursor |-> NextCursor(d), operation |-> "upsert", record |-> r]
  <2>1. head'[d] = NextCursor(d) /\ row \in changes'[d]
    BY <1>2 DEF Promote, TypeOK
  <2>2. NextCursor(d).epoch = head[d].epoch /\ Before(head[d], NextCursor(d))
    BY NextCursorAdvances DEF NextCursor, TypeOK, Cursor
  <2>3. QED
    BY <1>1, <2>1, <2>2 DEF RowsFor
<1>3. CASE <<o, r>> \in captures[d] /\ UNCHANGED streamVars
  BY <1>1, <1>3 DEF streamVars
<1>4. QED
  BY <1>2, <1>3 DEF Capture

LEMMA ForgetEffect ==
  ASSUME TypeOK, NEW d \in Device, NEW r \in Record, Forget(d, r)
  PROVE  /\ r \in known[d]
         /\ known'[d] = known[d]
         /\ tombstoned'[d] = tombstoned[d] \cup {r}
         /\ sightings'[d] = sightings[d]
         /\ captures'[d] = captures[d]
         /\ cursor'[d] = cursor[d]
         /\ head'[d].epoch = head[d].epoch
         /\ \E row \in TombstonesFor(d, r)' : /\ row.cursor.epoch = head'[d].epoch
                                              /\ Before(head[d], row.cursor)
<1> DEFINE row == [cursor |-> NextCursor(d), operation |-> "tombstone", record |-> r]
<1>1. /\ r \in known[d]
      /\ known'[d] = known[d]
      /\ tombstoned'[d] = tombstoned[d] \cup {r}
      /\ sightings'[d] = sightings[d]
      /\ captures'[d] = captures[d]
      /\ cursor'[d] = cursor[d]
  BY DEF Forget, TypeOK, replicaVars
<1>2. head'[d] = NextCursor(d) /\ row \in changes'[d]
  BY DEF Forget, Promote, TypeOK
<1>3. NextCursor(d).epoch = head[d].epoch /\ Before(head[d], NextCursor(d))
  BY NextCursorAdvances DEF NextCursor, TypeOK, Cursor
<1>4. QED
  BY <1>1, <1>2, <1>3 DEF TombstonesFor, RowsFor

LEMMA BumpEffect ==
  ASSUME TypeOK, NEW d \in Device, BumpEpoch(d)
  PROVE  /\ known'[d] = known[d]
         /\ tombstoned'[d] = tombstoned[d]
         /\ sightings'[d] = sightings[d]
         /\ captures'[d] = captures[d]
         /\ cursor'[d] = cursor[d]
         /\ \A r \in CapturedRecords(d) :
              \E row \in RowsFor(d, r)' :
                /\ row.cursor.epoch = head'[d].epoch
                /\ r \in tombstoned[d] => row.operation = "tombstone"
<1> DEFINE e == head[d].epoch + 1
           rowOf(r) ==
             [cursor    |-> [epoch    |-> e,
                             sequence |-> Cardinality({x \in CapturedRecords(d) : x <= r})],
              operation |-> IF r \in tombstoned[d] THEN "tombstone" ELSE "upsert",
              record    |-> r]
<1>1. /\ head'[d].epoch = e
      /\ changes'[d] = changes[d] \cup Snapshot(d, e)
      /\ UNCHANGED <<recordVars, replicaVars>>
  BY DEF BumpEpoch, TypeOK
<1>2. Snapshot(d, e) = {rowOf(r) : r \in CapturedRecords(d)}
  BY DEF Snapshot
<1>3. ASSUME NEW r \in CapturedRecords(d)
      PROVE  /\ rowOf(r) \in RowsFor(d, r)'
             /\ rowOf(r).cursor.epoch = head'[d].epoch
             /\ r \in tombstoned[d] => rowOf(r).operation = "tombstone"
  <2>1. rowOf(r) \in changes'[d]
    BY <1>1, <1>2
  <2>2. QED
    BY <1>1, <2>1 DEF RowsFor
<1> HIDE DEF rowOf, e
<1>4. QED
  BY <1>1, <1>3 DEF recordVars, replicaVars

LEMMA ResetEffect ==
  ASSUME TypeOK, NEW d \in Device, ResetReplica(d)
  PROVE  /\ known'[d] = known[d] \ ReplicaOnly(d)
         /\ tombstoned'[d] = tombstoned[d] \ ReplicaOnly(d)
         /\ sightings'[d] = {s \in sightings[d] : s[2] \notin ReplicaOnly(d)}
         /\ captures'[d] = captures[d]
         /\ head'[d] = head[d]
         /\ changes'[d] = changes[d]
         /\ cursor'[d].epoch = cursor[d].epoch /\ cursor'[d].sequence = 0
         /\ \A r \in ReplicaOnly(d) : r \notin CapturedRecords(d) /\ ~Promoted(d, r)
<1>1. cursor'[d].epoch = cursor[d].epoch /\ cursor'[d].sequence = 0
  BY DEF ResetReplica, ReenrolledCursor, TypeOK, Cursor
<1>2. \A r \in ReplicaOnly(d) : r \notin CapturedRecords(d) /\ ~Promoted(d, r)
  BY DEF ResetReplica, Deletable, ReplicaOnly, Promoted, RowsFor
<1>3. QED
  BY <1>1, <1>2 DEF ResetReplica, TypeOK, streamVars

\* What an import adds comes from the bundle; a bundle that advances the cursor
\* adds all it carries.
LEMMA ImportEffect ==
  ASSUME TypeOK, NEW d \in Device, NEW b \in net, Import(d, b)
  PROVE  /\ b.source = Peer(d)
         /\ known[d] \subseteq known'[d]
         /\ \A r \in known'[d] \ known[d] : \E c \in b.changes : c.record = r
         /\ tombstoned[d] \subseteq tombstoned'[d]
         /\ \A r \in tombstoned'[d] \ tombstoned[d] :
              \E c \in b.changes : c.record = r /\ c.tombstoned
         /\ sightings[d] \subseteq sightings'[d]
         /\ \A s \in sightings'[d] \ sightings[d] :
              \E c \in b.changes : \E o \in c.origins : s = <<o, c.record>>
         /\ captures'[d] = captures[d]
         /\ head'[d] = head[d]
         /\ changes'[d] = changes[d]
         /\ cursor'[d] = b.through
         /\ b.through # cursor[d] =>
              /\ Before(cursor[d], b.through) /\ b.from = cursor[d]
              /\ \A c \in b.changes :
                   /\ c.record \in known'[d]
                   /\ c.operation = "tombstone" => c.record \in tombstoned'[d]
                   /\ \A o \in c.origins : <<o, c.record>> \in sightings'[d]
<1>1. /\ known'[d] = known[d] \cup MergedRecords(d, b)
      /\ tombstoned'[d] = tombstoned[d] \cup MergedTombstones(d, b)
      /\ sightings'[d] = sightings[d] \cup MergedSightings(d, b)
  BY DEF Import, TypeOK
<1>2. Merged(d, b) \subseteq b.changes
  BY DEF Merged
<1>3. /\ b.source = Peer(d)
      /\ captures'[d] = captures[d]
      /\ head'[d] = head[d]
      /\ changes'[d] = changes[d]
      /\ cursor'[d] = b.through
  BY DEF Import, TypeOK, streamVars
<1>4. /\ \A r \in known'[d] \ known[d] : \E c \in b.changes : c.record = r
      /\ \A r \in tombstoned'[d] \ tombstoned[d] :
           \E c \in b.changes : c.record = r /\ c.tombstoned
  BY <1>1, <1>2 DEF MergedRecords, MergedTombstones
<1>5. \A s \in sightings'[d] \ sightings[d] :
        \E c \in b.changes : \E o \in c.origins : s = <<o, c.record>>
  BY <1>1, <1>2 DEF MergedSightings
<1>6. ASSUME b.through # cursor[d]
      PROVE  /\ Before(cursor[d], b.through) /\ b.from = cursor[d]
             /\ \A c \in b.changes :
                  /\ c.record \in known'[d]
                  /\ c.operation = "tombstone" => c.record \in tombstoned'[d]
                  /\ \A o \in c.origins : <<o, c.record>> \in sightings'[d]
  <2>1. Before(cursor[d], b.through) /\ b.from = cursor[d]
    BY <1>6 DEF Import, Acceptable, Advances
  <2>2. Merged(d, b) = b.changes
    BY <2>1 DEF Merged, Advances
  <2>3. \A c \in b.changes : c.operation = "tombstone" => c.tombstoned
    BY DEF Import, ValidPayload
  <2>4. QED
    BY <1>1, <2>1, <2>2, <2>3 DEF MergedRecords, MergedTombstones, MergedSightings
<1>7. QED
  BY <1>1, <1>3, <1>4, <1>5, <1>6

---------------------------------------------------------------------------
(* Where a store's records come from.                                      *)

\* The foreign keys: tombstones, sightings and divergences refer to records
\* that are here, and a capture is also a sighting.
RecordsReferred ==
  \A d \in Device :
    /\ tombstoned[d] \subseteq known[d]
    /\ captures[d] \subseteq sightings[d]
    /\ \A s \in sightings[d] : s[2] \in known[d]
    /\ \A p \in flagged[d] : {p[1], p[2]} \subseteq known[d]

\* What a bundle says of a record, its source still holds: the record is in
\* the source's stream, so no reset of the source removes it.
BundlesBacked ==
  \A b \in net : \A c \in b.changes :
    /\ Promoted(b.source, c.record)
    /\ c.tombstoned => c.record \in tombstoned[b.source]
    /\ \A o \in c.origins : <<o, c.record>> \in sightings[b.source]

\* A record a store knows was captured here, or its peer has promoted it.
RecordsSourced ==
  \A d \in Device : \A r \in known[d] :
    r \in CapturedRecords(d) \/ Promoted(Peer(d), r)

LEMMA PromotedKept ==
  ASSUME TypeOK, [Next]_vars, NEW d \in Device, NEW r, Promoted(d, r)
  PROVE  Promoted(d, r)'
  BY StreamsAppend DEF Promoted, RowsFor, Appends

LEMMA CapturesKept ==
  ASSUME TypeOK, [Next]_vars, NEW d \in Device
  PROVE  captures[d] \subseteq captures'[d]
<1>1. ASSUME NEW o \in Offered[d], NEW q \in Record, NEW ts \in SUBSET Tag,
             Capture(d, o, q, ts)
      PROVE  captures[d] \subseteq captures'[d]
  BY <1>1, CaptureEffect
<1>2. QED
  BY <1>1, ActsOrRests, ForgetEffect, BumpEffect, ResetEffect, ImportEffect
     DEF Acts, Rests

\* A sighting or a tombstone of a record a store has promoted stays.
LEMMA PromotedRecordsStay ==
  ASSUME TypeOK, [Next]_vars, NEW d \in Device, NEW r, Promoted(d, r)
  PROVE  /\ r \in known[d] => r \in known'[d]
         /\ r \in tombstoned[d] => r \in tombstoned'[d]
         /\ \A s \in sightings[d] : s[2] = r => s \in sightings'[d]
<1>1. CASE ResetReplica(d)
  BY <1>1, ResetEffect
<1>2. ASSUME ~ResetReplica(d)
      PROVE  /\ known[d] \subseteq known'[d]
             /\ tombstoned[d] \subseteq tombstoned'[d]
             /\ sightings[d] \subseteq sightings'[d]
  <2>1. ASSUME NEW o \in Offered[d], NEW q \in Record, NEW ts \in SUBSET Tag,
               Capture(d, o, q, ts)
        PROVE  sightings[d] \subseteq sightings'[d]
    BY <2>1, CaptureEffect
  <2>2. sightings[d] \subseteq sightings'[d]
    BY <1>2, <2>1, ActsOrRests, ForgetEffect, BumpEffect, ImportEffect DEF Acts, Rests
  <2>3. QED
    BY <1>2, <2>2, RecordsKept
<1>3. QED
  BY <1>1, <1>2

LEMMA BackedStep ==
  ASSUME TypeOK, BundlesBacked, [Next]_vars
  PROVE  BundlesBacked'
<1> SUFFICES ASSUME NEW b \in net', NEW c \in b.changes
             PROVE  /\ Promoted(b.source, c.record)'
                    /\ c.tombstoned => c.record \in tombstoned'[b.source]
                    /\ \A o \in c.origins : <<o, c.record>> \in sightings'[b.source]
  BY DEF BundlesBacked, Promoted, RowsFor
<1>1. CASE b \in net
  <2>1. b.source \in Device /\ Promoted(b.source, c.record)
    BY <1>1 DEF TypeOK, Bundle, BundlesBacked
  <2>2. QED
    BY <1>1, <2>1, PromotedKept, PromotedRecordsStay DEF BundlesBacked
<1>2. CASE b \notin net
  <2>1. /\ b.source \in Device /\ Rests(b.source)
        /\ \E from \in RequestedFrom(b.source) :
             b.changes = {Wire(b.source, row) : row \in Chunk(b.source, from)}
    BY <1>2, NewBundle
  <2>2. PICK row \in changes[b.source] : c = Wire(b.source, row)
    BY <2>1 DEF Chunk
  <2>3. /\ c.record = row.record
        /\ c.tombstoned = (row.record \in tombstoned[b.source])
        /\ c.origins = {o \in Origin : <<o, row.record>> \in sightings[b.source]}
    BY <2>2 DEF Wire
  <2>4. Promoted(b.source, c.record)
    BY <2>2, <2>3 DEF Promoted, RowsFor
  <2>5. /\ c.tombstoned => c.record \in tombstoned[b.source]
        /\ \A o \in c.origins : <<o, c.record>> \in sightings[b.source]
    BY <2>3
  <2>6. QED
    BY <2>1, <2>4, <2>5, PromotedKept DEF Rests
<1>3. QED
  BY <1>1, <1>2

\* A divergence appears where both records are, or comes with a bundle whose
\* records are here once it is merged.
LEMMA PairOrigins ==
  ASSUME TypeOK, [Next]_vars, NEW d \in Device, NEW p \in flagged'[d]
  PROVE  \/ p \in flagged[d] /\ ~ResetReplica(d)
         \/ p \in flagged[d] /\ {p[1], p[2]} \cap ReplicaOnly(d) = {}
         \/ {p[1], p[2]} \subseteq known'[d]
<1>1. ASSUME NEW e \in Device, NEW q \in Pair, FlagDivergence(e, q)
      PROVE  p \in flagged[d] \/ {p[1], p[2]} \subseteq known'[d]
  BY <1>1 DEF FlagDivergence, TypeOK, recordVars
<1>2. ASSUME NEW e \in Device, ResetReplica(e), e # d
      PROVE  p \in flagged[d]
  BY <1>2 DEF ResetReplica, TypeOK
<1>3. ASSUME ResetReplica(d)
      PROVE  p \in flagged[d] /\ {p[1], p[2]} \cap ReplicaOnly(d) = {}
  BY <1>3 DEF ResetReplica, TypeOK
<1>4. ASSUME NEW e \in Device, NEW b \in net, Import(e, b)
      PROVE  p \in flagged[d] \/ {p[1], p[2]} \subseteq known'[d]
  <2>1. CASE e = d
    <3>1. flagged'[d] = flagged[d] \cup b.flagged /\ PairsResolve(d, b)
      BY <1>4, <2>1 DEF Import, TypeOK
    <3>2. known'[d] = known[d] \cup MergedRecords(d, b)
      BY <1>4, <2>1 DEF Import, TypeOK
    <3>3. QED
      BY <3>1, <3>2 DEF PairsResolve
  <2>2. CASE e # d
    BY <1>4, <2>2 DEF Import, TypeOK
  <2>3. QED
    BY <2>1, <2>2
<1>5. ASSUME NEW e \in Device, Local(e), ~ResetReplica(e),
             \A q \in Pair : ~FlagDivergence(e, q)
      PROVE  flagged' = flagged
  BY <1>5 DEF Local, Capture, Forget, BumpEpoch, AcknowledgeDivergence, divergenceVars
<1>6. ASSUME NEW e \in Device, Sync(e), \A b \in net : ~Import(e, b)
      PROVE  flagged' = flagged
  BY <1>6 DEF Sync, Export, ImportStale, AcknowledgePromotions, divergenceVars
<1>7. ASSUME (\E b \in net : Lose(b)) \/ UNCHANGED vars
      PROVE  flagged' = flagged
  BY <1>7 DEF Lose, vars, divergenceVars
<1>8. QED
  BY <1>1, <1>2, <1>3, <1>4, <1>5, <1>6, <1>7 DEF Next

LEMMA ReferredStep ==
  ASSUME TypeOK, RecordsReferred, BundlesBacked, [Next]_vars
  PROVE  RecordsReferred'
<1> SUFFICES ASSUME NEW d \in Device
             PROVE  /\ tombstoned'[d] \subseteq known'[d]
                    /\ captures'[d] \subseteq sightings'[d]
                    /\ \A s \in sightings'[d] : s[2] \in known'[d]
                    /\ \A p \in flagged'[d] : {p[1], p[2]} \subseteq known'[d]
  BY DEF RecordsReferred
<1>1. /\ tombstoned[d] \subseteq known[d]
      /\ captures[d] \subseteq sightings[d]
      /\ \A s \in sightings[d] : s[2] \in known[d]
      /\ \A p \in flagged[d] : {p[1], p[2]} \subseteq known[d]
  BY DEF RecordsReferred
<1>2. /\ tombstoned'[d] \subseteq known'[d]
      /\ captures'[d] \subseteq sightings'[d]
      /\ \A s \in sightings'[d] : s[2] \in known'[d]
  <2>1. ASSUME NEW b \in net, Import(d, b)
        PROVE  /\ tombstoned'[d] \subseteq known'[d]
               /\ captures'[d] \subseteq sightings'[d]
               /\ \A s \in sightings'[d] : s[2] \in known'[d]
    <3>1. /\ known'[d] = known[d] \cup MergedRecords(d, b)
          /\ tombstoned'[d] = tombstoned[d] \cup MergedTombstones(d, b)
          /\ sightings'[d] = sightings[d] \cup MergedSightings(d, b)
      BY <2>1 DEF Import, TypeOK
    <3>2. MergedTombstones(d, b) \subseteq MergedRecords(d, b)
      BY DEF MergedTombstones, MergedRecords
    <3>3. \A s \in MergedSightings(d, b) : s[2] \in MergedRecords(d, b)
      BY DEF MergedRecords, MergedSightings
    <3>4. QED
      BY <1>1, <2>1, <3>1, <3>2, <3>3, ImportEffect
  <2>2. CASE ResetReplica(d)
    <3>1. \A s \in captures[d] : s[2] \notin ReplicaOnly(d)
      BY DEF ReplicaOnly, CapturedRecords
    <3>2. QED
      BY <1>1, <2>2, <3>1, ResetEffect
  <2>3. ASSUME NEW o \in Offered[d], NEW r \in Record, NEW ts \in SUBSET Tag,
               Capture(d, o, r, ts)
        PROVE  /\ tombstoned'[d] \subseteq known'[d]
               /\ captures'[d] \subseteq sightings'[d]
               /\ \A s \in sightings'[d] : s[2] \in known'[d]
    <3> DEFINE new == <<o, r>>
    <3>1. /\ known'[d] = known[d] \cup {r}
          /\ tombstoned'[d] = tombstoned[d]
          /\ sightings'[d] = sightings[d] \cup {new}
          /\ captures'[d] = captures[d] \cup {new}
      BY <2>3, CaptureEffect
    <3>2. new[2] = r
      OBVIOUS
    <3> HIDE DEF new
    <3>3. QED
      BY <1>1, <3>1, <3>2
  <2>4. ASSUME NEW r \in Record, Forget(d, r)
        PROVE  /\ tombstoned'[d] \subseteq known'[d]
               /\ captures'[d] \subseteq sightings'[d]
               /\ \A s \in sightings'[d] : s[2] \in known'[d]
    BY <1>1, <2>4, ForgetEffect
  <2>5. QED
    BY <1>1, <2>1, <2>2, <2>3, <2>4, ActsOrRests, BumpEffect DEF Acts, Rests
<1>3. ASSUME NEW p \in flagged'[d]
      PROVE  {p[1], p[2]} \subseteq known'[d]
  <2>1. CASE p \in flagged[d] /\ ~ResetReplica(d)
    BY <1>1, <2>1, RecordsKept
  <2>2. CASE p \in flagged[d] /\ {p[1], p[2]} \cap ReplicaOnly(d) = {} /\ ResetReplica(d)
    BY <1>1, <2>2, ResetEffect
  <2>3. QED
    BY <2>1, <2>2, PairOrigins
<1>4. QED
  BY <1>2, <1>3

LEMMA SourcedStep ==
  ASSUME TypeOK, RecordsSourced, BundlesBacked, [Next]_vars
  PROVE  RecordsSourced'
<1> SUFFICES ASSUME NEW d \in Device, NEW r \in known'[d]
             PROVE  r \in CapturedRecords(d)' \/ Promoted(Peer(d), r)'
  BY DEF RecordsSourced
<1>1. Peer(d) \in Device
  BY PeerOf
<1>2. CASE r \in known[d]
  BY <1>1, <1>2, CapturesKept, PromotedKept DEF RecordsSourced, CapturedRecords
<1>3. CASE r \notin known[d]
  <2>1. ASSUME NEW o \in Offered[d], NEW q \in Record, NEW ts \in SUBSET Tag,
               Capture(d, o, q, ts)
        PROVE  r \in CapturedRecords(d)'
    <3>1. r = q /\ <<o, q>> \in captures'[d]
      BY <1>3, <2>1, CaptureEffect
    <3>2. QED
      BY <3>1 DEF CapturedRecords
  <2>2. ASSUME NEW b \in net, Import(d, b)
        PROVE  Promoted(Peer(d), r)'
    <3>1. \E c \in b.changes : c.record = r /\ b.source = Peer(d)
      BY <1>3, <2>2, ImportEffect
    <3>2. QED
      BY <1>1, <3>1, PromotedKept DEF BundlesBacked
  <2>3. QED
    BY <1>3, <2>1, <2>2, ActsOrRests, ForgetEffect, BumpEffect, ResetEffect
       DEF Acts, Rests
<1>4. QED
  BY <1>2, <1>3

---------------------------------------------------------------------------
(* Sighting origins.                                                       *)

\* In one store an origin names one record, and every sighting was captured,
\* here or in the peer.
SightingsCaptured ==
  \A d \in Device :
    /\ \A s, t \in sightings[d] : s[1] = t[1] => s[2] = t[2]
    /\ \A s \in sightings[d] : s \in captures[d] \/ s \in captures[Peer(d)]

(* What a bundle from the peer would merge is a sighting of the peer.      *)
LEMMA MergedAreBacked ==
  ASSUME BundlesBacked, NEW d \in Device, NEW b \in net, b.source = Peer(d)
  PROVE  MergedSightings(d, b) \subseteq sightings[Peer(d)]
<1> SUFFICES ASSUME NEW s \in MergedSightings(d, b)
             PROVE  s \in sightings[Peer(d)]
  OBVIOUS
<1>1. PICK c \in b.changes : s \in c.origins \X {c.record}
  BY DEF MergedSightings, Merged
<1>2. PICK o \in c.origins : s = <<o, c.record>>
  BY <1>1
<1>3. QED
  BY <1>2 DEF BundlesBacked

LEMMA CapturedStep ==
  ASSUME TypeOK, BundlesBacked, SightingsCaptured, [Next]_vars
  PROVE  SightingsCaptured'
<1> SUFFICES ASSUME NEW d \in Device
             PROVE  /\ \A s, t \in sightings'[d] : s[1] = t[1] => s[2] = t[2]
                    /\ \A s \in sightings'[d] : s \in captures'[d] \/ s \in captures'[Peer(d)]
  BY DEF SightingsCaptured
<1>1. /\ \A s, t \in sightings[d] : s[1] = t[1] => s[2] = t[2]
      /\ \A e \in Device : \A s \in sightings[e] : s \in captures[e] \/ s \in captures[Peer(e)]
      /\ Peer(d) \in Device /\ Peer(Peer(d)) = d
  BY PeerOf, PeerOfPeer DEF SightingsCaptured
<1>2. captures[d] \subseteq captures'[d] /\ captures[Peer(d)] \subseteq captures'[Peer(d)]
  BY <1>1, CapturesKept
<1>3. ASSUME NEW o \in Offered[d], NEW r \in Record, NEW ts \in SUBSET Tag,
             Capture(d, o, r, ts)
      PROVE  /\ \A s, t \in sightings'[d] : s[1] = t[1] => s[2] = t[2]
             /\ \A s \in sightings'[d] : s \in captures'[d] \/ s \in captures'[Peer(d)]
  <2> DEFINE new == <<o, r>>
  <2>1. \A s \in sightings[d] : s[1] = o => s[2] = r
    BY <1>3 DEF Capture
  <2>2. sightings'[d] = sightings[d] \cup {new} /\ captures'[d] = captures[d] \cup {new}
    BY <1>3, CaptureEffect
  <2>3. new[1] = o /\ new[2] = r
    OBVIOUS
  <2> HIDE DEF new
  <2>4. \A s, t \in sightings'[d] : s[1] = t[1] => s[2] = t[2]
    BY <1>1, <2>1, <2>2, <2>3
  <2>5. \A s \in sightings'[d] : s \in captures'[d] \/ s \in captures'[Peer(d)]
    BY <1>1, <1>2, <2>2
  <2>6. QED
    BY <2>4, <2>5
<1>4. ASSUME NEW b \in net, Import(d, b)
      PROVE  /\ \A s, t \in sightings'[d] : s[1] = t[1] => s[2] = t[2]
             /\ \A s \in sightings'[d] : s \in captures'[d] \/ s \in captures'[Peer(d)]
  <2>1. /\ sightings'[d] = sightings[d] \cup MergedSightings(d, b)
        /\ MergedSightings(d, b) \subseteq sightings[Peer(d)]
    BY <1>4, MergedAreBacked DEF Import, TypeOK
  <2>2. \A s \in MergedSightings(d, b), t \in sightings[d] \cup MergedSightings(d, b) :
          s[1] = t[1] => s[2] = t[2]
    BY <1>4 DEF Import, OriginsFit
  <2>3. QED
    BY <1>1, <1>2, <2>1, <2>2
<1>5. ASSUME sightings'[d] \subseteq sightings[d]
      PROVE  /\ \A s, t \in sightings'[d] : s[1] = t[1] => s[2] = t[2]
             /\ \A s \in sightings'[d] : s \in captures'[d] \/ s \in captures'[Peer(d)]
  BY <1>1, <1>2, <1>5
<1>6. QED
  BY <1>3, <1>4, <1>5, ActsOrRests, ForgetEffect, BumpEffect, ResetEffect DEF Acts, Rests

(* Sightings that disagree are captures, one of each store.                *)
LEMMA DisagreeingAreCaptured ==
  ASSUME RecordsReferred, SightingsCaptured, NEW d \in Device, NEW e \in Device,
         NEW s \in sightings[d], NEW t \in sightings[e], s[1] = t[1], s[2] # t[2]
  PROVE  d # e /\ s \in captures[d] /\ t \in captures[e]
<1>1. d # e
  BY DEF SightingsCaptured
<1>2. e = Peer(d) /\ Peer(e) = d
  BY <1>1, PeerOf
<1>3. s \notin sightings[e] /\ t \notin sightings[d]
  BY DEF SightingsCaptured
<1>4. QED
  BY <1>1, <1>2, <1>3 DEF SightingsCaptured, RecordsReferred

(* What the source of a bundle holds fits in but for a reused origin.      *)
LEMMA BackedFit ==
  ASSUME TypeOK, RecordsReferred, SightingsCaptured, NEW d \in Device, NEW b,
         Advances(d, b),
         \A c \in b.changes : \A o \in c.origins :
           o \in Origin /\ <<o, c.record>> \in sightings[Peer(d)]
  PROVE  OriginsFit(d, b) <=> ~CarriesReused(b)
<1>1. Peer(d) \in Device /\ Peer(d) # d /\ Peer(Peer(d)) = d
  BY PeerOf, PeerOfPeer
<1>2. \A s : s \in MergedSightings(d, b) <=>
               \E c \in b.changes : \E o \in c.origins : s = <<o, c.record>>
  BY DEF MergedSightings, Merged
<1>3. ASSUME CarriesReused(b)
      PROVE  ~OriginsFit(d, b)
  <2>1. PICK c \in b.changes : \E o \in c.origins : o \in Reused
    BY <1>3 DEF CarriesReused
  <2>2. PICK o \in c.origins : o \in Reused
    BY <2>1
  <2>3. PICK x \in captures[d], y \in captures[Peer(d)] :
          x[1] = o /\ y[1] = o /\ x[2] # y[2]
    <3>1. PICK e \in Device : \E x \in captures[e], y \in captures[Peer(e)] :
            x[1] = o /\ y[1] = o /\ x[2] # y[2]
      BY <2>2 DEF Reused
    <3>2. CASE e = d
      BY <3>1, <3>2
    <3>3. CASE e = Peer(d)
      BY <1>1, <3>1, <3>3
    <3>4. QED
      BY <3>2, <3>3, PeerOf
  <2>4. x \in sightings[d] /\ y \in sightings[Peer(d)]
    BY <1>1, <2>3 DEF RecordsReferred
  <2> DEFINE s == <<o, c.record>>
  <2>5. s[1] = o /\ s \in sightings[Peer(d)] /\ s \in MergedSightings(d, b)
    BY <1>2, <2>2
  <2> HIDE DEF s
  <2>6. s[2] = y[2]
    BY <1>1, <2>3, <2>4, <2>5 DEF SightingsCaptured
  <2>7. QED
    BY <2>3, <2>4, <2>5, <2>6 DEF OriginsFit
<1>4. ASSUME ~OriginsFit(d, b)
      PROVE  CarriesReused(b)
  <2>1. PICK s \in MergedSightings(d, b), t \in sightings[d] \cup MergedSightings(d, b) :
          s[1] = t[1] /\ s[2] # t[2]
    BY <1>4 DEF OriginsFit
  <2>2. MergedSightings(d, b) \subseteq sightings[Peer(d)]
    BY <1>2
  <2>3. s \in captures[Peer(d)] /\ t \in captures[d]
    BY <1>1, <2>1, <2>2, DisagreeingAreCaptured
  <2>4. PICK c \in b.changes : \E o \in c.origins : s = <<o, c.record>>
    BY <1>2, <2>1
  <2>5. s[1] \in c.origins /\ s[1] \in Origin
    BY <2>4
  <2>6. s[1] \in Reused
    BY <1>1, <2>1, <2>3, <2>5 DEF Reused
  <2>7. QED
    BY <2>5, <2>6 DEF CarriesReused
<1>5. QED
  BY <1>3, <1>4

LEMMA ReuseCaught ==
  ASSUME TypeOK, RecordsReferred, BundlesBacked, SightingsCaptured
  PROVE  ReuseFailsClosed
<1>1. ASSUME NEW d \in Device, NEW b \in net, b.source = Peer(d), Advances(d, b)
      PROVE  OriginsFit(d, b) <=> ~CarriesReused(b)
  <2>1. \A c \in b.changes : c.origins \subseteq Origin
    BY DEF TypeOK, Bundle, WireChange
  <2>2. \A c \in b.changes : \A o \in c.origins :
          o \in Origin /\ <<o, c.record>> \in sightings[Peer(d)]
    BY <1>1, <2>1 DEF BundlesBacked
  <2>3. QED
    BY <1>1, <2>2, BackedFit
<1>2. QED
  BY <1>1, DisagreeingAreCaptured DEF ReuseFailsClosed

(* What a record refers to and where it comes from belong together.        *)
SourceInv == RecordsReferred /\ BundlesBacked /\ RecordsSourced /\ SightingsCaptured

LEMMA SourceInvariant == Spec => []SourceInv
<1>1. Init => SourceInv
  BY DEF Init, SourceInv, RecordsReferred, BundlesBacked, RecordsSourced,
         SightingsCaptured
<1>2. TypeOK /\ SourceInv /\ [Next]_vars => SourceInv'
  BY BackedStep, ReferredStep, SourcedStep, CapturedStep DEF SourceInv
<1>3. QED
  BY TypeCorrect, <1>1, <1>2, PTL DEF Spec

\* An origin that callers of both stores gave to different records never names
\* two records in one store, and only a bundle that carries such an origin is
\* refused because of its origins (lib.rs capture, sync.rs merge_record).
THEOREM OriginReuseFailsClosed == Spec => []ReuseFailsClosed
<1>1. TypeOK /\ SourceInv => ReuseFailsClosed
  BY ReuseCaught DEF SourceInv
<1>2. QED
  BY TypeCorrect, SourceInvariant, <1>1, PTL

---------------------------------------------------------------------------
(* The epoch a store promotes in.                                          *)

(* One of the rows belongs to the epoch the store is in.                   *)
Current(d, rows) == \E row \in rows : row.cursor.epoch = head[d].epoch

\* A captured record has a row in the current epoch: the snapshot of a bump
\* renews it.
CapturesCurrent ==
  \A d \in Device : \A r \in CapturedRecords(d) : Current(d, RowsFor(d, r))

\* So has a tombstone, as a tombstone row, unless it came from the peer.
TombstonesCurrent ==
  \A d \in Device : \A r \in tombstoned[d] :
    Promoted(Peer(d), r) \/ Current(d, TombstonesFor(d, r))

\* The rows of a record stay current until a bump.
LEMMA RowsStayCurrent ==
  ASSUME TypeOK, [Next]_vars, NEW d \in Device, ~BumpEpoch(d), NEW r
  PROVE  /\ Current(d, RowsFor(d, r)) => Current(d, RowsFor(d, r))'
         /\ Current(d, TombstonesFor(d, r)) => Current(d, TombstonesFor(d, r))'
<1>1. head'[d].epoch = head[d].epoch
  <2>1. ASSUME NEW o \in Offered[d], NEW q \in Record, NEW ts \in SUBSET Tag,
               Capture(d, o, q, ts)
        PROVE  head'[d].epoch = head[d].epoch
    BY <2>1, CaptureEffect
  <2>2. QED
    BY <2>1, ActsOrRests, ForgetEffect, ResetEffect, ImportEffect DEF Acts, Rests
<1>2. changes[d] \subseteq changes'[d]
  BY StreamsAppend DEF Appends
<1>3. QED
  BY <1>1, <1>2 DEF Current, RowsFor, TombstonesFor

LEMMA CapturesCurrentStep ==
  ASSUME TypeOK, CapturesCurrent, [Next]_vars
  PROVE  CapturesCurrent'
<1> SUFFICES ASSUME NEW d \in Device, NEW r \in CapturedRecords(d)'
             PROVE  Current(d, RowsFor(d, r))'
  BY DEF CapturesCurrent
<1>1. CASE BumpEpoch(d)
  <2>1. r \in CapturedRecords(d)
    BY <1>1, BumpEffect DEF CapturedRecords
  <2>2. QED
    BY <1>1, <2>1, BumpEffect DEF Current
<1>2. CASE ~BumpEpoch(d) /\ r \in CapturedRecords(d)
  BY <1>2, RowsStayCurrent DEF CapturesCurrent
<1>3. CASE r \notin CapturedRecords(d)
  <2>1. captures'[d] # captures[d]
    BY <1>3 DEF CapturedRecords
  <2>2. \E o \in Offered[d], q \in Record, ts \in SUBSET Tag : Capture(d, o, q, ts)
    BY <2>1, ActsOrRests, ForgetEffect, BumpEffect, ResetEffect, ImportEffect
       DEF Acts, Rests
  <2>3. PICK o \in Offered[d], q \in Record, ts \in SUBSET Tag : Capture(d, o, q, ts)
    BY <2>2
  <2> DEFINE new == <<o, q>>
  <2>4. /\ captures'[d] = captures[d] \cup {new}
        /\ \/ new \in captures[d]
           \/ \E row \in RowsFor(d, q)' : row.cursor.epoch = head'[d].epoch
    BY <2>3, CaptureEffect
  <2>5. new[2] = q
    OBVIOUS
  <2> HIDE DEF new
  <2>6. r = q /\ new \notin captures[d]
    BY <1>3, <2>4, <2>5 DEF CapturedRecords
  <2>7. QED
    BY <2>4, <2>6 DEF Current
<1>4. QED
  BY <1>1, <1>2, <1>3

LEMMA TombstonesCurrentStep ==
  ASSUME TypeOK, TombstonesCurrent, SourceInv, [Next]_vars
  PROVE  TombstonesCurrent'
<1> SUFFICES ASSUME NEW d \in Device, NEW r \in tombstoned'[d], ~Promoted(Peer(d), r)'
             PROVE  Current(d, TombstonesFor(d, r))'
  BY DEF TombstonesCurrent
<1>1. Peer(d) \in Device /\ ~Promoted(Peer(d), r)
  BY PeerOf, PromotedKept
<1>2. CASE BumpEpoch(d)
  <2>1. r \in tombstoned[d] /\ r \in known[d]
    BY <1>2, BumpEffect DEF SourceInv, RecordsReferred
  <2>2. r \in CapturedRecords(d)
    BY <1>1, <2>1 DEF SourceInv, RecordsSourced
  <2>3. PICK row \in RowsFor(d, r)' : /\ row.cursor.epoch = head'[d].epoch
                                      /\ r \in tombstoned[d] => row.operation = "tombstone"
    BY <1>2, <2>2, BumpEffect
  <2>4. QED
    BY <2>1, <2>3 DEF Current, TombstonesFor
<1>3. CASE ~BumpEpoch(d) /\ r \in tombstoned[d]
  BY <1>1, <1>3, RowsStayCurrent DEF TombstonesCurrent
<1>4. CASE ~BumpEpoch(d) /\ r \notin tombstoned[d]
  <2>1. ASSUME NEW q \in Record, Forget(d, q)
        PROVE  Current(d, TombstonesFor(d, r))'
    <3>1. r = q
      BY <1>4, <2>1, ForgetEffect
    <3>2. \E row \in TombstonesFor(d, q)' : row.cursor.epoch = head'[d].epoch
      BY <2>1, ForgetEffect
    <3>3. QED
      BY <3>1, <3>2 DEF Current
  <2>2. ASSUME NEW b \in net, Import(d, b)
        PROVE  FALSE
    <3>1. \E c \in b.changes : c.record = r /\ b.source = Peer(d)
      BY <1>4, <2>2, ImportEffect
    <3>2. QED
      BY <1>1, <3>1 DEF SourceInv, BundlesBacked
  <2>3. ASSUME NEW o \in Offered[d], NEW q \in Record, NEW ts \in SUBSET Tag,
               Capture(d, o, q, ts)
        PROVE  FALSE
    BY <1>4, <2>3, CaptureEffect
  <2>4. QED
    BY <1>4, <2>1, <2>2, <2>3, ActsOrRests, ResetEffect DEF Acts, Rests
<1>5. QED
  BY <1>2, <1>3, <1>4

LEMMA CurrentInvariant == Spec => [](CapturesCurrent /\ TombstonesCurrent)
<1>1. Init => CapturesCurrent /\ TombstonesCurrent
  BY DEF Init, CapturesCurrent, TombstonesCurrent, CapturedRecords
<1>2. /\ TypeOK /\ SourceInv /\ CapturesCurrent /\ TombstonesCurrent
      /\ [Next]_vars
      => (CapturesCurrent /\ TombstonesCurrent)'
  BY CapturesCurrentStep, TombstonesCurrentStep
<1>3. QED
  BY TypeCorrect, SourceInvariant, <1>1, <1>2, PTL DEF Spec

---------------------------------------------------------------------------
(* Divergences.                                                            *)

\* The records of a pair on the way are in the peer's own stream, or have a
\* row in the bundle's epoch, at or before the bundle's end.
PairsBacked ==
  \A b \in net : \A p \in b.flagged : \A r \in {p[1], p[2]} :
    \/ Promoted(Peer(b.source), r)
    \/ \E row \in RowsFor(b.source, r) :
         row.cursor.epoch = b.through.epoch /\ AtMost(row.cursor, b.through)

LEMMA PairsBackedStep ==
  ASSUME TypeOK, AllocatedOnly, SourceInv, CapturesCurrent, PairsBacked, [Next]_vars
  PROVE  PairsBacked'
<1> SUFFICES ASSUME NEW b \in net', NEW p \in b.flagged, NEW r \in {p[1], p[2]},
                    ~Promoted(Peer(b.source), r)'
             PROVE  \E row \in RowsFor(b.source, r)' :
                      row.cursor.epoch = b.through.epoch /\ AtMost(row.cursor, b.through)
  BY DEF PairsBacked
<1>1. b.source \in Device
  BY NewBundle DEF TypeOK, Bundle
<1>2. ~Promoted(Peer(b.source), r) /\ Peer(b.source) \in Device
  BY <1>1, PeerOf, PromotedKept
<1>3. \E row \in RowsFor(b.source, r) :
        row.cursor.epoch = b.through.epoch /\ AtMost(row.cursor, b.through)
  <2>1. CASE b \in net
    BY <1>2, <2>1 DEF PairsBacked
  <2>2. CASE b \notin net
    <3>1. b.flagged = ShippedPairs(b.source, b.through, flagged[b.source])
      BY <2>2, NewBundle
    <3>2. b.through = head[b.source] /\ p \in flagged[b.source]
      BY <3>1 DEF ShippedPairs
    <3>3. r \in known[b.source]
      BY <1>1, <3>2 DEF SourceInv, RecordsReferred
    <3>4. r \in CapturedRecords(b.source)
      BY <1>1, <1>2, <3>3 DEF SourceInv, RecordsSourced
    <3>5. PICK row \in RowsFor(b.source, r) : row.cursor.epoch = head[b.source].epoch
      BY <1>1, <3>4 DEF CapturesCurrent, Current
    <3>6. AtMost(row.cursor, head[b.source])
      BY <1>1, <3>5 DEF AllocatedOnly, RowsFor
    <3>7. QED
      BY <3>2, <3>5, <3>6
  <2>3. QED
    BY <2>1, <2>2
<1>4. changes[b.source] \subseteq changes'[b.source]
  BY <1>1, StreamsAppend DEF Appends
<1>5. QED
  BY <1>3, <1>4 DEF RowsFor

LEMMA BackedPairsResolve ==
  ASSUME TypeOK, ReplicaInv, RowsExportable, PairsBacked
  PROVE  DivergencesResolve
<1> SUFFICES ASSUME NEW d \in Device, NEW b \in net, b.source = Peer(d),
                    Acceptable(d, b), NEW p \in b.flagged, NEW r \in {p[1], p[2]}
             PROVE  r \in known[d] \cup MergedRecords(d, b)
  BY DEF DivergencesResolve, PairsResolve
<1>1. Peer(d) \in Device /\ Peer(Peer(d)) = d
  BY PeerOf, PeerOfPeer
<1>2. CASE Promoted(d, r)
  BY <1>2 DEF Promoted, RowsFor, RowsExportable
<1>3. ASSUME NEW row \in RowsFor(Peer(d), r), row.cursor.epoch = b.through.epoch,
             AtMost(row.cursor, b.through)
      PROVE  r \in known[d] \cup MergedRecords(d, b)
  <2>1. /\ row \in changes[Peer(d)] /\ row.record = r
        /\ row.cursor \in Cursor /\ cursor[d] \in Cursor
        /\ b.from \in Cursor /\ b.through \in Cursor
    BY <1>1 DEF TypeOK, RowsFor, Change, Bundle
  <2>2. AtMost(row.cursor, cursor[d]) /\ row.cursor.epoch = cursor[d].epoch
          => r \in known[d]
    BY <2>1 DEF ReplicaInv, ReplicaCoversCursor
  <2>3. CASE b.through = cursor[d]
    BY <1>3, <2>2, <2>3
  <2>4. CASE b.through # cursor[d]
    <3>1. Before(cursor[d], b.through) /\ b.from = cursor[d]
      BY <2>4 DEF Acceptable, Advances
    <3>2. CASE AtMost(row.cursor, cursor[d])
      <4>1. row.cursor.epoch = cursor[d].epoch
        BY <1>3, <2>1, <3>1, <3>2 DEF AtMost, Before, Cursor
      <4>2. QED
        BY <2>2, <3>2, <4>1
    <3>3. CASE Before(cursor[d], row.cursor)
      <4>1. PICK c \in b.changes : c.record = r
        BY <1>3, <2>1, <3>1, <3>3 DEF ReplicaInv, BundlesComplete, Carries
      <4>2. QED
        BY <3>1, <4>1 DEF MergedRecords, Merged, Advances
    <3>4. QED
      BY <2>1, <3>2, <3>3, CursorsCompare
  <2>5. QED
    BY <2>3, <2>4
<1>4. QED
  BY <1>1, <1>2, <1>3 DEF PairsBacked

\* A bundle with divergences reaches the head of its stream, so whoever may
\* accept it has, or is given by it, both records of every pair (sync.rs
\* export_promotions, merge_divergence).
THEOREM PairsAlwaysResolve == Spec => []DivergencesResolve
<1>1. Init => PairsBacked
  BY DEF Init, PairsBacked
<1>2. /\ TypeOK /\ ReplicaInv /\ SourceInv /\ CapturesCurrent /\ PairsBacked
      /\ [Next]_vars
      => PairsBacked'
  BY PairsBackedStep DEF ReplicaInv
<1>3. TypeOK /\ ReplicaInv /\ RowsExportable /\ PairsBacked => DivergencesResolve
  BY BackedPairsResolve
<1>4. QED
  BY TypeCorrect, ReplicaInvariant, SourceInvariant, CurrentInvariant, StreamsExportable,
     <1>1, <1>2, <1>3, PTL DEF Spec

---------------------------------------------------------------------------
(* Convergence.                                                            *)

(* The peer has one of the rows still to read.                             *)
Due(d, rows) == \E row \in rows : Before(cursor[Peer(d)], row.cursor)

\* Whatever a store holds, its peer holds too or is still to read a row for.
RecordsReach ==
  \A d \in Device : \A r \in known[d] : r \in known[Peer(d)] \/ Due(d, RowsFor(d, r))

TombstonesReach ==
  \A d \in Device : \A r \in tombstoned[d] :
    r \in tombstoned[Peer(d)] \/ Due(d, TombstonesFor(d, r))

SightingsReach ==
  \A d \in Device : \A s \in sightings[d] :
    s \in sightings[Peer(d)] \/ Due(d, RowsFor(d, s[2]))

\* A bundle carries every sighting of its records, but for those its importer
\* keeps anyway and those that have a row after the bundle.
SightingsTravel ==
  \A b \in net : \A c \in b.changes : \A s \in sightings[b.source] :
    s[2] = c.record =>
      \/ s[1] \in c.origins
      \/ s \in sightings[Peer(b.source)] /\ Promoted(Peer(b.source), s[2])
      \/ \E row \in RowsFor(b.source, s[2]) : Before(b.through, row.cursor)

\* A row the peer has still to read stays so, unless the peer imports.
LEMMA DueKept ==
  ASSUME TypeOK, TypeOK', [Next]_vars, NEW d \in Device,
         \A b \in net : ~Import(Peer(d), b),
         NEW row \in changes[d], Before(cursor[Peer(d)], row.cursor)
  PROVE  row \in changes'[d] /\ Before(cursor'[Peer(d)], row.cursor)
<1>1. Peer(d) \in Device
  BY PeerOf
<1>2. row \in changes'[d]
  BY StreamsAppend DEF Appends
<1>3. CASE cursor'[Peer(d)] = cursor[Peer(d)]
  BY <1>2, <1>3
<1>4. CASE ResetReplica(Peer(d))
  <2>1. /\ cursor'[Peer(d)].epoch = cursor[Peer(d)].epoch
        /\ cursor'[Peer(d)].sequence = 0
    BY <1>1, <1>4, ResetEffect
  <2>2. cursor[Peer(d)] \in Cursor /\ row.cursor \in Cursor
    BY <1>1 DEF TypeOK, Change
  <2>3. Before(cursor'[Peer(d)], row.cursor)
    BY <2>1, <2>2 DEF Before, Cursor
  <2>4. QED
    BY <1>2, <2>3
<1>5. QED
  BY <1>1, <1>3, <1>4, CursorOrigins

\* A reset takes the peer back before every row of the current epoch.
LEMMA ResetMakesDue ==
  ASSUME TypeOK, AllocatedOnly, NEW d \in Device, ResetReplica(Peer(d)),
         NEW row \in changes[d], row.cursor.epoch = head[d].epoch
  PROVE  Before(cursor'[Peer(d)], row.cursor)
<1>1. Peer(d) \in Device
  BY PeerOf
<1>2. /\ cursor'[Peer(d)].epoch = cursor[Peer(d)].epoch
      /\ cursor'[Peer(d)].sequence = 0
  BY <1>1, ResetEffect
<1>3. /\ cursor[Peer(d)] \in Cursor /\ row.cursor \in Cursor /\ head[d] \in Cursor
      /\ AtMost(cursor[Peer(d)], head[d])
      /\ row.cursor.sequence > 0
  BY <1>1 DEF TypeOK, Change, AllocatedOnly
<1>4. cursor[Peer(d)].epoch <= head[d].epoch
  BY <1>3 DEF AtMost, Before, Cursor
<1>5. QED
  BY <1>2, <1>3, <1>4 DEF Before, Cursor

\* A new row is after everything the peer can have read.
LEMMA NewRowDue ==
  ASSUME TypeOK, TypeOK', AllocatedOnly, NEW d \in Device, Acts(d),
         NEW row \in changes'[d], Before(head[d], row.cursor)
  PROVE  Before(cursor'[Peer(d)], row.cursor)
<1>1. Peer(d) \in Device /\ cursor'[Peer(d)] = cursor[Peer(d)]
  BY PeerOf, OneActs DEF Rests
<1>2. /\ cursor[Peer(d)] \in Cursor /\ head[d] \in Cursor /\ row.cursor \in Cursor
      /\ AtMost(cursor[Peer(d)], head[d])
  BY <1>1 DEF TypeOK, Change, AllocatedOnly
<1>3. QED
  BY <1>1, <1>2 DEF AtMost, Before, Cursor

LEMMA DueStays ==
  ASSUME TypeOK, TypeOK', [Next]_vars, NEW d \in Device,
         \A b \in net : ~Import(Peer(d), b), NEW r
  PROVE  /\ Due(d, RowsFor(d, r)) => Due(d, RowsFor(d, r))'
         /\ Due(d, TombstonesFor(d, r)) => Due(d, TombstonesFor(d, r))'
  BY DueKept DEF Due, RowsFor, TombstonesFor

\* An import reads a row the peer had still to read, or leaves it to read.
LEMMA ImportReads ==
  ASSUME TypeOK, BundlesComplete, NEW d \in Device, NEW b \in net, Import(Peer(d), b),
         NEW row \in changes[d], Before(cursor[Peer(d)], row.cursor)
  PROVE  /\ row \in changes'[d]
         /\ \/ Before(cursor'[Peer(d)], row.cursor)
            \/ b.through # cursor[Peer(d)] /\ Carries(b, row)
<1>1. /\ Peer(d) \in Device /\ b.source = d
      /\ changes'[d] = changes[d]
      /\ cursor'[Peer(d)] = b.through
      /\ b.through # cursor[Peer(d)] => b.from = cursor[Peer(d)]
  <2>1. Peer(d) \in Device /\ Peer(Peer(d)) = d
    BY PeerOf, PeerOfPeer
  <2>2. changes' = changes
    BY DEF Import, streamVars
  <2>3. QED
    BY <2>1, <2>2, ImportEffect
<1>2. row.cursor \in Cursor /\ b.through \in Cursor
  BY DEF TypeOK, Change, Bundle
<1>3. CASE Before(b.through, row.cursor)
  BY <1>1, <1>3
<1>4. CASE AtMost(row.cursor, b.through) /\ b.through = cursor[Peer(d)]
  BY <1>2, <1>4, CursorsCompare
<1>5. CASE AtMost(row.cursor, b.through) /\ b.through # cursor[Peer(d)]
  BY <1>1, <1>5 DEF BundlesComplete
<1>6. QED
  BY <1>2, <1>3, <1>4, <1>5, CursorsCompare

\* Nothing leaves a store but by a reset, and then only what its replica alone
\* brought.
LEMMA OnlyResetDrops ==
  ASSUME TypeOK, [Next]_vars, NEW d \in Device
  PROVE  /\ \A r \in known[d] \ known'[d] : ResetReplica(d) /\ r \in ReplicaOnly(d)
         /\ \A r \in tombstoned[d] \ tombstoned'[d] : ResetReplica(d) /\ r \in ReplicaOnly(d)
         /\ \A s \in sightings[d] \ sightings'[d] : ResetReplica(d) /\ s[2] \in ReplicaOnly(d)
<1>1. CASE ResetReplica(d)
  BY <1>1, ResetEffect
<1>2. CASE ~ResetReplica(d)
  <2>1. ASSUME NEW o \in Offered[d], NEW q \in Record, NEW ts \in SUBSET Tag,
               Capture(d, o, q, ts)
        PROVE  sightings[d] \subseteq sightings'[d]
    BY <2>1, CaptureEffect
  <2>2. sightings[d] \subseteq sightings'[d]
    BY <1>2, <2>1, ActsOrRests, ForgetEffect, BumpEffect, ImportEffect DEF Acts, Rests
  <2>3. QED
    BY <1>2, <2>2, RecordsKept
<1>3. QED
  BY <1>1, <1>2

\* When the peer drops a record this store holds, the store is still to send
\* it again: the record was captured here.
LEMMA DroppedIsDue ==
  ASSUME TypeOK, AllocatedOnly, SourceInv, CapturesCurrent, TombstonesCurrent,
         NEW d \in Device, ResetReplica(Peer(d)), NEW r \in ReplicaOnly(Peer(d))
  PROVE  /\ r \in known[d] => Due(d, RowsFor(d, r))'
         /\ r \in tombstoned[d] => Due(d, TombstonesFor(d, r))'
<1>1. /\ Peer(d) \in Device /\ Peer(Peer(d)) = d
      /\ ~Promoted(Peer(d), r)
      /\ changes' = changes
  BY PeerOf, PeerOfPeer, ResetEffect DEF ResetReplica, streamVars
<1>2. \A row \in changes[d] :
        row.cursor.epoch = head[d].epoch => Before(cursor'[Peer(d)], row.cursor)
  BY ResetMakesDue
<1>3. ASSUME r \in known[d]
      PROVE  Due(d, RowsFor(d, r))'
  <2>1. Current(d, RowsFor(d, r))
    BY <1>1, <1>3 DEF SourceInv, RecordsSourced, CapturesCurrent
  <2>2. QED
    BY <1>1, <1>2, <2>1 DEF Current, Due, RowsFor
<1>4. ASSUME r \in tombstoned[d]
      PROVE  Due(d, TombstonesFor(d, r))'
  <2>1. Current(d, TombstonesFor(d, r))
    BY <1>1, <1>4 DEF TombstonesCurrent
  <2>2. QED
    BY <1>1, <1>2, <2>1 DEF Current, Due, RowsFor, TombstonesFor
<1>5. QED
  BY <1>3, <1>4

LEMMA RecordsReachStep ==
  ASSUME TypeOK, TypeOK', ReplicaInv, SourceInv, RowsExportable, CapturesCurrent,
         TombstonesCurrent, RecordsReach, [Next]_vars
  PROVE  RecordsReach'
<1> SUFFICES ASSUME NEW d \in Device, NEW r \in known'[d], r \notin known'[Peer(d)]
             PROVE  Due(d, RowsFor(d, r))'
  BY DEF RecordsReach
<1>1. /\ Peer(d) \in Device /\ Peer(d) # d
      /\ AllocatedOnly /\ BundlesComplete /\ BundlesBacked /\ RecordsReferred
  BY PeerOf DEF ReplicaInv, SourceInv
<1>2. CASE r \notin known[d]
  <2>1. ASSUME NEW o \in Offered[d], NEW q \in Record, NEW ts \in SUBSET Tag,
               Capture(d, o, q, ts)
        PROVE  Due(d, RowsFor(d, r))'
    <3> DEFINE new == <<o, q>>
    <3>1. /\ r = q
          /\ \/ new \in captures[d]
             \/ \E row \in RowsFor(d, q)' : Before(head[d], row.cursor)
      BY <1>2, <2>1, CaptureEffect
    <3>2. new[2] = q
      OBVIOUS
    <3> HIDE DEF new
    <3>3. PICK row \in RowsFor(d, q)' : Before(head[d], row.cursor)
      BY <1>1, <1>2, <3>1, <3>2 DEF RecordsReferred
    <3>4. Before(cursor'[Peer(d)], row.cursor)
      BY <1>1, <2>1, <3>3, NewRowDue DEF Acts, RowsFor
    <3>5. QED
      BY <3>1, <3>3, <3>4 DEF Due
  <2>2. ASSUME NEW b \in net, Import(d, b)
        PROVE  FALSE
    <3>1. \E c \in b.changes : c.record = r /\ b.source = Peer(d)
      BY <1>2, <2>2, ImportEffect
    <3>2. r \in known[Peer(d)]
      BY <1>1, <3>1 DEF BundlesBacked, Promoted, RowsFor, RowsExportable
    <3>3. Rests(Peer(d))
      BY <1>1, <2>2, OneActs DEF Acts
    <3>4. QED
      BY <3>2, <3>3 DEF Rests
  <2>3. QED
    BY <1>2, <2>1, <2>2, ActsOrRests, ForgetEffect, BumpEffect, ResetEffect
       DEF Acts, Rests
<1>3. CASE r \in known[d] /\ r \in known[Peer(d)]
  BY <1>1, <1>3, OnlyResetDrops, DroppedIsDue
<1>4. CASE Due(d, RowsFor(d, r))
  <2>1. ASSUME NEW b \in net, Import(Peer(d), b)
        PROVE  Due(d, RowsFor(d, r))'
    <3>1. PICK row \in changes[d] : row.record = r /\ Before(cursor[Peer(d)], row.cursor)
      BY <1>4 DEF Due, RowsFor
    <3>2. ~(b.through # cursor[Peer(d)] /\ Carries(b, row))
      BY <1>1, <2>1, <3>1, ImportEffect DEF Carries
    <3>3. row \in changes'[d] /\ Before(cursor'[Peer(d)], row.cursor)
      BY <1>1, <2>1, <3>1, <3>2, ImportReads
    <3>4. QED
      BY <3>1, <3>3 DEF Due, RowsFor
  <2>2. QED
    BY <1>4, <2>1, DueStays
<1>5. QED
  BY <1>2, <1>3, <1>4 DEF RecordsReach

LEMMA TombstonesReachStep ==
  ASSUME TypeOK, TypeOK', ReplicaInv, SourceInv, CapturesCurrent, TombstonesCurrent,
         TombstonesReach, [Next]_vars
  PROVE  TombstonesReach'
<1> SUFFICES ASSUME NEW d \in Device, NEW r \in tombstoned'[d],
                    r \notin tombstoned'[Peer(d)]
             PROVE  Due(d, TombstonesFor(d, r))'
  BY DEF TombstonesReach
<1>1. /\ Peer(d) \in Device /\ Peer(d) # d
      /\ AllocatedOnly /\ BundlesComplete /\ BundlesBacked
  BY PeerOf DEF ReplicaInv, SourceInv
<1>2. CASE r \notin tombstoned[d]
  <2>1. ASSUME NEW q \in Record, Forget(d, q)
        PROVE  Due(d, TombstonesFor(d, r))'
    <3>1. r = q
      BY <1>2, <2>1, ForgetEffect
    <3>2. PICK row \in TombstonesFor(d, q)' : Before(head[d], row.cursor)
      BY <2>1, ForgetEffect
    <3>3. Before(cursor'[Peer(d)], row.cursor)
      BY <1>1, <2>1, <3>2, NewRowDue DEF Acts, TombstonesFor, RowsFor
    <3>4. QED
      BY <3>1, <3>2, <3>3 DEF Due
  <2>2. ASSUME NEW b \in net, Import(d, b)
        PROVE  FALSE
    <3>1. \E c \in b.changes : c.record = r /\ c.tombstoned /\ b.source = Peer(d)
      BY <1>2, <2>2, ImportEffect
    <3>2. r \in tombstoned[Peer(d)]
      BY <1>1, <3>1 DEF BundlesBacked
    <3>3. Rests(Peer(d))
      BY <1>1, <2>2, OneActs DEF Acts
    <3>4. QED
      BY <3>2, <3>3 DEF Rests
  <2>3. ASSUME NEW o \in Offered[d], NEW q \in Record, NEW ts \in SUBSET Tag,
               Capture(d, o, q, ts)
        PROVE  FALSE
    BY <1>2, <2>3, CaptureEffect
  <2>4. QED
    BY <1>2, <2>1, <2>2, <2>3, ActsOrRests, BumpEffect, ResetEffect DEF Acts, Rests
<1>3. CASE r \in tombstoned[d] /\ r \in tombstoned[Peer(d)]
  BY <1>1, <1>3, OnlyResetDrops, DroppedIsDue
<1>4. CASE Due(d, TombstonesFor(d, r))
  <2>1. ASSUME NEW b \in net, Import(Peer(d), b)
        PROVE  Due(d, TombstonesFor(d, r))'
    <3>1. PICK row \in changes[d] : /\ row.record = r /\ row.operation = "tombstone"
                                    /\ Before(cursor[Peer(d)], row.cursor)
      BY <1>4 DEF Due, TombstonesFor, RowsFor
    <3>2. ~(b.through # cursor[Peer(d)] /\ Carries(b, row))
      BY <1>1, <2>1, <3>1, ImportEffect DEF Carries
    <3>3. row \in changes'[d] /\ Before(cursor'[Peer(d)], row.cursor)
      BY <1>1, <2>1, <3>1, <3>2, ImportReads
    <3>4. QED
      BY <3>1, <3>3 DEF Due, TombstonesFor, RowsFor
  <2>2. QED
    BY <1>4, <2>1, DueStays
<1>5. QED
  BY <1>2, <1>3, <1>4 DEF TombstonesReach

(* Where a new sighting comes from.                                        *)
LEMMA SightingOrigins ==
  ASSUME TypeOK, SourceInv, [Next]_vars, NEW d \in Device,
         NEW s \in sightings'[d], s \notin sightings[d]
  PROVE  \/ Acts(d) /\ \E row \in RowsFor(d, s[2])' : Before(head[d], row.cursor)
         \/ Rests(Peer(d)) /\ s \in sightings[Peer(d)] /\ Promoted(Peer(d), s[2])
<1>1. /\ Peer(d) \in Device /\ Peer(d) # d /\ BundlesBacked /\ RecordsReferred
  BY PeerOf DEF SourceInv
<1>2. ASSUME NEW o \in Offered[d], NEW q \in Record, NEW ts \in SUBSET Tag,
             Capture(d, o, q, ts)
      PROVE  Acts(d) /\ \E row \in RowsFor(d, s[2])' : Before(head[d], row.cursor)
  <2> DEFINE new == <<o, q>>
  <2>1. /\ s = new
        /\ \/ new \in captures[d]
           \/ \E row \in RowsFor(d, q)' : Before(head[d], row.cursor)
    BY <1>2, CaptureEffect
  <2>2. new[2] = q
    OBVIOUS
  <2>3. Acts(d)
    BY <1>2 DEF Acts
  <2> HIDE DEF new
  <2>4. QED
    BY <1>1, <2>1, <2>2, <2>3 DEF RecordsReferred
<1>3. ASSUME NEW b \in net, Import(d, b)
      PROVE  Rests(Peer(d)) /\ s \in sightings[Peer(d)] /\ Promoted(Peer(d), s[2])
  <2>1. PICK c \in b.changes : \E o \in c.origins : s = <<o, c.record>>
    BY <1>3, ImportEffect
  <2>2. s[2] = c.record /\ b.source = Peer(d)
    BY <1>3, <2>1, ImportEffect
  <2>3. s \in sightings[Peer(d)] /\ Promoted(Peer(d), s[2])
    BY <1>1, <2>1, <2>2 DEF BundlesBacked
  <2>4. QED
    BY <1>1, <1>3, <2>3, OneActs DEF Acts
<1>4. QED
  BY <1>2, <1>3, ActsOrRests, ForgetEffect, BumpEffect, ResetEffect DEF Acts, Rests

LEMMA TravelStep ==
  ASSUME TypeOK, TypeOK', AllocatedOnly, SourceInv, SightingsTravel, [Next]_vars
  PROVE  SightingsTravel'
<1> SUFFICES ASSUME NEW b \in net', NEW c \in b.changes, NEW s \in sightings'[b.source],
                    s[2] = c.record, s[1] \notin c.origins
             PROVE  \/ s \in sightings'[Peer(b.source)] /\ Promoted(Peer(b.source), s[2])'
                    \/ \E row \in RowsFor(b.source, s[2])' : Before(b.through, row.cursor)
  BY DEF SightingsTravel
<1>1. b.source \in Device /\ Peer(b.source) \in Device
  BY NewBundle, PeerOf DEF TypeOK, Bundle
<1>2. b \in net
  <2>1. SUFFICES ASSUME b \notin net
                 PROVE  FALSE
    OBVIOUS
  <2>2. /\ Rests(b.source)
        /\ \E from \in RequestedFrom(b.source) :
             b.changes = {Wire(b.source, row) : row \in Chunk(b.source, from)}
    BY <1>1, <2>1, NewBundle
  <2>3. PICK row \in changes[b.source] : c = Wire(b.source, row)
    BY <2>2 DEF Chunk
  <2>4. /\ c.record = row.record
        /\ c.origins = {o \in Origin : <<o, row.record>> \in sightings[b.source]}
    BY <2>3 DEF Wire
  <2>5. s \in sightings[b.source] /\ s = <<s[1], s[2]>> /\ s[1] \in Origin
    BY <1>1, <2>2 DEF Rests, TypeOK
  <2>6. QED
    BY <2>4, <2>5
<1>3. CASE s \in sightings[b.source]
  <2>1. CASE s \in sightings[Peer(b.source)] /\ Promoted(Peer(b.source), s[2])
    BY <1>1, <2>1, PromotedKept, PromotedRecordsStay
  <2>2. ASSUME NEW row \in RowsFor(b.source, s[2]), Before(b.through, row.cursor)
        PROVE  \E x \in RowsFor(b.source, s[2])' : Before(b.through, x.cursor)
    BY <1>1, <2>2, StreamsAppend DEF RowsFor, Appends
  <2>3. QED
    BY <1>2, <1>3, <2>1, <2>2 DEF SightingsTravel
<1>4. CASE s \notin sightings[b.source]
  <2>1. CASE Rests(Peer(b.source)) /\ s \in sightings[Peer(b.source)]
               /\ Promoted(Peer(b.source), s[2])
    BY <1>1, <2>1, PromotedKept DEF Rests
  <2>2. ASSUME NEW row \in RowsFor(b.source, s[2])', Before(head[b.source], row.cursor)
        PROVE  Before(b.through, row.cursor)
    <3>1. /\ b.through \in Cursor /\ head[b.source] \in Cursor
          /\ AtMost(b.through, head[b.source])
      BY <1>1, <1>2 DEF TypeOK, Bundle, AllocatedOnly
    <3>2. row.cursor.epoch \in Nat /\ row.cursor.sequence \in Nat
      BY <1>1 DEF TypeOK, Change, Cursor, RowsFor
    <3>3. QED
      BY <2>2, <3>1, <3>2 DEF AtMost, Before, Cursor
  <2>3. QED
    BY <1>1, <1>4, <2>1, <2>2, SightingOrigins
<1>5. QED
  BY <1>3, <1>4

LEMMA SightingsReachStep ==
  ASSUME TypeOK, TypeOK', ReplicaInv, SourceInv, CapturesCurrent, TombstonesCurrent,
         SightingsTravel, SightingsReach, [Next]_vars
  PROVE  SightingsReach'
<1> SUFFICES ASSUME NEW d \in Device, NEW s \in sightings'[d], s \notin sightings'[Peer(d)]
             PROVE  Due(d, RowsFor(d, s[2]))'
  BY DEF SightingsReach
<1>1. /\ Peer(d) \in Device /\ Peer(d) # d /\ Peer(Peer(d)) = d
      /\ AllocatedOnly /\ BundlesComplete /\ RecordsReferred
  BY PeerOf, PeerOfPeer DEF ReplicaInv, SourceInv
<1>2. CASE s \notin sightings[d]
  <2>1. PICK row \in RowsFor(d, s[2])' : Acts(d) /\ Before(head[d], row.cursor)
    BY <1>1, <1>2, SightingOrigins DEF Rests
  <2>2. Before(cursor'[Peer(d)], row.cursor)
    BY <1>1, <2>1, NewRowDue DEF RowsFor
  <2>3. QED
    BY <2>1, <2>2 DEF Due
<1>3. CASE s \in sightings[d] /\ s \in sightings[Peer(d)]
  <2>1. ResetReplica(Peer(d)) /\ s[2] \in ReplicaOnly(Peer(d))
    BY <1>1, <1>3, OnlyResetDrops
  <2>2. s[2] \in known[d]
    BY <1>1, <1>3 DEF RecordsReferred
  <2>3. QED
    BY <1>1, <2>1, <2>2, DroppedIsDue
<1>4. CASE s \in sightings[d] /\ s \notin sightings[Peer(d)] /\ Due(d, RowsFor(d, s[2]))
  <2>1. ASSUME NEW b \in net, Import(Peer(d), b)
        PROVE  Due(d, RowsFor(d, s[2]))'
    <3>1. PICK row \in changes[d] : row.record = s[2] /\ Before(cursor[Peer(d)], row.cursor)
      BY <1>4 DEF Due, RowsFor
    <3>2. row \in changes'[d] /\ \/ Before(cursor'[Peer(d)], row.cursor)
                                 \/ b.through # cursor[Peer(d)] /\ Carries(b, row)
      BY <1>1, <2>1, <3>1, ImportReads
    <3>3. CASE Before(cursor'[Peer(d)], row.cursor)
      BY <3>1, <3>2, <3>3 DEF Due, RowsFor
    <3>4. CASE b.through # cursor[Peer(d)] /\ Carries(b, row)
      <4>1. PICK c \in b.changes : c.record = s[2]
        BY <3>1, <3>4 DEF Carries
      <4>2. /\ b.source = d /\ cursor'[Peer(d)] = b.through
            /\ \A o \in c.origins : <<o, c.record>> \in sightings'[Peer(d)]
        BY <1>1, <2>1, <3>4, ImportEffect
      <4>3. s[1] \notin c.origins
        <5>1. s = <<s[1], s[2]>>
          BY <1>4 DEF TypeOK
        <5>2. QED
          BY <4>1, <4>2, <5>1
      <4>4. PICK other \in RowsFor(d, s[2]) : Before(b.through, other.cursor)
        BY <1>4, <4>1, <4>2, <4>3 DEF SightingsTravel
      <4>5. other \in RowsFor(d, s[2])'
        BY <4>4, StreamsAppend DEF RowsFor, Appends
      <4>6. QED
        BY <4>2, <4>4, <4>5 DEF Due
    <3>5. QED
      BY <3>2, <3>3, <3>4
  <2>2. QED
    BY <1>4, <2>1, DueStays
<1>5. QED
  BY <1>2, <1>3, <1>4 DEF SightingsReach

(* What the two stores hold and have still to read.                        *)
ReachInv == RecordsReach /\ TombstonesReach /\ SightingsReach /\ SightingsTravel

LEMMA ReachInvariant == Spec => []ReachInv
<1>1. Init => ReachInv
  BY DEF Init, ReachInv, RecordsReach, TombstonesReach, SightingsReach, SightingsTravel
<1>2. /\ TypeOK /\ TypeOK' /\ ReplicaInv /\ SourceInv /\ RowsExportable
      /\ CapturesCurrent /\ TombstonesCurrent /\ ReachInv
      /\ [Next]_vars
      => ReachInv'
  BY RecordsReachStep, TombstonesReachStep, SightingsReachStep, TravelStep
     DEF ReachInv, ReplicaInv
<1>3. QED
  BY TypeCorrect, ReplicaInvariant, SourceInvariant, StreamsExportable, CurrentInvariant,
     <1>1, <1>2, PTL DEF Spec

\* No row is after the head, so a store at its peer's head has none to read.
LEMMA CaughtUpReads ==
  ASSUME TypeOK, AllocatedOnly, NEW d \in Device, cursor[Peer(d)] = head[d], NEW r
  PROVE  ~Due(d, RowsFor(d, r)) /\ ~Due(d, TombstonesFor(d, r))
<1>1. \A row \in changes[d] : row.cursor \in Cursor /\ AtMost(row.cursor, head[d])
  BY DEF TypeOK, Change, AllocatedOnly
<1>2. \A row \in changes[d] : ~Before(head[d], row.cursor)
  BY <1>1, CursorsCompare DEF TypeOK
<1>3. QED
  BY <1>2 DEF Due, RowsFor, TombstonesFor

\* Whatever was lost, repeated, bumped or reset on the way, two stores that
\* have exchanged their streams agree: the one that reached its peer's head
\* holds every record, tombstone and sighting of the peer, those the peer
\* never promoted included (sync.rs import_verified_bundle, lib.rs
\* reset_replica_for_reenrollment, bump_promotion_epoch_and_snapshot).
THEOREM CaughtUpStoresConverge == Spec => []CaughtUpConverges
<1>1. TypeOK /\ AllocatedOnly /\ ReachInv => CaughtUpConverges
  BY CaughtUpReads
     DEF CaughtUpConverges, ReachInv, RecordsReach, TombstonesReach, SightingsReach
<1>2. ReplicaInv => AllocatedOnly
  BY DEF ReplicaInv
<1>3. QED
  BY TypeCorrect, ReplicaInvariant, ReachInvariant, <1>1, <1>2, PTL

---------------------------------------------------------------------------
(* The numbering of a stream.                                              *)

(* The stream has a row at a position.                                     *)
HasRow(d, e, i) == \E row \in changes[d] : row.cursor.epoch = e /\ row.cursor.sequence = i

\* Every epoch is numbered from one without a gap, the current one up to the
\* head.
StreamFilled ==
  \A d \in Device : \A row \in changes[d] : \A i \in 1..row.cursor.sequence :
    HasRow(d, row.cursor.epoch, i)

HeadFilled == \A d \in Device : \A i \in 1..head[d].sequence : HasRow(d, head[d].epoch, i)

\* The sequences of a stream do not grow without end.
SequencesBounded ==
  \A d \in Device : \E n \in Nat : \A row \in changes[d] : row.cursor.sequence <= n

\* Every nonempty set of natural numbers has a least element.
LEMMA LeastOfNats ==
  ASSUME NEW S \in SUBSET Nat, S # {}
  PROVE  \E x \in S : \A y \in S : x <= y
<1>1. PICK x \in S : \A y \in S : ~(<<y, x>> \in OpToRel(<, Nat))
  BY WFMin, NatLessThanWellFounded, Zenon
<1>2. \A y \in S : ~(y < x)
  BY <1>1, Zenon DEF OpToRel
<1>3. QED
  BY <1>2

\* A bounded one has a greatest element.
LEMMA GreatestOfBounded ==
  ASSUME NEW S \in SUBSET Nat, S # {}, NEW n \in Nat, \A s \in S : s <= n
  PROVE  \E x \in S : \A y \in S : y <= x
<1> DEFINE T == {n - s : s \in S}
<1>1. T \in SUBSET Nat /\ T # {}
  <2>1. \A s \in S : n - s \in Nat
    OBVIOUS
  <2>2. QED
    BY <2>1
<1> HIDE DEF T
<1>2. PICK t \in T : \A u \in T : t <= u
  BY <1>1, LeastOfNats
<1> USE DEF T
<1>3. PICK x \in S : t = n - x
  BY <1>2
<1>4. \A y \in S : n - x <= n - y
  BY <1>2, <1>3
<1>5. QED
  BY <1>4

\* The captured digests, in order, take every number up to their count.
LEMMA SnapshotFills ==
  ASSUME TypeOK, NEW d \in Device, NEW e \in Nat,
         NEW i \in 1..Cardinality(CapturedRecords(d))
  PROVE  \E row \in Snapshot(d, e) : row.cursor.epoch = e /\ row.cursor.sequence = i
<1> DEFINE S       == CapturedRecords(d)
           n       == Cardinality(S)
           upTo(r) == {x \in S : x <= r}
           rank(r) == Cardinality(upTo(r))
           rowOf(r) ==
             [cursor    |-> [epoch |-> e, sequence |-> rank(r)],
              operation |-> IF r \in tombstoned[d] THEN "tombstone" ELSE "upsert",
              record    |-> r]
           place   == [r \in S |-> rank(r)]
<1>1. S \subseteq Record
  BY DEF CapturedRecords, TypeOK
<1>2. IsFiniteSet(S) /\ n \in Nat /\ S \subseteq Int
  BY <1>1, RecordsAreDigests, FS_Subset, FS_CardinalityType DEF RecordsAreDigests
<1>3. Snapshot(d, e) = {rowOf(r) : r \in S}
  BY DEF Snapshot
<1>4. \A r \in S : rowOf(r).cursor.epoch = e /\ rowOf(r).cursor.sequence = rank(r)
  OBVIOUS
<1> HIDE DEF S, rowOf
<1>5. ASSUME NEW r \in S
      PROVE  IsFiniteSet(upTo(r)) /\ rank(r) \in 1..n
  <2>1. upTo(r) \subseteq S /\ upTo(r) # {}
    BY <1>2
  <2>2. IsFiniteSet(upTo(r)) /\ Cardinality(upTo(r)) <= n
    BY <1>2, <2>1, FS_Subset
  <2>3. Cardinality(upTo(r)) \in Nat /\ Cardinality(upTo(r)) # 0
    BY <2>1, <2>2, FS_CardinalityType, FS_EmptySet
  <2>4. QED
    BY <1>2, <2>2, <2>3
<1>6. ASSUME NEW r \in S, NEW s \in S, r < s
      PROVE  rank(r) # rank(s)
  <2>0. r \in Int /\ s \in Int /\ \A x \in S : x \in Int
    BY <1>2
  <2>1. /\ \A x \in S : x <= r => x <= s
        /\ s <= s
        /\ ~ (s <= r)
    BY <1>6, <2>0
  <2>2. upTo(r) \subseteq upTo(s) /\ s \in upTo(s) /\ s \notin upTo(r)
    BY <2>1
  <2>3. IsFiniteSet(upTo(s))
    BY <1>5
  <2>4. Cardinality(upTo(r)) = Cardinality(upTo(s)) => upTo(s) = upTo(r)
    BY <2>2, <2>3, FS_Subset
  <2>5. QED
    BY <2>2, <2>4
<1>7. ASSUME NEW r \in S, NEW s \in S, rank(r) = rank(s)
      PROVE  r = s
  <2>1. r \in Int /\ s \in Int
    BY <1>2
  <2>2. ~ (r < s) /\ ~ (s < r)
    BY <1>6, <1>7
  <2>3. QED
    BY <2>1, <2>2
<1> HIDE DEF n, rank
<1>8. place \in Injection(S, 1..n)
  BY <1>5, <1>7 DEF Injection, IsInjective
<1>9. IsFiniteSet(1..n) /\ Cardinality(1..n) = n
  BY <1>2, FS_Interval
<1>10. place \in Surjection(S, 1..n)
  BY <1>8, <1>9, FS_Injection DEF n
<1>11. \E r \in S : rank(r) = i
  BY <1>10 DEF Surjection, n, S
<1>12. QED
  BY <1>3, <1>4, <1>11

\* A step appends to a stream the next number, or a new epoch numbered from
\* one.
Numbers(d) ==
  /\ changes[d] \subseteq changes'[d]
  /\ \A row \in changes'[d] \ changes[d] :
       /\ row.cursor.epoch = head'[d].epoch
       /\ row.cursor.sequence \in 1..head'[d].sequence
  /\ head'[d].epoch >= head[d].epoch
  /\ \A i \in 1..head'[d].sequence :
       \/ head'[d].epoch = head[d].epoch /\ i <= head[d].sequence
       \/ \E row \in changes'[d] : /\ row.cursor.epoch = head'[d].epoch
                                   /\ row.cursor.sequence = i

LEMMA PromoteNumbers ==
  ASSUME TypeOK, NEW d \in Device, NEW r \in Record,
         NEW operation \in {"upsert", "tombstone"}, Promote(d, operation, r)
  PROVE  Numbers(d) /\ head'[d].epoch = head[d].epoch
<1> DEFINE row == [cursor |-> NextCursor(d), operation |-> operation, record |-> r]
<1>1. head'[d] = NextCursor(d) /\ changes'[d] = changes[d] \cup {row}
  BY DEF Promote, TypeOK
<1>2. head[d].epoch \in Nat /\ head[d].sequence \in Nat
  BY DEF TypeOK, Cursor
<1>3. NextCursor(d).epoch = head[d].epoch /\ NextCursor(d).sequence = head[d].sequence + 1
  BY DEF NextCursor, TypeOK, Cursor
<1>4. row.cursor = NextCursor(d)
  OBVIOUS
<1> HIDE DEF row
<1>5. ASSUME NEW i \in 1..head'[d].sequence, ~(i <= head[d].sequence)
      PROVE  row.cursor.sequence = i
  BY <1>1, <1>2, <1>3, <1>4, <1>5
<1>6. QED
  BY <1>1, <1>2, <1>3, <1>4, <1>5 DEF Numbers

LEMMA BumpNumbers ==
  ASSUME TypeOK, NEW d \in Device, BumpEpoch(d)
  PROVE  Numbers(d) /\ head'[d].epoch = head[d].epoch + 1
<1> DEFINE e == head[d].epoch + 1
           n == Cardinality(CapturedRecords(d))
<1>1. /\ head'[d] = [epoch |-> e, sequence |-> n]
      /\ changes'[d] = changes[d] \cup Snapshot(d, e)
  BY DEF BumpEpoch, TypeOK
<1>2. head[d].epoch \in Nat /\ e \in Nat /\ captures[d] \subseteq Origin \X Record
  BY DEF TypeOK, Cursor
<1>3. \A row \in Snapshot(d, e) : row.cursor.epoch = e /\ row.cursor.sequence \in 1..n
  BY <1>2, SnapshotRows
<1>4. \A i \in 1..n : \E row \in Snapshot(d, e) :
        row.cursor.epoch = e /\ row.cursor.sequence = i
  BY <1>2, SnapshotFills
<1>5. head'[d].epoch = e /\ head'[d].sequence = n /\ e >= head[d].epoch
  BY <1>1, <1>2
<1> HIDE DEF e, n
<1>6. QED
  BY <1>1, <1>3, <1>4, <1>5 DEF Numbers, e

\* Only a bump opens an epoch.
LEMMA StreamsNumbered ==
  ASSUME TypeOK, [Next]_vars, NEW d \in Device
  PROVE  Numbers(d) /\ (BumpEpoch(d) \/ head'[d].epoch = head[d].epoch)
<1>1. ASSUME head'[d] = head[d], changes'[d] = changes[d]
      PROVE  Numbers(d) /\ head'[d].epoch = head[d].epoch
  <2>1. head[d].epoch \in Nat /\ head[d].sequence \in Nat
    BY DEF TypeOK, Cursor
  <2>2. QED
    BY <1>1, <2>1 DEF Numbers
<1>2. ASSUME NEW o \in Offered[d], NEW r \in Record, NEW ts \in SUBSET Tag,
             Capture(d, o, r, ts)
      PROVE  Numbers(d) /\ head'[d].epoch = head[d].epoch
  BY <1>1, <1>2, PromoteNumbers DEF Capture, streamVars
<1>3. ASSUME NEW r \in Record, Forget(d, r)
      PROVE  Numbers(d) /\ head'[d].epoch = head[d].epoch
  BY <1>3, PromoteNumbers DEF Forget
<1>4. CASE BumpEpoch(d)
  BY <1>4, BumpNumbers
<1>5. CASE ResetReplica(d)
  BY <1>1, <1>5, ResetEffect
<1>6. ASSUME NEW b \in net, Import(d, b)
      PROVE  Numbers(d) /\ head'[d].epoch = head[d].epoch
  BY <1>1, <1>6, ImportEffect
<1>7. CASE Rests(d)
  BY <1>1, <1>7 DEF Rests
<1>8. QED
  BY <1>2, <1>3, <1>4, <1>5, <1>6, <1>7, ActsOrRests DEF Acts

LEMMA FilledStep ==
  ASSUME TypeOK, TypeOK', StreamFilled, HeadFilled, SequencesBounded, [Next]_vars
  PROVE  (StreamFilled /\ HeadFilled /\ SequencesBounded)'
<1>1. ASSUME NEW d \in Device
      PROVE  /\ \A i \in 1..head'[d].sequence : HasRow(d, head[d].epoch, i)'
             /\ \A row \in changes'[d] : \A i \in 1..row.cursor.sequence :
                  HasRow(d, row.cursor.epoch, i)'
             /\ \E n \in Nat : \A row \in changes'[d] : row.cursor.sequence <= n
  <2>1. Numbers(d)
    BY StreamsNumbered
  <2>2. /\ head[d].sequence \in Nat /\ head'[d].sequence \in Nat
        /\ \A row \in changes'[d] : row.cursor.sequence \in Nat
    BY DEF TypeOK, Change, Cursor
  <2>3. \A e, i : HasRow(d, e, i) => HasRow(d, e, i)'
    BY <2>1 DEF Numbers, HasRow
  <2>4. ASSUME NEW i \in 1..head'[d].sequence
        PROVE  HasRow(d, head[d].epoch, i)'
    <3>1. CASE head'[d].epoch = head[d].epoch /\ i <= head[d].sequence
      <4>1. i \in 1..head[d].sequence
        BY <2>2, <3>1
      <4>2. \E row \in changes[d] : row.cursor.epoch = head[d].epoch /\ row.cursor.sequence = i
        BY <4>1 DEF HeadFilled, HasRow
      <4>3. QED
        BY <2>1, <3>1, <4>2 DEF HasRow, Numbers
    <3>2. CASE \E row \in changes'[d] : /\ row.cursor.epoch = head'[d].epoch
                                        /\ row.cursor.sequence = i
      BY <3>2 DEF HasRow
    <3>3. QED
      BY <2>1, <3>1, <3>2 DEF Numbers
  <2>5. ASSUME NEW row \in changes'[d], NEW i \in 1..row.cursor.sequence
        PROVE  HasRow(d, row.cursor.epoch, i)'
    <3>1. CASE row \in changes[d]
      BY <2>3, <3>1 DEF StreamFilled
    <3>2. CASE row \notin changes[d]
      <4>1. /\ row.cursor.epoch = head'[d].epoch
            /\ row.cursor.sequence \in 1..head'[d].sequence
        BY <2>1, <3>2 DEF Numbers
      <4>2. i \in 1..head'[d].sequence
        BY <2>2, <4>1
      <4>3. \E x \in changes'[d] : x.cursor.epoch = head'[d].epoch /\ x.cursor.sequence = i
        BY <2>4, <4>2 DEF HasRow
      <4>4. QED
        BY <4>1, <4>3 DEF HasRow
    <3>3. QED
      BY <3>1, <3>2
  <2>6. PICK n \in Nat : \A row \in changes[d] : row.cursor.sequence <= n
    BY DEF SequencesBounded
  <2>7. ASSUME NEW row \in changes'[d]
        PROVE  row.cursor.sequence <= n + head'[d].sequence
    <3>1. row.cursor.sequence <= n \/ row.cursor.sequence <= head'[d].sequence
      BY <2>1, <2>2, <2>6 DEF Numbers
    <3>2. QED
      BY <2>2, <3>1
  <2>8. n + head'[d].sequence \in Nat
    BY <2>2
  <2>9. QED
    BY <2>4, <2>5, <2>7, <2>8
<1>2. QED
  BY <1>1 DEF StreamFilled, HeadFilled, SequencesBounded

LEMMA FilledInvariant == Spec => [](StreamFilled /\ HeadFilled /\ SequencesBounded)
<1>1. Init => StreamFilled /\ HeadFilled /\ SequencesBounded
  <2> SUFFICES ASSUME Init
               PROVE  StreamFilled /\ HeadFilled /\ SequencesBounded
    OBVIOUS
  <2>1. \A d \in Device : changes[d] = {} /\ head[d].sequence = 0
    BY DEF Init
  <2>2. \A d \in Device : \A row \in changes[d] : row.cursor.sequence <= 0
    BY <2>1
  <2>3. QED
    BY <2>1, <2>2 DEF StreamFilled, HeadFilled, SequencesBounded
<1>2. /\ TypeOK /\ TypeOK' /\ StreamFilled /\ HeadFilled /\ SequencesBounded
      /\ [Next]_vars
      => (StreamFilled /\ HeadFilled /\ SequencesBounded)'
  BY FilledStep
<1>3. QED
  BY TypeCorrect, <1>1, <1>2, PTL DEF Spec

---------------------------------------------------------------------------
(* No store is ever stuck.                                                 *)

\* The rows of a bundle are of one epoch.
LEMMA ChunkRows ==
  ASSUME TypeOK, NEW d \in Device, NEW from
  PROVE  /\ Chunk(d, from) \subseteq changes[d]
         /\ \A row \in Chunk(d, from) :
              /\ row.cursor \in Cursor
              /\ row.cursor.epoch \in Nat /\ row.cursor.sequence \in Nat
              /\ Before(from, row.cursor)
         /\ \A row, other \in Chunk(d, from) : row.cursor.epoch = other.cursor.epoch
         /\ \A row \in Chunk(d, from) : \A other \in changes[d] :
              Before(from, other.cursor) => row.cursor.epoch <= other.cursor.epoch
<1>1. \A row \in changes[d] : /\ row.cursor \in Cursor
                              /\ row.cursor.epoch \in Nat /\ row.cursor.sequence \in Nat
  BY DEF TypeOK, Change, Cursor
<1>2. /\ Chunk(d, from) \subseteq changes[d]
      /\ \A row \in Chunk(d, from) : Before(from, row.cursor)
      /\ \A row \in Chunk(d, from) : \A other \in changes[d] :
           Before(from, other.cursor) => row.cursor.epoch <= other.cursor.epoch
  BY DEF Chunk
<1>3. ASSUME NEW row \in Chunk(d, from), NEW other \in Chunk(d, from)
      PROVE  row.cursor.epoch = other.cursor.epoch
  <2>1. row.cursor.epoch <= other.cursor.epoch /\ other.cursor.epoch <= row.cursor.epoch
    BY <1>2
  <2>2. row.cursor.epoch \in Nat /\ other.cursor.epoch \in Nat
    BY <1>1, <1>2
  <2>3. QED
    BY <2>1, <2>2
<1>4. QED
  BY <1>1, <1>2, <1>3

\* What follows a cursor begins with an epoch.
LEMMA ChunkFound ==
  ASSUME TypeOK, NEW d \in Device, NEW from, NEW row \in changes[d],
         Before(from, row.cursor)
  PROVE  Chunk(d, from) # {}
<1> DEFINE rows   == {x \in changes[d] : Before(from, x.cursor)}
           epochs == {x.cursor.epoch : x \in rows}
<1>1. epochs \in SUBSET Nat /\ epochs # {}
  BY DEF TypeOK, Change, Cursor
<1> HIDE DEF epochs
<1>2. PICK e \in epochs : \A f \in epochs : e <= f
  BY <1>1, LeastOfNats
<1> USE DEF epochs
<1>3. PICK x \in rows : x.cursor.epoch = e
  BY <1>2
<1>4. x \in Chunk(d, from)
  BY <1>2, <1>3 DEF Chunk
<1>5. QED
  BY <1>4

\* There is always a bundle to export.
LEMMA ExportsExist ==
  ASSUME TypeOK, SequencesBounded, NEW d \in Device, NEW from
  PROVE  \E b \in Exports(d, from) : TRUE
<1>1. \E through : through \in Through(d, from)
  <2>1. CASE Chunk(d, from) = {}
    BY <2>1 DEF Through
  <2>2. CASE Chunk(d, from) # {}
    <3> DEFINE sequences == {row.cursor.sequence : row \in Chunk(d, from)}
    <3>1. PICK n \in Nat : \A row \in changes[d] : row.cursor.sequence <= n
      BY DEF SequencesBounded
    <3>2. sequences \in SUBSET Nat /\ sequences # {} /\ \A s \in sequences : s <= n
      BY <2>2, <3>1, ChunkRows
    <3> HIDE DEF sequences
    <3>3. PICK m \in sequences : \A s \in sequences : s <= m
      BY <3>2, GreatestOfBounded
    <3> USE DEF sequences
    <3>4. PICK last \in Chunk(d, from) : last.cursor.sequence = m
      BY <3>3
    <3>5. ASSUME NEW row \in Chunk(d, from)
          PROVE  AtMost(row.cursor, last.cursor)
      <4>1. /\ row.cursor \in Cursor /\ last.cursor \in Cursor
            /\ row.cursor.sequence \in Nat /\ last.cursor.sequence \in Nat
            /\ row.cursor.epoch = last.cursor.epoch
            /\ row.cursor.sequence <= last.cursor.sequence
        BY <3>3, <3>4, ChunkRows
      <4>2. QED
        BY <4>1, CursorsEqual DEF AtMost, Before
    <3>6. last.cursor \in Through(d, from)
      BY <3>5 DEF Through
    <3>7. QED
      BY <3>6
  <2>3. QED
    BY <2>1, <2>2
<1>2. QED
  BY <1>1 DEF Exports

\* A bundle ends where it starts and is empty, or at its last row.
LEMMA ExportEnds ==
  ASSUME TypeOK, NEW d \in Device, NEW from \in Cursor, NEW b \in Exports(d, from)
  PROVE  \/ Chunk(d, from) = {} /\ b.changes = {} /\ b.through = from
         \/ \E last \in Chunk(d, from) :
              /\ b.through = last.cursor
              /\ \A row \in Chunk(d, from) : row.cursor.sequence <= last.cursor.sequence
<1>1. /\ b.through \in {from} \cup {row.cursor : row \in Chunk(d, from)}
      /\ \A row \in Chunk(d, from) : AtMost(row.cursor, b.through)
      /\ b.changes = {Wire(d, row) : row \in Chunk(d, from)}
  BY ExportsParts
<1>2. CASE Chunk(d, from) = {}
  BY <1>1, <1>2
<1>3. CASE Chunk(d, from) # {}
  <2>1. PICK some \in Chunk(d, from) : some.cursor \in Cursor /\ Before(from, some.cursor)
    BY <1>3, ChunkRows
  <2>2. b.through # from
    BY <1>1, <2>1, CursorsCompare
  <2>3. PICK last \in Chunk(d, from) : b.through = last.cursor
    BY <1>1, <2>2
  <2>4. ASSUME NEW row \in Chunk(d, from)
        PROVE  row.cursor.sequence <= last.cursor.sequence
    <3>1. AtMost(row.cursor, last.cursor)
      BY <1>1, <2>3
    <3>2. /\ row.cursor.epoch = last.cursor.epoch /\ row.cursor.epoch \in Nat
          /\ row.cursor.sequence \in Nat /\ last.cursor.sequence \in Nat
      BY ChunkRows
    <3>3. QED
      BY <3>1, <3>2 DEF AtMost, Before
  <2>5. QED
    BY <2>3, <2>4
<1>4. QED
  BY <1>2, <1>3

\* A bundle that goes no further than the next epoch is one the importer
\* validates.
LEMMA ExportValid ==
  ASSUME TypeOK, AllocatedOnly, RowsExportable, StreamFilled, NEW d \in Device,
         NEW from \in Cursor, NEW b \in Exports(d, from),
         b.through.epoch <= b.from.epoch + 1
  PROVE  ValidPayload(b)
<1>1. b.from = from /\ b.changes = {Wire(d, row) : row \in Chunk(d, from)}
  BY ExportsParts
<1>2. CASE b.changes = {} /\ b.through = from
  BY <1>1, <1>2 DEF ValidPayload
<1>3. ASSUME NEW last \in Chunk(d, from), b.through = last.cursor,
             \A row \in Chunk(d, from) : row.cursor.sequence <= last.cursor.sequence
      PROVE  ValidPayload(b)
  <2> DEFINE first == IF b.through.epoch = b.from.epoch THEN b.from.sequence + 1 ELSE 1
             e     == b.through.epoch
             n     == b.through.sequence
  <2>1. /\ from.epoch \in Nat /\ from.sequence \in Nat
        /\ e \in Nat /\ n \in Nat /\ last \in changes[d]
        /\ Before(from, b.through)
        /\ last.cursor.epoch = e /\ last.cursor.sequence = n
    BY <1>3, ChunkRows DEF Cursor
  <2>2. e \in {from.epoch, from.epoch + 1} /\ first \in Nat /\ first >= 1
    BY <1>1, <2>1 DEF Before
  <2>3. ASSUME NEW c \in b.changes
        PROVE  /\ c.cursor.epoch = e
               /\ c.operation = "tombstone" => c.tombstoned
               /\ c.cursor.sequence \in first..n
    <3>1. PICK row \in Chunk(d, from) : c = Wire(d, row)
      BY <1>1
    <3>2. /\ c.cursor = row.cursor /\ c.operation = row.operation
          /\ c.tombstoned = (row.record \in tombstoned[d])
      BY <3>1 DEF Wire
    <3>3. /\ row \in changes[d] /\ row.cursor.epoch = e
          /\ row.cursor.sequence \in Nat /\ row.cursor.sequence <= n
          /\ Before(from, row.cursor)
      BY <1>3, <2>1, ChunkRows
    <3>4. row.cursor.sequence > 0 /\ (row.operation = "tombstone" => row.record \in tombstoned[d])
      BY <3>3 DEF AllocatedOnly, RowsExportable
    <3>5. row.cursor.sequence >= first
      BY <1>1, <2>1, <3>3, <3>4 DEF Before
    <3>6. row.cursor.sequence \in first..n
      BY <2>1, <2>2, <3>3, <3>5
    <3> HIDE DEF first, n, e
    <3>7. QED
      BY <3>2, <3>3, <3>4, <3>6
  <2>4. ASSUME NEW i \in first..n
        PROVE  \E c \in b.changes : c.cursor.sequence = i
    <3>1. i \in 1..last.cursor.sequence
      BY <2>1, <2>2
    <3>2. PICK row \in changes[d] : row.cursor.epoch = e /\ row.cursor.sequence = i
      BY <2>1, <3>1 DEF StreamFilled, HasRow
    <3>3. Before(from, row.cursor)
      BY <1>1, <2>1, <3>2 DEF Before
    <3>4. \A other \in changes[d] : Before(from, other.cursor) => e <= other.cursor.epoch
      BY <2>1, ChunkRows
    <3>5. row \in Chunk(d, from)
      BY <3>2, <3>3, <3>4 DEF Chunk
    <3>6. Wire(d, row) \in b.changes /\ Wire(d, row).cursor = row.cursor
      BY <1>1, <3>5 DEF Wire
    <3>7. QED
      BY <3>2, <3>6
  <2>5. b.changes # {}
    BY <1>1, <1>3
  <2>6. {c.cursor.sequence : c \in b.changes} = first..n
    BY <2>3, <2>4
  <2>7. QED
    BY <1>1, <2>2, <2>3, <2>5, <2>6 DEF ValidPayload
<1>4. QED
  BY <1>2, <1>3, ExportEnds

\* The importer has, or is given, both records of every pair.
LEMMA ExportPairsResolve ==
  ASSUME TypeOK, AllocatedOnly, RecordsReferred, RecordsReach, NEW d \in Device,
         NEW b \in Exports(d, cursor[Peer(d)])
  PROVE  PairsResolve(Peer(d), b)
<1> SUFFICES ASSUME NEW p \in b.flagged, NEW r \in {p[1], p[2]}, r \notin known[Peer(d)]
             PROVE  r \in MergedRecords(Peer(d), b)
  BY DEF PairsResolve
<1>1. /\ b.from = cursor[Peer(d)]
      /\ b.flagged = ShippedPairs(d, b.through, flagged[d])
  BY ExportsParts
<1>2. b.through = head[d] /\ r \in known[d]
  BY <1>1 DEF ShippedPairs, RecordsReferred
<1>3. PICK row \in changes[d] : row.record = r /\ Before(cursor[Peer(d)], row.cursor)
  BY <1>2 DEF RecordsReach, Due, RowsFor
<1>4. AtMost(row.cursor, b.through)
  BY <1>2 DEF AllocatedOnly
<1>5. cursor[Peer(d)] \in RequestedFrom(d)
  BY DEF RequestedFrom
<1>6. PICK c \in b.changes : c.record = r
  BY <1>1, <1>3, <1>4, <1>5, ExportsComplete DEF Carries
<1>7. Before(cursor[Peer(d)], b.through)
  <2>1. /\ cursor[Peer(d)] \in Cursor /\ row.cursor \in Cursor /\ head[d] \in Cursor
    BY PeerOf DEF TypeOK, Change
  <2>2. QED
    BY <1>2, <1>3, <1>4, <2>1 DEF AtMost, Before, Cursor
<1>8. QED
  BY <1>6, <1>7 DEF MergedRecords, Merged, Advances

\* The importer knows the origins by the same records, but for reused ones.
LEMMA ExportOriginsFit ==
  ASSUME TypeOK, RecordsReferred, SightingsCaptured, NEW d \in Device, NEW from,
         NEW b \in Exports(d, from), Advances(Peer(d), b)
  PROVE  OriginsFit(Peer(d), b) <=> ~CarriesReused(b)
<1>1. /\ b.changes = {Wire(d, row) : row \in Chunk(d, from)}
      /\ Peer(d) \in Device /\ Peer(Peer(d)) = d
  BY ExportsParts, PeerOf, PeerOfPeer
<1>2. ASSUME NEW c \in b.changes, NEW o \in c.origins
      PROVE  o \in Origin /\ <<o, c.record>> \in sightings[d]
  BY <1>1 DEF Wire
<1>3. QED
  BY <1>1, <1>2, BackedFit

\* What is exported to the peer's own cursor, the peer accepts, and it gets
\* further if there is anything further.
LEMMA ExportAccepted ==
  ASSUME TypeOK, NEW d \in Device, NEW b \in Exports(d, cursor[Peer(d)])
  PROVE  /\ Acceptable(Peer(d), b)
         /\ (\E row \in changes[d] : Before(b.from, row.cursor)) => Advances(Peer(d), b)
<1> DEFINE from == cursor[Peer(d)]
<1>1. b.from = from /\ from \in Cursor
  BY ExportsParts, PeerOf DEF TypeOK
<1>2. CASE Chunk(d, from) = {} /\ b.changes = {} /\ b.through = from
  <2>1. ~Before(from, from)
    BY <1>1, CursorsCompare DEF AtMost
  <2>2. QED
    BY <1>1, <1>2, <2>1, ChunkFound DEF Acceptable, Advances
<1>3. CASE \E last \in Chunk(d, from) : b.through = last.cursor
  <2>1. Before(from, b.through)
    BY <1>3, ChunkRows
  <2>2. QED
    BY <1>1, <2>1 DEF Acceptable, Advances
<1>4. QED
  BY <1>1, <1>2, <1>3, ExportEnds

LEMMA ExportImportable ==
  ASSUME TypeOK, ReplicaInv, RowsExportable, SourceInv, ReachInv, StreamFilled,
         NEW d \in Device, NEW b \in Exports(d, cursor[Peer(d)]),
         b.through.epoch <= b.from.epoch + 1
  PROVE  Importable(Peer(d), b) <=> ~CarriesReused(b)
<1>1. cursor[Peer(d)] \in Cursor
  BY PeerOf DEF TypeOK
<1>2. ValidPayload(b)
  BY <1>1, ExportValid DEF ReplicaInv
<1>3. PairsResolve(Peer(d), b)
  BY ExportPairsResolve DEF ReplicaInv, SourceInv, ReachInv
<1>4. OriginsFit(Peer(d), b) <=> ~CarriesReused(b)
  <2>1. CASE Advances(Peer(d), b)
    BY <2>1, ExportOriginsFit DEF SourceInv
  <2>2. CASE ~Advances(Peer(d), b)
    <3>1. OriginsFit(Peer(d), b)
      BY <2>2 DEF OriginsFit, MergedSightings, Merged
    <3>2. b.from = cursor[Peer(d)] /\ b.changes = {Wire(d, row) : row \in Chunk(d, b.from)}
      BY ExportsParts
    <3>3. b.changes = {}
      BY <2>2, <3>2, ExportAccepted DEF Chunk
    <3>4. QED
      BY <3>1, <3>3 DEF CarriesReused
  <2>3. QED
    BY <2>1, <2>2
<1>5. QED
  BY <1>2, <1>3, <1>4, ExportAccepted DEF Importable

\* Whatever came before, a store exports to its peer's cursor a bundle the peer
\* commits, and that takes the peer further while there are rows to read,
\* unless the next of them is more than one epoch ahead or carries an origin
\* callers of both stores reused (sync.rs export_promotions, validate_payload,
\* import_verified_bundle).
THEOREM StoresNeverStuck == Spec => []NeverStuck
<1>1. /\ TypeOK /\ ReplicaInv /\ RowsExportable /\ SourceInv /\ ReachInv
      /\ StreamFilled /\ SequencesBounded
      => NeverStuck
  <2> SUFFICES ASSUME TypeOK, ReplicaInv, RowsExportable, SourceInv, ReachInv,
                      StreamFilled, SequencesBounded, NEW d \in Device
               PROVE  \E b \in Exports(d, cursor[Peer(d)]) :
                        b.through.epoch <= b.from.epoch + 1 /\ ~CarriesReused(b) =>
                          /\ Importable(Peer(d), b)
                          /\ (\E row \in changes[d] : Before(b.from, row.cursor))
                               => Advances(Peer(d), b)
    BY DEF NeverStuck
  <2>1. PICK b \in Exports(d, cursor[Peer(d)]) : TRUE
    BY ExportsExist
  <2>2. QED
    BY <2>1, ExportImportable, ExportAccepted
<1>2. QED
  BY TypeCorrect, ReplicaInvariant, StreamsExportable, SourceInvariant, ReachInvariant,
     FilledInvariant, <1>1, PTL

---------------------------------------------------------------------------
(* Where no epoch is left empty.                                           *)

\* Unless an operator bumps a store with no captures, no epoch is skipped.
EpochsUsed ==
  \A d \in Device :
    /\ head[d].epoch >= 1
    /\ \A e \in 1..head[d].epoch : head[d].epoch = 1 \/ HasRow(d, e, 1)

LEMMA EpochsUsedStep ==
  ASSUME ~EmptyBump, TypeOK, TypeOK', AllocatedOnly, CapturesCurrent, StreamFilled,
         EpochsUsed, [Next]_vars
  PROVE  EpochsUsed'
<1> SUFFICES ASSUME NEW d \in Device
             PROVE  /\ head'[d].epoch >= 1
                    /\ \A e \in 1..head'[d].epoch :
                         head'[d].epoch = 1 \/ HasRow(d, e, 1)'
  BY DEF EpochsUsed
<1>1. /\ head[d].epoch \in Nat /\ head[d].epoch >= 1
      /\ \A e \in 1..head[d].epoch : head[d].epoch = 1 \/ HasRow(d, e, 1)
  BY DEF EpochsUsed, TypeOK, Cursor
<1>2. Numbers(d) /\ (BumpEpoch(d) \/ head'[d].epoch = head[d].epoch)
  BY StreamsNumbered
<1>3. \A e : HasRow(d, e, 1) => HasRow(d, e, 1)'
  BY <1>2 DEF Numbers, HasRow
<1>4. CASE head'[d].epoch = head[d].epoch
  BY <1>1, <1>3, <1>4
<1>5. CASE BumpEpoch(d)
  <2> DEFINE n == Cardinality(CapturedRecords(d))
  <2>1. n \in Nat /\ n > 0 /\ head'[d].epoch = head[d].epoch + 1 /\ head'[d].sequence = n
    <3>1. n \in Nat
      BY <1>1, SnapshotRows DEF TypeOK
    <3>2. QED
      BY <1>5, <3>1 DEF BumpEpoch, TypeOK
  <2>2. PICK r : r \in CapturedRecords(d)
    <3>1. CapturedRecords(d) # {}
      BY <2>1, FS_EmptySet
    <3>2. QED
      BY <3>1
  <2>3. PICK row \in changes[d] : row.cursor.epoch = head[d].epoch
    BY <2>2 DEF CapturesCurrent, Current, RowsFor
  <2>4. 1 \in 1..row.cursor.sequence
    <3>1. row.cursor.sequence \in Nat /\ row.cursor.sequence > 0
      BY DEF TypeOK, Change, Cursor, AllocatedOnly
    <3>2. QED
      BY <3>1
  <2>5. HasRow(d, head[d].epoch, 1)
    BY <2>3, <2>4 DEF StreamFilled
  <2>6. HasRow(d, head[d].epoch, 1)'
    <3>1. 1 \in 1..head'[d].sequence /\ head'[d].epoch # head[d].epoch
      BY <1>1, <2>1
    <3>2. \E x \in changes'[d] : x.cursor.epoch = head'[d].epoch /\ x.cursor.sequence = 1
      BY <1>2, <3>1 DEF Numbers
    <3>3. QED
      BY <3>2 DEF HasRow
  <2>7. ASSUME NEW e \in 1..head'[d].epoch
        PROVE  HasRow(d, e, 1)'
    <3>1. CASE e = head'[d].epoch
      BY <2>6, <3>1
    <3>2. CASE e = head[d].epoch
      BY <1>3, <2>5, <3>2
    <3>3. CASE e \in 1..head[d].epoch /\ e # head[d].epoch
      <4>1. head[d].epoch # 1
        BY <1>1, <3>3
      <4>2. QED
        BY <1>1, <1>3, <3>3, <4>1
    <3>4. QED
      BY <1>1, <2>1, <3>1, <3>2, <3>3
  <2>8. QED
    BY <1>1, <2>1, <2>7
<1>6. QED
  BY <1>2, <1>4, <1>5

\* So what an importer reads next is never more than one epoch ahead.
LEMMA ExportIsNear ==
  ASSUME TypeOK, AllocatedOnly, EpochsUsed, NEW d \in Device, NEW from \in Cursor,
         NEW b \in Exports(d, from)
  PROVE  b.through.epoch <= b.from.epoch + 1
<1>1. b.from = from /\ from.epoch \in Nat
  BY ExportsParts DEF Cursor
<1>2. ASSUME NEW last \in Chunk(d, from), b.through = last.cursor
      PROVE  last.cursor.epoch <= from.epoch + 1
  <2>1. /\ last \in changes[d] /\ last.cursor.epoch \in Nat
        /\ \A other \in changes[d] :
             Before(from, other.cursor) => last.cursor.epoch <= other.cursor.epoch
    BY ChunkRows
  <2>2. last.cursor.epoch <= head[d].epoch /\ head[d].epoch \in Nat
    <3>1. head[d].epoch \in Nat /\ AtMost(last.cursor, head[d])
      BY <2>1 DEF AllocatedOnly, TypeOK, Cursor
    <3>2. QED
      BY <2>1, <3>1 DEF AtMost, Before
  <2>3. ASSUME from.epoch + 1 < last.cursor.epoch
        PROVE  FALSE
    <3>1. from.epoch + 1 \in 1..head[d].epoch /\ head[d].epoch # 1
      BY <1>1, <2>1, <2>2, <2>3
    <3>2. PICK row \in changes[d] : row.cursor.epoch = from.epoch + 1
      BY <3>1 DEF EpochsUsed, HasRow
    <3>3. Before(from, row.cursor)
      BY <1>1, <3>2 DEF Before
    <3>4. QED
      BY <1>1, <2>1, <2>3, <3>2, <3>3
  <2>4. QED
    BY <1>1, <2>1, <2>3
<1>3. QED
  BY <1>1, <1>2, ExportEnds

\* What a store exports to its peer's cursor takes the peer further, and is
\* refused exactly if it carries a reused origin.
StrandedByReuse ==
  \A d \in Device : \E b \in Exports(d, cursor[Peer(d)]) :
    /\ Importable(Peer(d), b) <=> ~CarriesReused(b)
    /\ (\E row \in changes[d] : Before(b.from, row.cursor)) => Advances(Peer(d), b)

\* Where no operator takes the snapshot of a store that has captured nothing,
\* only an origin that callers of both stores reused strands a peer, and it
\* does, at the first bundle that carries it (lib.rs capture and
\* bump_promotion_epoch_and_snapshot, sync.rs validate_payload, merge_record).
THEOREM OnlyReuseStrands ==
  ASSUME ~EmptyBump
  PROVE  Spec => []StrandedByReuse
<1>1. Init => EpochsUsed
  BY DEF Init, EpochsUsed
<1>2. /\ TypeOK /\ TypeOK' /\ ReplicaInv /\ CapturesCurrent /\ StreamFilled /\ EpochsUsed
      /\ [Next]_vars
      => EpochsUsed'
  BY EpochsUsedStep DEF ReplicaInv
<1>3. /\ TypeOK /\ ReplicaInv /\ RowsExportable /\ SourceInv /\ ReachInv
      /\ StreamFilled /\ SequencesBounded /\ EpochsUsed
      => StrandedByReuse
  <2> SUFFICES ASSUME TypeOK, ReplicaInv, RowsExportable, SourceInv, ReachInv,
                      StreamFilled, SequencesBounded, EpochsUsed, NEW d \in Device
               PROVE  \E b \in Exports(d, cursor[Peer(d)]) :
                        /\ Importable(Peer(d), b) <=> ~CarriesReused(b)
                        /\ (\E row \in changes[d] : Before(b.from, row.cursor))
                             => Advances(Peer(d), b)
    BY DEF StrandedByReuse
  <2>1. PICK b \in Exports(d, cursor[Peer(d)]) : TRUE
    BY ExportsExist
  <2>2. cursor[Peer(d)] \in Cursor
    BY PeerOf DEF TypeOK
  <2>3. b.through.epoch <= b.from.epoch + 1
    BY <2>1, <2>2, ExportIsNear DEF ReplicaInv
  <2>4. QED
    BY <2>1, <2>3, ExportImportable, ExportAccepted
<1>4. QED
  BY TypeCorrect, ReplicaInvariant, StreamsExportable, SourceInvariant, ReachInvariant,
     CurrentInvariant, FilledInvariant, <1>1, <1>2, <1>3, PTL DEF Spec

---------------------------------------------------------------------------
(* The promotion stream.                                                   *)

LEMMA TwoSides ==
  /\ Source \in Device /\ Consumer \in Device
  /\ Consumer # Source /\ Peer(Consumer) = Source /\ Peer(Source) = Consumer
  BY SourceIsDevice, PeerOf, PeerOfPeer DEF SourceIsDevice, Consumer

(* The rows of the consumer's epoch up to its cursor.                      *)
Read ==
  {row \in changes[Source] : /\ row.cursor.epoch = cursor[Consumer].epoch
                             /\ AtMost(row.cursor, cursor[Consumer])}

ReceivedIsRead == Received = Read

\* The replica covers its cursor, so what was read was received.
LEMMA ReadIsReceived == ReplicaCoversCursor => ReceivedIsRead
<1> SUFFICES ASSUME ReplicaCoversCursor
             PROVE  Received = Read
  BY DEF ReceivedIsRead
<1>1. ASSUME NEW row \in Read
      PROVE  Holds(Consumer, row)
  BY <1>1, TwoSides DEF Read, ReplicaCoversCursor, Holds
<1>2. QED
  BY <1>1 DEF Received, Read, Holds

\* What the consumer has read, now or before a reset, it has answered, and
\* what is marked promoted was answered.
ReadAnswered ==
  \A row \in changes[Source] : AtMost(row.cursor, cursor[Consumer]) => row \in Answered

ConfirmedAnswered == changes[Source] \ pending[Source] \subseteq Answered

(* What a step does to one direction of the synchronisation.               *)
Keeps ==
  /\ changes'[Source] = changes[Source]
  /\ pending'[Source] = pending[Source]
  /\ answers'[Source] = answers[Source]
  /\ cursor'[Consumer] = cursor[Consumer]

Sends ==
  /\ pending'[Source] = pending[Source] \cup (changes'[Source] \ changes[Source])
  /\ answers'[Source] = answers[Source]
  /\ cursor'[Consumer] = cursor[Consumer]

Answers(b) ==
  /\ changes'[Source] = changes[Source]
  /\ pending'[Source] = pending[Source]
  /\ answers'[Source] = answers[Source] \cup {b.through}
  /\ b.source = Source
  /\ \/ Import(Consumer, b)
     \/ cursor'[Consumer] = cursor[Consumer] /\ Before(b.through, cursor[Consumer])

Confirms(through) ==
  /\ changes'[Source] = changes[Source]
  /\ pending'[Source] = {row \in pending[Source] : ~AtMost(row.cursor, through)}
  /\ answers'[Source] = answers[Source]
  /\ cursor'[Consumer] = cursor[Consumer]

Restarts ==
  /\ changes'[Source] = changes[Source]
  /\ pending'[Source] = pending[Source]
  /\ answers'[Source] = answers[Source]
  /\ cursor'[Consumer].epoch = cursor[Consumer].epoch
  /\ cursor'[Consumer].sequence = 0

LEMMA PromoteSends ==
  ASSUME TypeOK, AllocatedOnly, NEW d \in Device, NEW r \in Record,
         NEW operation \in {"upsert", "tombstone"}, Promote(d, operation, r),
         UNCHANGED <<answers, cursor>>
  PROVE  Keeps \/ Sends
<1>1. CASE d # Source
  BY <1>1, TwoSides DEF Promote, Keeps, TypeOK
<1>2. CASE d = Source
  <2> DEFINE row == [cursor |-> NextCursor(d), operation |-> operation, record |-> r]
  <2>1. /\ changes'[Source] = changes[Source] \cup {row}
        /\ pending'[Source] = pending[Source] \cup {row}
    BY <1>2, TwoSides DEF Promote, TypeOK
  <2>2. row \notin changes[Source]
    <3>1. head[d] \in Cursor /\ NextCursor(d) \in Cursor /\ Before(head[d], NextCursor(d))
      BY NextCursorAdvances DEF TypeOK
    <3>2. ~AtMost(NextCursor(d), head[d])
      BY <3>1, CursorsCompare
    <3>3. QED
      BY <1>2, <3>2 DEF AllocatedOnly
  <2> HIDE DEF row
  <2>3. QED
    BY <2>1, <2>2 DEF Sends
<1>3. QED
  BY <1>1, <1>2

LEMMA BumpSends ==
  ASSUME TypeOK, AllocatedOnly, NEW d \in Device, BumpEpoch(d)
  PROVE  Keeps \/ Sends
<1>1. UNCHANGED <<answers, cursor>>
  BY DEF BumpEpoch, replicaVars
<1>2. CASE d # Source
  BY <1>1, <1>2, TwoSides DEF BumpEpoch, Keeps, TypeOK
<1>3. CASE d = Source
  <2> DEFINE e == head[d].epoch + 1
  <2>1. /\ changes'[Source] = changes[Source] \cup Snapshot(d, e)
        /\ pending'[Source] = pending[Source] \cup Snapshot(d, e)
    BY <1>3, TwoSides DEF BumpEpoch, TypeOK
  <2>2. e \in Nat /\ head[d] \in Cursor /\ captures[d] \subseteq Origin \X Record
    BY DEF TypeOK, Cursor
  <2>3. \A row \in Snapshot(d, e) : row \in Change /\ row.cursor.epoch = e
    BY <2>2, SnapshotRows
  <2>4. \A row \in Snapshot(d, e) : ~AtMost(row.cursor, head[d])
    <3>1. \A row \in Snapshot(d, e) : row.cursor \in Cursor /\ Before(head[d], row.cursor)
      BY <2>2, <2>3 DEF Change, Cursor, Before
    <3>2. QED
      BY <2>2, <3>1, CursorsCompare
  <2>5. Snapshot(d, e) \cap changes[Source] = {}
    BY <1>3, <2>4 DEF AllocatedOnly
  <2> HIDE DEF e
  <2>6. QED
    BY <1>1, <2>1, <2>5 DEF Sends
<1>4. QED
  BY <1>2, <1>3

LEMMA ImportAnswers ==
  ASSUME TypeOK, NEW d \in Device, NEW b \in net, Import(d, b) \/ ImportStale(d, b)
  PROVE  Keeps \/ Answers(b)
<1>1. /\ UNCHANGED <<changes, pending>>
      /\ b.source = Peer(d)
      /\ answers' = [answers EXCEPT ![Peer(d)] = @ \cup {b.through}]
  BY DEF Import, ImportStale, streamVars
<1>2. CASE d = Consumer
  <2>1. answers'[Source] = answers[Source] \cup {b.through} /\ b.source = Source
    BY <1>1, <1>2, TwoSides DEF TypeOK
  <2>2. QED
    BY <1>1, <1>2, <2>1 DEF Answers, ImportStale, replicaVars
<1>3. CASE d # Consumer
  <2>1. d = Source /\ answers'[Source] = answers[Source]
    BY <1>1, <1>3, TwoSides, PeerOf DEF TypeOK
  <2>2. cursor'[Consumer] = cursor[Consumer]
    BY <1>3, TwoSides DEF Import, ImportStale, replicaVars, TypeOK
  <2>3. QED
    BY <1>1, <2>1, <2>2 DEF Keeps
<1>4. QED
  BY <1>2, <1>3

LEMMA StreamSteps ==
  ASSUME TypeOK, AllocatedOnly, [Next]_vars
  PROVE  \/ Keeps \/ Sends \/ Restarts
         \/ \E b \in net : Answers(b)
         \/ \E through \in answers[Source] : Confirms(through)
<1>1. ASSUME NEW d \in Device, Local(d)
      PROVE  Keeps \/ Sends \/ Restarts
  <2>1. ASSUME NEW o \in Offered[d], NEW r \in Record, NEW ts \in SUBSET Tag,
               Capture(d, o, r, ts)
        PROVE  Keeps \/ Sends
    BY <2>1, PromoteSends DEF Capture, replicaVars, streamVars, Keeps
  <2>2. ASSUME NEW r \in Record, Forget(d, r)
        PROVE  Keeps \/ Sends
    BY <2>2, PromoteSends DEF Forget, replicaVars
  <2>3. ASSUME NEW p \in Pair, FlagDivergence(d, p) \/ AcknowledgeDivergence(d, p)
        PROVE  Keeps
    BY <2>3 DEF FlagDivergence, AcknowledgeDivergence, replicaVars, streamVars, Keeps
  <2>4. CASE ResetReplica(d)
    <3>1. UNCHANGED <<changes, pending, answers>>
      BY <2>4 DEF ResetReplica, streamVars
    <3>2. CASE d = Consumer
      <4>1. cursor'[Consumer] = [cursor[Consumer] EXCEPT !.sequence = 0]
        BY <2>4, <3>2, TwoSides DEF ResetReplica, ReenrolledCursor, TypeOK
      <4>2. cursor[Consumer] \in Cursor
        BY TwoSides DEF TypeOK
      <4>3. QED
        BY <3>1, <4>1, <4>2 DEF Restarts, Cursor
    <3>3. CASE d # Consumer
      BY <2>4, <3>1, <3>3, TwoSides DEF ResetReplica, Keeps, TypeOK
    <3>4. QED
      BY <3>2, <3>3
  <2>5. QED
    BY <1>1, <2>1, <2>2, <2>3, <2>4, BumpSends DEF Local
<1>2. ASSUME NEW d \in Device, NEW through \in answers[d],
             AcknowledgePromotions(d, through)
      PROVE  Keeps \/ (d = Source /\ Confirms(through))
  BY <1>2, TwoSides DEF AcknowledgePromotions, replicaVars, Keeps, Confirms, TypeOK
<1>3. ASSUME NEW d \in Device, NEW from \in RequestedFrom(d), Export(d, from)
      PROVE  Keeps
  BY <1>3 DEF Export, replicaVars, streamVars, Keeps
<1>4. ASSUME NEW d \in Device, Sync(d)
      PROVE  \/ Keeps
             \/ \E b \in net : Answers(b)
             \/ \E through \in answers[Source] : Confirms(through)
  BY <1>2, <1>3, <1>4, ImportAnswers DEF Sync
<1>5. ASSUME (\E b \in net : Lose(b)) \/ UNCHANGED vars
      PROVE  Keeps
  BY <1>5 DEF Lose, vars, replicaVars, streamVars, Keeps
<1>6. QED
  BY <1>1, <1>4, <1>5 DEF Next

LEMMA AnsweredStays ==
  ASSUME answers[Source] \subseteq answers'[Source], NEW row \in changes'[Source],
         row \in Answered
  PROVE  row \in Answered'
  BY DEF Answered

LEMMA StreamInvStep ==
  ASSUME TypeOK, TypeOK', AllocatedOnly, ReadAnswered, ConfirmedAnswered, [Next]_vars
  PROVE  (ReadAnswered /\ ConfirmedAnswered)'
<1> SUFFICES ASSUME NEW row \in changes'[Source]
             PROVE  /\ AtMost(row.cursor, cursor'[Consumer]) => row \in Answered'
                    /\ row \notin pending'[Source] => row \in Answered'
  BY DEF ReadAnswered, ConfirmedAnswered
<1>1. /\ row.cursor \in Cursor
      /\ cursor[Consumer] \in Cursor /\ cursor'[Consumer] \in Cursor
      /\ head[Source] \in Cursor
      /\ AtMost(cursor[Consumer], head[Source])
  BY TwoSides DEF TypeOK, Change, AllocatedOnly
<1>2. answers[Source] \subseteq answers'[Source]
  BY StreamSteps DEF Keeps, Sends, Restarts, Answers, Confirms
<1>3. ASSUME row \in changes[Source], AtMost(row.cursor, cursor[Consumer])
      PROVE  row \in Answered'
  BY <1>2, <1>3, AnsweredStays DEF ReadAnswered
<1>4. ASSUME row \in changes[Source], row \notin pending[Source]
      PROVE  row \in Answered'
  BY <1>2, <1>4, AnsweredStays DEF ConfirmedAnswered
<1>5. CASE Keeps
  BY <1>3, <1>4, <1>5 DEF Keeps
<1>6. CASE Sends
  <2>1. CASE row \in changes[Source]
    BY <1>3, <1>4, <1>6, <2>1 DEF Sends
  <2>2. CASE row \notin changes[Source]
    <3>1. Before(head[Source], row.cursor)
      BY <2>2, TwoSides, StreamsAppend DEF Appends
    <3>2. ~AtMost(row.cursor, cursor[Consumer])
      BY <1>1, <3>1, AtMostTransitive, CursorsCompare
    <3>3. QED
      BY <1>6, <2>2, <3>2 DEF Sends
  <2>3. QED
    BY <2>1, <2>2
<1>7. CASE Restarts
  <2>1. AtMost(cursor'[Consumer], cursor[Consumer])
    <3>1. ~Before(cursor[Consumer], cursor'[Consumer])
      BY <1>1, <1>7 DEF Restarts, Before, Cursor
    <3>2. QED
      BY <1>1, <3>1, CursorsCompare
  <2>2. AtMost(row.cursor, cursor'[Consumer]) => AtMost(row.cursor, cursor[Consumer])
    BY <1>1, <2>1, AtMostTransitive
  <2>3. QED
    BY <1>3, <1>4, <1>7, <2>2 DEF Restarts
<1>8. ASSUME NEW b \in net, Answers(b)
      PROVE  /\ AtMost(row.cursor, cursor'[Consumer]) => row \in Answered'
             /\ row \notin pending'[Source] => row \in Answered'
  <2>1. CASE cursor'[Consumer] = cursor[Consumer]
    BY <1>3, <1>4, <1>8, <2>1 DEF Answers
  <2>2. CASE Import(Consumer, b)
    <3>1. cursor'[Consumer] = b.through
      BY <2>2, TwoSides, ImportAdvances
    <3>2. b.through \in answers'[Source]
      BY <1>8 DEF Answers
    <3>3. AtMost(row.cursor, cursor'[Consumer]) => row \in Answered'
      BY <3>1, <3>2 DEF Answered
    <3>4. QED
      BY <1>4, <1>8, <3>3 DEF Answers
  <2>3. QED
    BY <1>8, <2>1, <2>2 DEF Answers
<1>9. ASSUME NEW through \in answers[Source], Confirms(through)
      PROVE  /\ AtMost(row.cursor, cursor'[Consumer]) => row \in Answered'
             /\ row \notin pending'[Source] => row \in Answered'
  <2>1. AtMost(row.cursor, cursor'[Consumer]) => row \in Answered'
    BY <1>3, <1>9 DEF Confirms
  <2>2. ASSUME row \in pending[Source], row \notin pending'[Source]
        PROVE  row \in Answered'
    <3>1. through \in answers'[Source] /\ AtMost(row.cursor, through)
      BY <1>2, <1>9, <2>2 DEF Confirms
    <3>2. QED
      BY <3>1 DEF Answered
  <2>3. QED
    BY <1>4, <1>9, <2>1, <2>2 DEF Confirms
<1>10. QED
  BY <1>5, <1>6, <1>7, <1>8, <1>9, StreamSteps

LEMMA StreamInvariant == Spec => [](ReadAnswered /\ ConfirmedAnswered)
<1>1. Init => ReadAnswered /\ ConfirmedAnswered
  BY TwoSides DEF Init, ReadAnswered, ConfirmedAnswered
<1>2. /\ TypeOK /\ TypeOK' /\ ReplicaInv /\ ReadAnswered /\ ConfirmedAnswered
      /\ [Next]_vars
      => (ReadAnswered /\ ConfirmedAnswered)'
  BY StreamInvStep DEF ReplicaInv
<1>3. QED
  BY TypeCorrect, ReplicaInvariant, <1>1, <1>2, PTL DEF Spec

---------------------------------------------------------------------------
(* Each step of the two stores is a step of the promotion stream.          *)

\* The rows of an epoch up to a cursor are a prefix of the epoch's rows.
LEMMA UpToIsPrefix ==
  ASSUME NEW rows, \A row \in rows : row.cursor \in Cursor, NEW c \in Cursor
  PROVE  Stream!Prefix({row \in rows : /\ row.cursor.epoch = c.epoch
                                      /\ AtMost(row.cursor, c)},
                       {row \in rows : row.cursor.epoch = c.epoch})
<1>1. ASSUME NEW row \in rows, NEW other \in rows, AtMost(row.cursor, c),
             Stream!Before(other.cursor, row.cursor)
      PROVE  AtMost(other.cursor, c)
  <2>1. AtMost(other.cursor, row.cursor)
    BY <1>1 DEF AtMost, Before, Stream!Before
  <2>2. QED
    BY <1>1, <2>1, AtMostTransitive
<1>2. QED
  BY <1>1 DEF Stream!Prefix

LEMMA SendStep ==
  ASSUME TypeOK, TypeOK', AllocatedOnly, [Next]_vars, Sends,
         ReceivedIsRead, ReceivedIsRead'
  PROVE  Stream!Send
<1>1. /\ Source \in Device /\ head[Source] \in Cursor
      /\ cursor[Consumer] \in Cursor /\ AtMost(cursor[Consumer], head[Source])
      /\ \A row \in changes[Source] \cup changes'[Source] : row.cursor \in Cursor
      /\ changes[Source] \subseteq changes'[Source]
  BY TwoSides, StreamsAppend DEF TypeOK, Change, Appends, AllocatedOnly
<1>2. ASSUME NEW old \in changes[Source], NEW new \in changes'[Source] \ changes[Source]
      PROVE  Before(old.cursor, new.cursor)
  <2>1. AtMost(old.cursor, head[Source]) /\ Before(head[Source], new.cursor)
    BY <1>1, StreamsAppend DEF AllocatedOnly, Appends
  <2>2. QED
    BY <1>1, <2>1 DEF AtMost, Before, Cursor
<1>3. ASSUME NEW c \in Cursor, AtMost(c, head[Source]),
             NEW new \in changes'[Source] \ changes[Source]
      PROVE  ~AtMost(new.cursor, c)
  <2>1. Before(head[Source], new.cursor)
    BY <1>1, StreamsAppend DEF Appends
  <2>2. QED
    BY <1>1, <1>3, <2>1, AtMostTransitive, CursorsCompare
<1>4. Read' = Read
  BY <1>1, <1>3 DEF Read, Sends
<1>5. Answered' = Answered
  <2>1. \A through \in answers[Source] : through \in Cursor /\ AtMost(through, head[Source])
    BY <1>1 DEF TypeOK, AllocatedOnly
  <2>2. QED
    BY <1>1, <1>3, <2>1 DEF Answered, Sends
<1>6. changes'[Source] \ pending'[Source] = changes[Source] \ pending[Source]
  BY <1>1 DEF Sends
<1>7. QED
  BY <1>1, <1>2, <1>4, <1>5, <1>6
     DEF Stream!Send, Stream!Before, Before, Sends, ReceivedIsRead

\* An answer that does not move the cursor tells nothing new.
LEMMA AnswerStutters ==
  ASSUME TypeOK, ReadAnswered, NEW b \in net, Answers(b),
         cursor'[Consumer] = cursor[Consumer], AtMost(b.through, cursor[Consumer])
  PROVE  Answered' = Answered
<1>1. \A row \in changes[Source] :
        AtMost(row.cursor, b.through) => AtMost(row.cursor, cursor[Consumer])
  <2>1. /\ b.through \in Cursor /\ cursor[Consumer] \in Cursor
        /\ \A row \in changes[Source] : row.cursor \in Cursor
    BY TwoSides DEF TypeOK, Bundle, Change
  <2>2. QED
    BY <2>1, AtMostTransitive
<1>2. QED
  BY <1>1 DEF Answers, Answered, ReadAnswered

\* A bundle that ends in the next epoch is accepted only when every row of
\* this one was read: a bundle has one epoch's rows, and misses none.
LEMMA EpochFinished ==
  ASSUME TypeOK, BundlesComplete, NEW b \in net, Import(Consumer, b),
         b.source = Source, b.through # cursor[Consumer],
         b.through.epoch # cursor[Consumer].epoch
  PROVE  /\ b.through.epoch = cursor[Consumer].epoch + 1
         /\ Read = Stream!RowsOf(cursor[Consumer].epoch)
<1>1. Before(cursor[Consumer], b.through) /\ b.from = cursor[Consumer]
  BY TwoSides, ImportEffect
<1>2. /\ b.from \in Cursor /\ b.through \in Cursor
      /\ \A row \in changes[Source] : row.cursor \in Cursor
  BY TwoSides DEF TypeOK, Bundle, Change
<1>3. /\ b.through.epoch \in {b.from.epoch, b.from.epoch + 1}
      /\ \A c \in b.changes : c.cursor.epoch = b.through.epoch
  BY <1>1 DEF Import, ValidPayload
<1>4. ASSUME NEW row \in changes[Source], row.cursor.epoch = cursor[Consumer].epoch
      PROVE  AtMost(row.cursor, cursor[Consumer])
  <2>1. SUFFICES ASSUME Before(b.from, row.cursor)
                 PROVE  FALSE
    BY <1>1, <1>2, CursorsCompare
  <2>2. AtMost(row.cursor, b.through)
    BY <1>1, <1>2, <1>4 DEF AtMost, Before, Cursor
  <2>3. Carries(b, row)
    BY <2>1, <2>2 DEF BundlesComplete
  <2>4. row.cursor.epoch = b.through.epoch
    BY <1>3, <2>3 DEF Carries
  <2>5. QED
    BY <1>4, <2>4
<1>5. QED
  BY <1>1, <1>3, <1>4 DEF Read, Stream!RowsOf

LEMMA DeliverStep ==
  ASSUME TypeOK, TypeOK', BundlesComplete, ReadAnswered,
         NEW b \in net, Answers(b), Import(Consumer, b), b.through # cursor[Consumer],
         ReceivedIsRead, ReceivedIsRead'
  PROVE  Stream!Deliver \/ Stream!DeliverNextEpoch
<1>1. /\ Consumer \in Device
      /\ Before(cursor[Consumer], b.through) /\ b.from = cursor[Consumer]
      /\ cursor'[Consumer] = b.through
      /\ b.source = Source
  BY TwoSides, ImportEffect DEF Answers
<1>2. /\ cursor[Consumer] \in Cursor /\ b.through \in Cursor
      /\ \A row \in changes[Source] : row.cursor \in Cursor
  BY <1>1 DEF TypeOK, Bundle, Change
<1>3. /\ changes'[Source] = changes[Source]
      /\ pending'[Source] = pending[Source]
      /\ answers'[Source] = answers[Source] \cup {b.through}
  BY DEF Answers
<1>4. Stream!Prefix(Read', Stream!RowsOf(b.through.epoch))
  <2>1. Read' = {row \in changes[Source] : /\ row.cursor.epoch = b.through.epoch
                                           /\ AtMost(row.cursor, b.through)}
    BY <1>1, <1>3 DEF Read
  <2>2. QED
    BY <1>2, <2>1, UpToIsPrefix DEF Stream!RowsOf
<1>5. \A row \in changes[Source] : AtMost(row.cursor, cursor[Consumer]) => row \in Answered
  BY DEF ReadAnswered
<1>6. Answered' = Answered \cup {row \in changes[Source] : AtMost(row.cursor, b.through)}
  BY <1>3 DEF Answered
<1>7. CASE b.through.epoch = cursor[Consumer].epoch
  <2>1. Read \subseteq Read'
    <3>1. \A row \in changes[Source] :
            AtMost(row.cursor, cursor[Consumer]) => AtMost(row.cursor, b.through)
      BY <1>1, <1>2, AtMostTransitive DEF AtMost
    <3>2. QED
      BY <1>1, <1>3, <1>7, <3>1 DEF Read
  <2>2. \A row \in changes[Source] :
          AtMost(row.cursor, b.through)
            => row \in Read' \/ AtMost(row.cursor, cursor[Consumer])
    <3>1. \A row \in changes[Source] :
            AtMost(row.cursor, b.through) /\ row.cursor.epoch # b.through.epoch
              => AtMost(row.cursor, cursor[Consumer])
      BY <1>2, <1>7 DEF AtMost, Before, Cursor
    <3>2. QED
      BY <1>1, <1>3, <3>1 DEF Read
  <2>3. Answered' = Answered \cup Read'
    <3>1. Read' \subseteq {row \in changes[Source] : AtMost(row.cursor, b.through)}
      BY <1>1, <1>3 DEF Read
    <3>2. QED
      BY <1>5, <1>6, <2>2, <3>1
  <2>4. QED
    BY <1>1, <1>3, <1>4, <1>7, <2>1, <2>3 DEF Stream!Deliver, ReceivedIsRead
<1>8. CASE b.through.epoch # cursor[Consumer].epoch
  <2>1. /\ b.through.epoch = cursor[Consumer].epoch + 1
        /\ Read = Stream!RowsOf(cursor[Consumer].epoch)
    BY <1>1, <1>8, EpochFinished
  <2>2. \A row \in changes[Source] :
          AtMost(row.cursor, b.through)
            => row \in Read' \/ AtMost(row.cursor, cursor[Consumer])
    <3>1. ASSUME NEW row \in changes[Source], AtMost(row.cursor, b.through),
                 row.cursor.epoch # b.through.epoch
          PROVE  AtMost(row.cursor, cursor[Consumer])
      <4>1. row.cursor.epoch <= cursor[Consumer].epoch
        BY <1>2, <2>1, <3>1 DEF AtMost, Before, Cursor
      <4>2. CASE row.cursor.epoch = cursor[Consumer].epoch
        BY <2>1, <4>2 DEF Read, Stream!RowsOf
      <4>3. CASE row.cursor.epoch < cursor[Consumer].epoch
        BY <4>3 DEF AtMost, Before
      <4>4. QED
        BY <1>2, <4>1, <4>2, <4>3 DEF Cursor
    <3>2. QED
      BY <1>1, <1>3, <3>1 DEF Read
  <2>3. Answered' = Answered \cup Read'
    <3>1. Read' \subseteq {row \in changes[Source] : AtMost(row.cursor, b.through)}
      BY <1>1, <1>3 DEF Read
    <3>2. QED
      BY <1>5, <1>6, <2>2, <3>1
  <2>4. QED
    BY <1>1, <1>3, <1>4, <2>1, <2>3 DEF Stream!DeliverNextEpoch, ReceivedIsRead
<1>9. QED
  BY <1>7, <1>8

LEMMA RestartStep ==
  ASSUME TypeOK, TypeOK', AllocatedOnly, Restarts, ReceivedIsRead, ReceivedIsRead'
  PROVE  Stream!Restart
<1>1. Consumer \in Device /\ Source \in Device
  BY TwoSides
<1>2. \A row \in changes[Source] : row.cursor \in Cursor /\ row.cursor.sequence > 0
  BY <1>1 DEF TypeOK, Change, AllocatedOnly
<1>3. Read' = {}
  <2>1. \A row \in changes[Source] :
          row.cursor.epoch = cursor'[Consumer].epoch
            => ~AtMost(row.cursor, cursor'[Consumer])
    BY <1>2 DEF Restarts, AtMost, Before, Cursor
  <2>2. QED
    BY <2>1 DEF Read, Restarts
<1>4. Answered' = Answered
  BY DEF Answered, Restarts
<1>5. QED
  BY <1>3, <1>4 DEF Stream!Restart, Restarts, ReceivedIsRead

LEMMA ConfirmStep ==
  ASSUME NEW through \in answers[Source], Confirms(through), ConfirmedAnswered,
         ReceivedIsRead, ReceivedIsRead'
  PROVE  Stream!Confirm
<1>1. Read' = Read /\ Answered' = Answered
  BY DEF Read, Answered, Confirms
<1>2. changes[Source] \ pending[Source] \subseteq changes'[Source] \ pending'[Source]
  BY DEF Confirms
<1>3. changes'[Source] \ pending'[Source] \subseteq Answered
  BY DEF Confirms, ConfirmedAnswered, Answered
<1>4. QED
  BY <1>1, <1>2, <1>3 DEF Stream!Confirm, Confirms, ReceivedIsRead

LEMMA KeepStutters ==
  ASSUME Keeps, ReceivedIsRead, ReceivedIsRead'
  PROVE  UNCHANGED Stream!vars
<1>1. Read' = Read /\ Answered' = Answered
  BY DEF Read, Answered, Keeps
<1>2. QED
  BY <1>1 DEF Stream!vars, Keeps, ReceivedIsRead

LEMMA AnswerStep ==
  ASSUME TypeOK, TypeOK', BundlesComplete, ReadAnswered, NEW b \in net, Answers(b),
         ReceivedIsRead, ReceivedIsRead'
  PROVE  Stream!Deliver \/ Stream!DeliverNextEpoch \/ UNCHANGED Stream!vars
<1>1. ASSUME cursor'[Consumer] = cursor[Consumer], AtMost(b.through, cursor[Consumer])
      PROVE  UNCHANGED Stream!vars
  <2>1. Answered' = Answered
    BY <1>1, AnswerStutters
  <2>2. Read' = Read
    BY <1>1 DEF Read, Answers
  <2>3. QED
    BY <1>1, <2>1, <2>2 DEF Stream!vars, Answers, ReceivedIsRead
<1>2. CASE Import(Consumer, b) /\ b.through = cursor[Consumer]
  <2>1. cursor'[Consumer] = cursor[Consumer]
    BY <1>2, TwoSides, ImportEffect
  <2>2. QED
    BY <1>1, <1>2, <2>1 DEF AtMost
<1>3. CASE Import(Consumer, b) /\ b.through # cursor[Consumer]
  BY <1>3, DeliverStep
<1>4. CASE cursor'[Consumer] = cursor[Consumer] /\ Before(b.through, cursor[Consumer])
  BY <1>1, <1>4 DEF AtMost
<1>5. QED
  BY <1>2, <1>3, <1>4 DEF Answers

LEMMA StreamStep ==
  ASSUME TypeOK, TypeOK', ReplicaInv, ReadAnswered, ConfirmedAnswered,
         ReceivedIsRead, ReceivedIsRead', [Next]_vars
  PROVE  [Stream!Next]_(Stream!vars)
<1>1. AllocatedOnly /\ BundlesComplete
  BY DEF ReplicaInv
<1>2. CASE Keeps
  BY <1>2, KeepStutters
<1>3. CASE Sends
  BY <1>1, <1>3, SendStep DEF Stream!Next
<1>4. CASE Restarts
  BY <1>1, <1>4, RestartStep DEF Stream!Next
<1>5. ASSUME NEW b \in net, Answers(b)
      PROVE  [Stream!Next]_(Stream!vars)
  BY <1>1, <1>5, AnswerStep DEF Stream!Next
<1>6. ASSUME NEW through \in answers[Source], Confirms(through)
      PROVE  [Stream!Next]_(Stream!vars)
  BY <1>6, ConfirmStep DEF Stream!Next
<1>7. QED
  BY <1>1, <1>2, <1>3, <1>4, <1>5, <1>6, StreamSteps

\* A store's promotion to its peer implements the promotion stream, with no
\* bound on what the transport loses, repeats, delays or reorders: rows arrive
\* in order and complete, an epoch is finished before the next begins, and a
\* row is marked promoted only once committed (sync.rs export_promotions,
\* import_verified_bundle, acknowledge_promotions).
THEOREM ImplementsStream == Spec => StreamImplemented
<1>1. Init => Stream!Init
  <2>1. Init => changes[Source] = {} /\ cursor[Consumer].epoch = 0
    BY TwoSides DEF Init, Start
  <2>2. changes[Source] = {} => Received = {} /\ Answered = {}
    BY DEF Received, Answered
  <2>3. QED
    BY <2>1, <2>2 DEF Stream!Init
<1>2. Spec => []ReceivedIsRead
  BY ReplicaCovers, ReadIsReceived, PTL
<1>3. /\ TypeOK /\ TypeOK' /\ ReplicaInv /\ ReadAnswered /\ ConfirmedAnswered
      /\ ReceivedIsRead /\ ReceivedIsRead' /\ [Next]_vars
      => [Stream!Next]_(Stream!vars)
  BY StreamStep
<1>4. QED
  BY TypeCorrect, ReplicaInvariant, StreamInvariant, <1>1, <1>2, <1>3, PTL
     DEF Spec, StreamImplemented, Stream!Spec

---------------------------------------------------------------------------
(* The records of a store.                                                 *)

PromotedRecords(d) == {row.record : row \in changes[d]}

\* A capture that is a replay promotes nothing, and its record was promoted.
LEMMA CaptureIsRecorded ==
  ASSUME TypeOK, CapturesCurrent, NEW d \in Device, NEW o \in Offered[d], NEW r \in Record,
         NEW ts \in SUBSET Tag, Capture(d, o, r, ts)
  PROVE  Records(d)!CaptureRecord(r)
<1> DEFINE new == <<o, r>>
<1>1. /\ known'[d] = known[d] \cup {r} /\ tombstoned'[d] = tombstoned[d]
      /\ captures'[d] = captures[d] \cup {new}
      /\ replicas'[d] = replicas[d]
  BY CaptureEffect DEF Capture
<1>2. new[2] = r
  OBVIOUS
<1> HIDE DEF new
<1>3. CapturedRecords(d)' = CapturedRecords(d) \cup {r}
  BY <1>1, <1>2 DEF CapturedRecords
<1>4. PromotedRecords(d)' = PromotedRecords(d) \cup {r}
  <2>1. CASE Promote(d, "upsert", r)
    <3> DEFINE row == [cursor |-> NextCursor(d), operation |-> "upsert", record |-> r]
    <3>1. changes'[d] = changes[d] \cup {row} /\ row.record = r
      BY <2>1 DEF Promote, TypeOK
    <3> HIDE DEF row
    <3>2. QED
      BY <3>1 DEF PromotedRecords
  <2>2. CASE new \in captures[d] /\ UNCHANGED streamVars
    <3>1. r \in CapturedRecords(d)
      BY <1>2, <2>2 DEF CapturedRecords
    <3>2. r \in PromotedRecords(d)
      BY <3>1 DEF CapturesCurrent, Current, RowsFor, PromotedRecords
    <3>3. QED
      BY <2>2, <3>2 DEF PromotedRecords, streamVars
  <2>3. QED
    BY <2>1, <2>2 DEF Capture, new
<1>5. QED
  BY <1>1, <1>3, <1>4 DEF Records!CaptureRecord, PromotedRecords

LEMMA ForgetIsRecorded ==
  ASSUME TypeOK, NEW d \in Device, NEW r \in Record, Forget(d, r)
  PROVE  Records(d)!ForgetRecord(r)
<1> DEFINE row == [cursor |-> NextCursor(d), operation |-> "tombstone", record |-> r]
<1>1. /\ known'[d] = known[d] /\ tombstoned'[d] = tombstoned[d] \cup {r}
      /\ captures'[d] = captures[d] /\ replicas'[d] = replicas[d]
      /\ r \in known[d] \ tombstoned[d]
  BY ForgetEffect DEF Forget
<1>2. changes'[d] = changes[d] \cup {row} /\ row.record = r
  BY DEF Forget, Promote, TypeOK
<1> HIDE DEF row
<1>3. PromotedRecords(d)' = PromotedRecords(d) \cup {r}
  BY <1>2 DEF PromotedRecords
<1>4. CapturedRecords(d)' = CapturedRecords(d)
  BY <1>1 DEF CapturedRecords
<1>5. QED
  BY <1>1, <1>3, <1>4 DEF Records!ForgetRecord, Records!Live, PromotedRecords

\* A bump promotes again what was promoted.
LEMMA BumpIsUnrecorded ==
  ASSUME TypeOK, CapturesCurrent, NEW d \in Device, BumpEpoch(d)
  PROVE  UNCHANGED Records(d)!recordVars
<1> DEFINE e == head[d].epoch + 1
<1>1. /\ changes'[d] = changes[d] \cup Snapshot(d, e)
      /\ known'[d] = known[d] /\ tombstoned'[d] = tombstoned[d]
      /\ captures'[d] = captures[d] /\ replicas'[d] = replicas[d]
  BY DEF BumpEpoch, recordVars, TypeOK
<1>2. e \in Nat
  BY DEF TypeOK, Cursor
<1>3. \A row \in Snapshot(d, e) : row.record \in CapturedRecords(d)
  BY <1>2, SnapshotRows DEF TypeOK
<1> HIDE DEF e
<1>4. CapturedRecords(d) \subseteq PromotedRecords(d)
  BY DEF CapturesCurrent, Current, RowsFor, PromotedRecords
<1>5. PromotedRecords(d)' = PromotedRecords(d)
  BY <1>1, <1>3, <1>4 DEF PromotedRecords
<1>6. CapturedRecords(d)' = CapturedRecords(d)
  BY <1>1 DEF CapturedRecords
<1>7. QED
  BY <1>1, <1>5, <1>6 DEF Records!recordVars, PromotedRecords

LEMMA ResetIsRecorded ==
  ASSUME TypeOK, NEW d \in Device, ResetReplica(d)
  PROVE  Records(d)!DropReplica
<1>1. Records(d)!ReplicaOnly = ReplicaOnly(d)
  BY DEF Records!ReplicaOnly, ReplicaOnly
<1>2. ReplicaOnly(d) \cap PromotedRecords(d) = {}
  BY ResetEffect DEF Promoted, RowsFor, PromotedRecords
<1>3. /\ known'[d] = known[d] \ ReplicaOnly(d)
      /\ tombstoned'[d] = tombstoned[d] \ ReplicaOnly(d)
      /\ captures'[d] = captures[d] /\ changes'[d] = changes[d]
  BY ResetEffect
<1>4. replicas'[d] = {}
  BY DEF ResetReplica, TypeOK
<1>5. QED
  BY <1>1, <1>2, <1>3, <1>4 DEF Records!DropReplica, PromotedRecords, CapturedRecords

LEMMA ImportIsRecorded ==
  ASSUME TypeOK, NEW d \in Device, NEW b \in net, Import(d, b)
  PROVE  /\ MergedRecords(d, b) \in SUBSET Record
         /\ MergedTombstones(d, b) \in SUBSET MergedRecords(d, b)
         /\ Records(d)!MergeRecords(MergedRecords(d, b), MergedTombstones(d, b))
<1>1. MergedRecords(d, b) \in SUBSET Record
  BY DEF TypeOK, Bundle, WireChange, Merged, MergedRecords
<1>2. MergedTombstones(d, b) \in SUBSET MergedRecords(d, b)
  BY DEF MergedTombstones, MergedRecords
<1>3. /\ known'[d] = known[d] \cup MergedRecords(d, b)
      /\ tombstoned'[d] = tombstoned[d] \cup MergedTombstones(d, b)
      /\ replicas'[d] = replicas[d] \cup MergedRecords(d, b)
      /\ captures' = captures /\ changes' = changes
  BY DEF Import, TypeOK, streamVars
<1>4. QED
  BY <1>1, <1>2, <1>3 DEF Records!MergeRecords, CapturedRecords

LEMMA RecordStep ==
  ASSUME TypeOK, CapturesCurrent, [Next]_vars, NEW d \in Device
  PROVE  [Records(d)!RecordNext]_(Records(d)!recordVars)
<1>1. ASSUME NEW o \in Offered[d], NEW r \in Record, NEW ts \in SUBSET Tag,
             Capture(d, o, r, ts)
      PROVE  Records(d)!RecordNext
  BY <1>1, CaptureIsRecorded DEF Records!RecordNext
<1>2. ASSUME NEW r \in Record, Forget(d, r)
      PROVE  Records(d)!RecordNext
  BY <1>2, ForgetIsRecorded DEF Records!RecordNext
<1>3. ASSUME NEW b \in net, Import(d, b)
      PROVE  Records(d)!RecordNext
  BY <1>3, ImportIsRecorded DEF Records!RecordNext
<1>4. CASE ResetReplica(d)
  BY <1>4, ResetIsRecorded DEF Records!RecordNext
<1>5. CASE BumpEpoch(d)
  BY <1>5, BumpIsUnrecorded
<1>6. CASE Rests(d)
  BY <1>6 DEF Rests, Records!recordVars, CapturedRecords
<1>7. QED
  BY <1>1, <1>2, <1>3, <1>4, <1>5, <1>6, ActsOrRests DEF Acts

\* The records of each store change only by the steps PersonalRecords allows,
\* on which the derivation of vectors is built: what is proved there of any
\* captures, forgets, imports and resets holds of those synchronisation makes
\* (lib.rs put, forget, reset_replica_for_reenrollment,
\* bump_promotion_epoch_and_snapshot; sync.rs import_verified_bundle).
THEOREM ImplementsRecords == Spec => RecordsImplemented
<1>1. Init => \A d \in Device : Records(d)!RecordInit
  BY DEF Init, Records!RecordInit, CapturedRecords
<1>2. TypeOK /\ CapturesCurrent /\ [Next]_vars
      => \A d \in Device : [Records(d)!RecordNext]_(Records(d)!recordVars)
  BY RecordStep
<1>3. QED
  BY TypeCorrect, CurrentInvariant, <1>1, <1>2, PTL DEF Spec, RecordsImplemented
=============================================================================
