------------------------- MODULE PersonalSync_proofs -------------------------
(***************************************************************************)
(* Safety of the synchronisation, for any set of records, origins and tags *)
(* and any bounds.                                                         *)
(***************************************************************************)
EXTENDS PersonalSync, FiniteSetTheorems, TLAPS

---------------------------------------------------------------------------
(* Cursors are totally ordered.                                            *)

LEMMA CursorsEqual ==
  ASSUME NEW a \in Cursor, NEW b \in Cursor,
         a.epoch = b.epoch, a.sequence = b.sequence
  PROVE  a = b
  BY DEF Cursor

LEMMA CursorsCompare ==
  ASSUME NEW a \in Cursor, NEW b \in Cursor
  PROVE  AtMost(a, b) <=> ~Before(b, a)
<1>1. /\ a.epoch \in Nat /\ a.sequence \in Nat
      /\ b.epoch \in Nat /\ b.sequence \in Nat
  BY DEF Cursor
<1>2. QED
  BY <1>1, CursorsEqual DEF AtMost, Before

LEMMA AtMostTransitive ==
  ASSUME NEW a \in Cursor, NEW b \in Cursor, NEW c \in Cursor,
         AtMost(a, b), AtMost(b, c)
  PROVE  AtMost(a, c)
<1>1. /\ a.epoch \in Nat /\ a.sequence \in Nat
      /\ b.epoch \in Nat /\ b.sequence \in Nat
      /\ c.epoch \in Nat /\ c.sequence \in Nat
  BY DEF Cursor
<1>2. QED
  BY <1>1 DEF AtMost, Before

LEMMA StartIsFirst ==
  ASSUME NEW a \in Cursor
  PROVE  Start \in Cursor /\ AtMost(Start, a)
<1>1. Start \in Cursor /\ a.epoch \in Nat /\ a.sequence \in Nat
  BY DEF Start, Cursor
<1>2. QED
  BY <1>1, CursorsCompare DEF Start, Before

(* There are two stores.                                                   *)
LEMMA PeerOf ==
  ASSUME NEW d \in Device
  PROVE  Peer(d) \in Device /\ Peer(d) # d /\ \A e \in Device : e = d \/ e = Peer(d)
<1>1. PICK a, b \in Device : a # b /\ Device = {a, b}
  BY TwoDevices DEF TwoDevices
<1>2. \E e \in Device : e # d
  BY <1>1
<1>3. Peer(d) \in Device /\ Peer(d) # d
  BY <1>2 DEF Peer
<1>4. QED
  BY <1>1, <1>3

LEMMA PeerOfPeer ==
  ASSUME NEW d \in Device
  PROVE  Peer(Peer(d)) = d
  BY PeerOf

---------------------------------------------------------------------------
(* The rows a store adds to its stream.                                    *)

LEMMA NextCursorAdvances ==
  ASSUME NEW d \in Device, head[d] \in Cursor
  PROVE  /\ NextCursor(d) \in Cursor
         /\ Before(head[d], NextCursor(d))
         /\ NextCursor(d).sequence \in Nat \ {0}
<1>1. head[d].epoch \in Nat /\ head[d].sequence \in Nat
  BY DEF Cursor
<1>2. NextCursor(d) = [epoch |-> head[d].epoch, sequence |-> head[d].sequence + 1]
  BY DEF NextCursor, Cursor
<1>3. QED
  BY <1>1, <1>2 DEF Cursor, Before

\* A snapshot row's sequence counts the captured digests up to its own, so it
\* lies between one and their number.
LEMMA SnapshotRows ==
  ASSUME NEW d \in Device, NEW e \in Nat, captures[d] \subseteq Origin \X Record
  PROVE  /\ Cardinality(CapturedRecords(d)) \in Nat
         /\ \A row \in Snapshot(d, e) :
              /\ row \in Change
              /\ row.cursor.epoch = e
              /\ row.cursor.sequence \in 1 .. Cardinality(CapturedRecords(d))
              /\ row.record \in CapturedRecords(d)
              /\ row.operation = "tombstone" => row.record \in tombstoned[d]
<1> DEFINE S == CapturedRecords(d)
           upTo(r) == {x \in S : x <= r}
<1>1. S \subseteq Record
  BY DEF CapturedRecords
<1>2. IsFiniteSet(S) /\ Cardinality(S) \in Nat
  BY <1>1, RecordsAreDigests, FS_Subset, FS_CardinalityType DEF RecordsAreDigests
<1>3. ASSUME NEW r \in S
      PROVE  Cardinality(upTo(r)) \in 1 .. Cardinality(S)
  <2> HIDE DEF S
  <2>0. r \in Int
    BY <1>1, <1>3, RecordsAreDigests DEF RecordsAreDigests
  <2>1. upTo(r) \in SUBSET S /\ r \in upTo(r)
    BY <2>0, <1>3
  <2> HIDE DEF upTo
  <2>2. IsFiniteSet(upTo(r)) /\ Cardinality(upTo(r)) <= Cardinality(S)
    BY <1>2, <2>1, FS_Subset
  <2>3. Cardinality(upTo(r)) \in Nat /\ Cardinality(upTo(r)) # 0
    BY <2>1, <2>2, FS_CardinalityType, FS_EmptySet
  <2>4. QED
    BY <1>2, <2>2, <2>3
<1>4. ASSUME NEW row \in Snapshot(d, e)
      PROVE  /\ row \in Change
             /\ row.cursor.epoch = e
             /\ row.cursor.sequence \in 1 .. Cardinality(S)
             /\ row.record \in S
             /\ row.operation = "tombstone" => row.record \in tombstoned[d]
  <2> DEFINE rowOf(r) ==
        [cursor    |-> [epoch |-> e, sequence |-> Cardinality(upTo(r))],
         operation |-> IF r \in tombstoned[d] THEN "tombstone" ELSE "upsert",
         record    |-> r]
  <2>0. Snapshot(d, e) = {rowOf(r) : r \in S}
    BY DEF Snapshot
  <2> HIDE DEF rowOf, upTo
  <2>1. PICK r \in S : row = rowOf(r)
    BY <2>0
  <2>2. Cardinality(upTo(r)) \in 1 .. Cardinality(S)
    BY <1>3
  <2>3. [epoch |-> e, sequence |-> Cardinality(upTo(r))] \in Cursor
    BY <1>2, <2>2 DEF Cursor
  <2>4. QED
    BY <1>1, <2>1, <2>2, <2>3 DEF Change, rowOf
<1>5. QED
  BY <1>2, <1>4

---------------------------------------------------------------------------
(* Types.                                                                  *)

LEMMA TypeInit == Init => TypeOK
<1> SUFFICES ASSUME Init
             PROVE  TypeOK
  OBVIOUS
<1>1. Start \in Cursor /\ [epoch |-> 1, sequence |-> 0] \in Cursor
  BY DEF Start, Cursor
<1>2. QED
  BY <1>1 DEF Init, TypeOK

LEMMA PromoteType ==
  ASSUME TypeOK, NEW d \in Device, NEW r \in Record,
         NEW operation \in {"upsert", "tombstone"}, Promote(d, operation, r)
  PROVE  /\ head' \in [Device -> Cursor]
         /\ changes' \in [Device -> SUBSET Change]
         /\ pending' \in [Device -> SUBSET Change]
<1>1. NextCursor(d) \in Cursor
  BY NextCursorAdvances DEF TypeOK
<1>2. [cursor |-> NextCursor(d), operation |-> operation, record |-> r] \in Change
  BY <1>1 DEF Change
<1>3. QED
  BY <1>1, <1>2 DEF TypeOK, Promote

LEMMA LocalType ==
  ASSUME TypeOK, NEW d \in Device, Local(d)
  PROVE  TypeOK'
<1>1. ASSUME NEW o \in Offered[d], NEW r \in Record, NEW ts \in SUBSET Tag,
             Capture(d, o, r, ts)
      PROVE  TypeOK'
  <2>1. /\ head' \in [Device -> Cursor]
        /\ changes' \in [Device -> SUBSET Change]
        /\ pending' \in [Device -> SUBSET Change]
    <3>1. CASE Promote(d, "upsert", r)
      BY <3>1, PromoteType
    <3>2. CASE UNCHANGED streamVars
      BY <3>2 DEF streamVars, TypeOK
    <3>3. QED
      BY <1>1, <3>1, <3>2 DEF Capture
  <2>2. <<o, r>> \in Origin \X Record /\ {r} \X ts \subseteq Record \X Tag
    BY OfferedAreOrigins DEF OfferedAreOrigins
  <2>3. known' \in [Device -> SUBSET Record] /\ tagged' \in [Device -> SUBSET (Record \X Tag)]
    BY <1>1, <2>2 DEF Capture, TypeOK
  <2>4. /\ sightings' \in [Device -> SUBSET (Origin \X Record)]
        /\ captures' \in [Device -> SUBSET (Origin \X Record)]
    BY <1>1, <2>2 DEF Capture, TypeOK
  <2>5. QED
    BY <1>1, <2>1, <2>3, <2>4 DEF Capture, TypeOK, replicaVars, divergenceVars
<1>2. ASSUME NEW r \in Record, Forget(d, r)
      PROVE  TypeOK'
  <2>1. /\ head' \in [Device -> Cursor]
        /\ changes' \in [Device -> SUBSET Change]
        /\ pending' \in [Device -> SUBSET Change]
    BY <1>2, PromoteType DEF Forget
  <2>2. QED
    BY <1>2, <2>1 DEF Forget, TypeOK, replicaVars, divergenceVars
<1>3. ASSUME NEW p \in Pair, FlagDivergence(d, p)
      PROVE  TypeOK'
  BY <1>3 DEF FlagDivergence, TypeOK, recordVars, streamVars, replicaVars
<1>4. ASSUME NEW p \in Pair, AcknowledgeDivergence(d, p)
      PROVE  TypeOK'
  BY <1>4 DEF AcknowledgeDivergence, TypeOK, recordVars, streamVars, replicaVars
<1>5. CASE BumpEpoch(d)
  <2> DEFINE e == head[d].epoch + 1
             size == Cardinality(CapturedRecords(d))
  <2>1. e \in Nat
    BY DEF TypeOK, Cursor
  <2>2. size \in Nat /\ Snapshot(d, e) \subseteq Change
    BY <2>1, SnapshotRows DEF TypeOK
  <2>3. [epoch |-> e, sequence |-> size] \in Cursor
    BY <2>1, <2>2 DEF Cursor
  <2>4. /\ head' = [head EXCEPT ![d] = [epoch |-> e, sequence |-> size]]
        /\ changes' = [changes EXCEPT ![d] = @ \cup Snapshot(d, e)]
        /\ pending' = [pending EXCEPT ![d] = @ \cup Snapshot(d, e)]
        /\ UNCHANGED <<recordVars, replicaVars, divergenceVars, net, answers, resets>>
    BY <1>5 DEF BumpEpoch
  <2> HIDE DEF e, size
  <2>5. /\ head' \in [Device -> Cursor]
        /\ changes' \in [Device -> SUBSET Change]
        /\ pending' \in [Device -> SUBSET Change]
    BY <2>2, <2>3, <2>4 DEF TypeOK
  <2>6. QED
    BY <2>4, <2>5 DEF TypeOK, recordVars, replicaVars, divergenceVars
<1>6. CASE ResetReplica(d)
  <2>1. [cursor[d] EXCEPT !.sequence = 0] \in Cursor
    BY DEF TypeOK, Cursor
  <2>2. cursor' \in [Device -> Cursor]
    BY <1>6, <2>1 DEF ResetReplica, ReenrolledCursor, TypeOK
  <2>3. /\ known' \in [Device -> SUBSET Record]
        /\ tombstoned' \in [Device -> SUBSET Record]
        /\ tagged' \in [Device -> SUBSET (Record \X Tag)]
        /\ sightings' \in [Device -> SUBSET (Origin \X Record)]
        /\ replicas' \in [Device -> SUBSET Record]
    BY <1>6 DEF ResetReplica, TypeOK
  <2>4. /\ fingerprint' \in [Device -> SUBSET Transition]
        /\ flagged' \in [Device -> SUBSET Pair]
        /\ acknowledged' \in [Device -> SUBSET Pair]
        /\ resets' \in [Device -> Nat]
    BY <1>6 DEF ResetReplica, TypeOK
  <2>5. QED
    BY <1>6, <2>2, <2>3, <2>4 DEF ResetReplica, TypeOK, streamVars
<1>7. QED
  BY <1>1, <1>2, <1>3, <1>4, <1>5, <1>6 DEF Local

\* Every position a transfer may be asked for is a cursor.
LEMMA RequestedType ==
  ASSUME TypeOK, NEW d \in Device, NEW from \in RequestedFrom(d)
  PROVE  from \in Cursor
<1>1. Start \in Cursor
  BY DEF Start, Cursor
<1>2. cursor[Peer(d)] \in Cursor /\ answers[d] \subseteq Cursor
  BY PeerOf DEF TypeOK
<1>3. \A b \in net : b.from \in Cursor
  BY DEF TypeOK, Bundle
<1>4. QED
  BY <1>1, <1>2, <1>3 DEF RequestedFrom

LEMMA WireType ==
  ASSUME NEW d \in Device, NEW row \in Change
  PROVE  Wire(d, row) \in WireChange
  BY DEF Wire, WireChange, Change

\* The parts of an exported bundle.
LEMMA ExportsParts ==
  ASSUME NEW d, NEW from, NEW b \in Exports(d, from)
  PROVE  /\ b.source = d
         /\ b.from = from
         /\ b.through \in {from} \cup {row.cursor : row \in Chunk(d, from)}
         /\ \A row \in Chunk(d, from) : AtMost(row.cursor, b.through)
         /\ b.changes = {Wire(d, row) : row \in Chunk(d, from)}
         /\ b.flagged = ShippedPairs(d, b.through, flagged[d])
         /\ b.acknowledged = ShippedPairs(d, b.through, acknowledged[d])
<1>1. PICK through \in Through(d, from) :
        b = [source       |-> d,
             from         |-> from,
             through      |-> through,
             changes      |-> {Wire(d, row) : row \in Chunk(d, from)},
             flagged      |-> ShippedPairs(d, through, flagged[d]),
             acknowledged |-> ShippedPairs(d, through, acknowledged[d])]
  BY DEF Exports
<1>2. b.through = through
  BY <1>1
<1>3. QED
  BY <1>1, <1>2 DEF Through

LEMMA ExportType ==
  ASSUME TypeOK, NEW d \in Device, NEW from \in Cursor, Export(d, from)
  PROVE  TypeOK'
<1>0. PICK through \in Through(d, from) :
        net' = net \cup
          {[source       |-> d,
            from         |-> from,
            through      |-> through,
            changes      |-> {Wire(d, row) : row \in Chunk(d, from)},
            flagged      |-> ShippedPairs(d, through, flagged[d]),
            acknowledged |-> ShippedPairs(d, through, acknowledged[d])]}
  BY DEF Export, Exports
<1>1. through \in {from} \cup {row.cursor : row \in Chunk(d, from)}
  BY DEF Through
<1>2. Chunk(d, from) \subseteq Change
  BY DEF TypeOK, Chunk
<1>3. through \in Cursor
  BY <1>1, <1>2 DEF Change
<1>4. {Wire(d, row) : row \in Chunk(d, from)} \subseteq WireChange
  BY <1>2, WireType
<1>5. /\ ShippedPairs(d, through, flagged[d]) \subseteq Pair
      /\ ShippedPairs(d, through, acknowledged[d]) \subseteq Pair
  BY DEF TypeOK, ShippedPairs
<1>6. net' \subseteq Bundle
  BY <1>0, <1>3, <1>4, <1>5 DEF TypeOK, Bundle
<1>7. QED
  BY <1>6 DEF Export, TypeOK, recordVars, streamVars, replicaVars, divergenceVars

LEMMA ImportType ==
  ASSUME TypeOK, NEW d \in Device, NEW b \in net, Import(d, b)
  PROVE  TypeOK'
<1>1. b \in Bundle /\ Peer(d) \in Device
  BY PeerOf DEF TypeOK
<1>2. /\ Merged(d, b) \subseteq WireChange
      /\ \A c \in Merged(d, b) : /\ c.record \in Record
                                 /\ c.tags \subseteq Tag
                                 /\ c.origins \subseteq Origin
  BY <1>1 DEF Merged, Bundle, WireChange
<1>3. /\ MergedRecords(d, b) \subseteq Record
      /\ MergedTombstones(d, b) \subseteq Record
      /\ UNION {{c.record} \X c.tags : c \in Merged(d, b)} \subseteq Record \X Tag
      /\ MergedSightings(d, b) \subseteq Origin \X Record
  BY <1>2 DEF MergedRecords, MergedTombstones, MergedSightings
<1>4. /\ known' \in [Device -> SUBSET Record]
      /\ tombstoned' \in [Device -> SUBSET Record]
      /\ replicas' \in [Device -> SUBSET Record]
  BY <1>3 DEF Import, TypeOK
<1>5. /\ tagged' \in [Device -> SUBSET (Record \X Tag)]
      /\ sightings' \in [Device -> SUBSET (Origin \X Record)]
  BY <1>3 DEF Import, TypeOK
<1>6. /\ flagged' \in [Device -> SUBSET Pair]
      /\ acknowledged' \in [Device -> SUBSET Pair]
  BY <1>1 DEF Import, TypeOK, Bundle, MergedAcknowledged
<1>7. /\ cursor' \in [Device -> Cursor]
      /\ answers' \in [Device -> SUBSET Cursor]
  BY <1>1 DEF Import, TypeOK, Bundle
<1>8. fingerprint' \in [Device -> SUBSET Transition]
  <2>1. Fingerprint(b) \in Transition
    BY <1>1 DEF Fingerprint, Transition, Bundle
  <2>2. QED
    BY <2>1 DEF Import, TypeOK
<1>9. QED
  BY <1>4, <1>5, <1>6, <1>7, <1>8 DEF Import, TypeOK, streamVars

LEMMA SyncType ==
  ASSUME TypeOK, NEW d \in Device, Sync(d)
  PROVE  TypeOK'
<1>1. ASSUME NEW b \in net, ImportStale(d, b)
      PROVE  TypeOK'
  <2>1. Peer(d) \in Device /\ b.through \in Cursor
    BY PeerOf DEF TypeOK, Bundle
  <2>2. answers' \in [Device -> SUBSET Cursor]
    BY <1>1, <2>1 DEF ImportStale, TypeOK
  <2>3. QED
    BY <1>1, <2>2 DEF ImportStale, TypeOK, recordVars, streamVars, replicaVars,
                      divergenceVars
<1>2. ASSUME NEW through \in answers[d], AcknowledgePromotions(d, through)
      PROVE  TypeOK'
  BY <1>2 DEF AcknowledgePromotions, TypeOK, recordVars, replicaVars, divergenceVars
<1>3. QED
  BY <1>1, <1>2, RequestedType, ExportType, ImportType DEF Sync

\* The tables, the bundles on the way and the cursors keep their types
\* (personal store schema, SyncBundleV1, SyncCursor).
THEOREM TypeCorrect == Spec => []TypeOK
<1>1. TypeOK /\ [Next]_vars => TypeOK'
  <2> SUFFICES ASSUME TypeOK, [Next]_vars
               PROVE  TypeOK'
    OBVIOUS
  <2>1. ASSUME NEW b \in net, Lose(b)
        PROVE  TypeOK'
    BY <2>1 DEF Lose, TypeOK, recordVars, streamVars, replicaVars, divergenceVars
  <2>2. CASE UNCHANGED vars
    BY <2>2 DEF vars, TypeOK, recordVars, streamVars, replicaVars, divergenceVars
  <2>3. QED
    BY <2>1, <2>2, LocalType, SyncType DEF Next
<1>2. QED
  BY TypeInit, <1>1, PTL DEF Spec

---------------------------------------------------------------------------
(* A stream only grows, at its end.                                        *)

\* What a step may do to the stream of d: append rows after everything
\* allocated before, each of them pending.
Appends(d) ==
  /\ AtMost(head[d], head'[d])
  /\ changes[d] \subseteq changes'[d]
  /\ \A row \in changes'[d] \ changes[d] :
       /\ Before(head[d], row.cursor)
       /\ AtMost(row.cursor, head'[d])
       /\ row.cursor.sequence > 0
       /\ row \in pending'[d]

LEMMA UnchangedAppends ==
  ASSUME NEW d \in Device, head'[d] = head[d], changes'[d] = changes[d]
  PROVE  Appends(d)
  BY DEF Appends, AtMost

LEMMA PromoteAppends ==
  ASSUME TypeOK, NEW d \in Device, NEW e \in Device, NEW r \in Record,
         NEW operation \in {"upsert", "tombstone"}, Promote(e, operation, r)
  PROVE  Appends(d)
<1>1. CASE d # e
  BY <1>1, UnchangedAppends DEF Promote, TypeOK
<1>2. CASE d = e
  <2> DEFINE row == [cursor |-> NextCursor(d), operation |-> operation, record |-> r]
  <2>1. /\ head'[d] = NextCursor(d)
        /\ changes'[d] = changes[d] \cup {row}
        /\ pending'[d] = pending[d] \cup {row}
    BY <1>2 DEF Promote, TypeOK
  <2>2. Before(head[d], NextCursor(d)) /\ NextCursor(d).sequence > 0
    BY NextCursorAdvances DEF TypeOK
  <2>3. QED
    BY <2>1, <2>2 DEF Appends, AtMost
<1>3. QED
  BY <1>1, <1>2

LEMMA BumpAppends ==
  ASSUME TypeOK, NEW d \in Device, NEW e \in Device, BumpEpoch(e)
  PROVE  Appends(d)
<1>1. CASE d # e
  BY <1>1, UnchangedAppends DEF BumpEpoch, TypeOK
<1>2. CASE d = e
  <2> DEFINE epoch == head[d].epoch + 1
             size  == Cardinality(CapturedRecords(d))
  <2>1. /\ head'[d] = [epoch |-> epoch, sequence |-> size]
        /\ changes'[d] = changes[d] \cup Snapshot(d, epoch)
        /\ pending'[d] = pending[d] \cup Snapshot(d, epoch)
    BY <1>2 DEF BumpEpoch, TypeOK
  <2>2. head[d] \in Cursor /\ head[d].epoch \in Nat /\ epoch \in Nat
    BY DEF TypeOK, Cursor
  <2>3. /\ size \in Nat
        /\ \A row \in Snapshot(d, epoch) :
             row \in Change /\ row.cursor.epoch = epoch /\ row.cursor.sequence \in 1 .. size
    BY <2>2, SnapshotRows DEF TypeOK
  <2>4. [epoch |-> epoch, sequence |-> size] \in Cursor
    BY <2>2, <2>3 DEF Cursor
  <2>5. Before(head[d], head'[d])
    BY <2>1, <2>2 DEF Before
  <2>6. ASSUME NEW row \in Snapshot(d, epoch)
        PROVE  /\ Before(head[d], row.cursor)
               /\ AtMost(row.cursor, head'[d])
               /\ row.cursor.sequence > 0
    <3>1. row.cursor \in Cursor /\ row.cursor.epoch = epoch /\ row.cursor.sequence \in 1 .. size
      BY <2>3 DEF Change
    <3>2. Before(head[d], row.cursor)
      BY <2>2, <3>1 DEF Before
    <3>3. ~Before(head'[d], row.cursor)
      BY <2>1, <2>2, <2>3, <3>1 DEF Before
    <3>4. QED
      BY <2>1, <2>3, <2>4, <3>1, <3>2, <3>3, CursorsCompare
  <2>7. QED
    BY <2>1, <2>5, <2>6 DEF Appends, AtMost
<1>3. QED
  BY <1>1, <1>2

LEMMA StreamsAppend ==
  ASSUME TypeOK, [Next]_vars, NEW d \in Device
  PROVE  Appends(d)
<1>1. ASSUME NEW e \in Device, Local(e)
      PROVE  Appends(d)
  <2>1. ASSUME NEW o \in Offered[e], NEW r \in Record, NEW ts \in SUBSET Tag,
               Capture(e, o, r, ts)
        PROVE  Appends(d)
    BY <2>1, PromoteAppends, UnchangedAppends DEF Capture, streamVars
  <2>2. ASSUME NEW r \in Record, Forget(e, r)
        PROVE  Appends(d)
    BY <2>2, PromoteAppends DEF Forget
  <2>3. ASSUME NEW p \in Pair, FlagDivergence(e, p) \/ AcknowledgeDivergence(e, p)
        PROVE  Appends(d)
    BY <2>3, UnchangedAppends DEF FlagDivergence, AcknowledgeDivergence, streamVars
  <2>4. CASE ResetReplica(e)
    BY <2>4, UnchangedAppends DEF ResetReplica, streamVars
  <2>5. QED
    BY <1>1, <2>1, <2>2, <2>3, <2>4, BumpAppends DEF Local
<1>2. ASSUME NEW e \in Device, Sync(e)
      PROVE  Appends(d)
  <2>1. UNCHANGED <<head, changes>>
    BY <1>2 DEF Sync, Export, Import, ImportStale, AcknowledgePromotions, streamVars
  <2>2. QED
    BY <2>1, UnchangedAppends
<1>3. ASSUME NEW b \in net, Lose(b)
      PROVE  Appends(d)
  BY <1>3, UnchangedAppends DEF Lose, streamVars
<1>4. CASE UNCHANGED vars
  BY <1>4, UnchangedAppends DEF vars, streamVars
<1>5. QED
  BY <1>1, <1>2, <1>3, <1>4 DEF Next

---------------------------------------------------------------------------
(* Positions and bundles.                                                  *)

\* Every position anyone holds in the stream of d has been allocated.
AllocatedOnly ==
  \A d \in Device :
    /\ \A row \in changes[d] : AtMost(row.cursor, head[d]) /\ row.cursor.sequence > 0
    /\ AtMost(cursor[Peer(d)], head[d])
    /\ \A through \in answers[d] : AtMost(through, head[d])
    /\ \A b \in net : b.source = d => AtMost(b.from, head[d]) /\ AtMost(b.through, head[d])

\* A bundle has every row of its source between its two cursors, also of the
\* rows there are now.
Carries(b, row) ==
  \E c \in b.changes : /\ c.cursor = row.cursor
                       /\ c.operation = row.operation
                       /\ c.record = row.record

BundlesComplete ==
  \A b \in net : \A row \in changes[b.source] :
    Before(b.from, row.cursor) /\ AtMost(row.cursor, b.through) => Carries(b, row)

\* Where cursors, answers and bundles come from in a step.
LEMMA CursorOrigins ==
  ASSUME TypeOK, [Next]_vars, NEW d \in Device
  PROVE  \/ cursor'[d] = cursor[d] /\ resets'[d] = resets[d]
         \/ ResetReplica(d)
         \/ \E b \in net : Import(d, b)
<1>1. ASSUME NEW e \in Device, Local(e), ~ResetReplica(d)
      PROVE  cursor'[d] = cursor[d] /\ resets'[d] = resets[d]
  <2>1. CASE ResetReplica(e)
    BY <1>1, <2>1 DEF ResetReplica, TypeOK
  <2>2. CASE ~ResetReplica(e)
    BY <1>1, <2>2 DEF Local, Capture, Forget, FlagDivergence, AcknowledgeDivergence,
                      BumpEpoch, replicaVars
  <2>3. QED
    BY <2>1, <2>2
<1>2. ASSUME NEW e \in Device, Sync(e), ~ \E b \in net : Import(d, b)
      PROVE  cursor'[d] = cursor[d] /\ resets'[d] = resets[d]
  <2>1. ASSUME NEW b \in net, Import(e, b)
        PROVE  cursor'[d] = cursor[d] /\ resets'[d] = resets[d]
    BY <1>2, <2>1 DEF Import, TypeOK
  <2>2. CASE ~ \E b \in net : Import(e, b)
    BY <1>2, <2>2 DEF Sync, Export, ImportStale, AcknowledgePromotions, replicaVars
  <2>3. QED
    BY <2>1, <2>2
<1>3. ASSUME NEW b \in net, Lose(b)
      PROVE  cursor'[d] = cursor[d] /\ resets'[d] = resets[d]
  BY <1>3 DEF Lose, replicaVars
<1>4. CASE UNCHANGED vars
  BY <1>4 DEF vars, replicaVars
<1>5. QED
  BY <1>1, <1>2, <1>3, <1>4 DEF Next

LEMMA AnswerOrigins ==
  ASSUME TypeOK, [Next]_vars, NEW d \in Device, NEW through \in answers'[d]
  PROVE  \/ through \in answers[d]
         \/ \E b \in net : /\ b.source = d
                           /\ through = b.through
                           /\ Import(Peer(d), b) \/ ImportStale(Peer(d), b)
<1>1. ASSUME NEW e \in Device, Local(e)
      PROVE  through \in answers[d]
  BY <1>1 DEF Local, Capture, Forget, FlagDivergence, AcknowledgeDivergence, BumpEpoch,
              ResetReplica
<1>2. ASSUME NEW e \in Device, NEW b \in net, Import(e, b) \/ ImportStale(e, b),
             through \notin answers[d]
      PROVE  b.source = d /\ through = b.through /\ e = Peer(d)
  <2>1. b.source = Peer(e) /\ answers' = [answers EXCEPT ![Peer(e)] = @ \cup {b.through}]
    BY <1>2 DEF Import, ImportStale
  <2>2. Peer(e) = d /\ through = b.through
    BY <1>2, <2>1 DEF TypeOK
  <2>3. QED
    BY <2>1, <2>2, PeerOfPeer
<1>3. ASSUME NEW e \in Device, Sync(e), through \notin answers[d]
      PROVE  \E b \in net : Import(e, b) \/ ImportStale(e, b)
  BY <1>3 DEF Sync, Export, AcknowledgePromotions
<1>4. ASSUME NEW b \in net, Lose(b)
      PROVE  through \in answers[d]
  BY <1>4 DEF Lose
<1>5. CASE UNCHANGED vars
  BY <1>5 DEF vars
<1>6. QED
  BY <1>1, <1>2, <1>3, <1>4, <1>5 DEF Next

LEMMA BundleOrigins ==
  ASSUME [Next]_vars, NEW b \in net', b \notin net
  PROVE  \E d \in Device : \E from \in RequestedFrom(d) : Export(d, from)
<1>1. ASSUME NEW e \in Device, Local(e)
      PROVE  FALSE
  BY <1>1 DEF Local, Capture, Forget, FlagDivergence, AcknowledgeDivergence, BumpEpoch,
              ResetReplica
<1>2. ASSUME NEW e \in Device, Sync(e)
      PROVE  \E from \in RequestedFrom(e) : Export(e, from)
  BY <1>2 DEF Sync, Import, ImportStale, AcknowledgePromotions
<1>3. ASSUME NEW c \in net, Lose(c)
      PROVE  FALSE
  BY <1>3 DEF Lose
<1>4. ~UNCHANGED vars
  BY DEF vars
<1>5. QED
  BY <1>1, <1>2, <1>3, <1>4 DEF Next

\* An exported bundle starts at an allocated position, ends at one, and has
\* every row between the two.
LEMMA ExportsComplete ==
  ASSUME TypeOK, AllocatedOnly, NEW d \in Device, NEW from \in RequestedFrom(d),
         NEW b \in Exports(d, from)
  PROVE  /\ b.source = d
         /\ AtMost(b.from, head[d])
         /\ AtMost(b.through, head[d])
         /\ \A row \in changes[d] :
              Before(b.from, row.cursor) /\ AtMost(row.cursor, b.through) => Carries(b, row)
<1>1. PICK through \in {from} \cup {row.cursor : row \in Chunk(d, from)} :
        /\ b.source = d
        /\ b.from = from
        /\ b.through = through
        /\ b.changes = {Wire(d, row) : row \in Chunk(d, from)}
  BY ExportsParts
<1>2. from \in Cursor /\ head[d] \in Cursor /\ changes[d] \subseteq Change
  BY RequestedType DEF TypeOK
<1>3. AtMost(from, head[d])
  <2>1. AtMost(Start, head[d])
    BY <1>2, StartIsFirst
  <2>2. QED
    BY <2>1 DEF RequestedFrom, AllocatedOnly
<1>4. AtMost(through, head[d])
  BY <1>1, <1>3 DEF AllocatedOnly, Chunk
<1>5. ASSUME NEW row \in changes[d], Before(from, row.cursor), AtMost(row.cursor, through)
      PROVE  Carries(b, row)
  <2>1. PICK last \in Chunk(d, from) : through = last.cursor
    <3>1. row.cursor \in Cursor
      BY <1>2 DEF Change
    <3>2. through # from
      BY <1>2, <1>5, <3>1, CursorsCompare
    <3>3. QED
      BY <1>1, <3>2
  <2>2. row.cursor.epoch <= last.cursor.epoch
    <3>1. row.cursor \in Cursor /\ last.cursor \in Cursor
      BY <1>2, <2>1 DEF Change, Chunk
    <3>2. row.cursor.epoch \in Nat /\ last.cursor.epoch \in Nat
      BY <3>1 DEF Cursor
    <3>3. QED
      BY <1>5, <2>1, <3>2 DEF AtMost, Before
  <2>3. row \in Chunk(d, from)
    <3>1. \A other \in changes[d] : other.cursor.epoch \in Nat
      BY <1>2 DEF Change, Cursor
    <3>2. \A other \in changes[d] :
            Before(from, other.cursor) => last.cursor.epoch <= other.cursor.epoch
      BY <2>1 DEF Chunk
    <3>3. last \in changes[d]
      BY <2>1 DEF Chunk
    <3>4. QED
      BY <1>5, <2>2, <3>1, <3>2, <3>3 DEF Chunk
  <2>4. Wire(d, row) \in b.changes
    BY <1>1, <2>3
  <2>5. QED
    BY <2>4 DEF Carries, Wire
<1>6. QED
  BY <1>1, <1>3, <1>4, <1>5

LEMMA ExportedBundle ==
  ASSUME TypeOK, AllocatedOnly, NEW d \in Device, NEW from \in RequestedFrom(d),
         Export(d, from), NEW b \in net', b \notin net
  PROVE  /\ b.source = d
         /\ AtMost(b.from, head[d])
         /\ AtMost(b.through, head[d])
         /\ \A row \in changes[d] :
              Before(b.from, row.cursor) /\ AtMost(row.cursor, b.through) => Carries(b, row)
<1>1. b \in Exports(d, from)
  BY DEF Export
<1>2. QED
  BY <1>1, ExportsComplete

LEMMA AllocatedStep ==
  ASSUME TypeOK, TypeOK', AllocatedOnly, [Next]_vars
  PROVE  AllocatedOnly'
<1> SUFFICES ASSUME NEW d \in Device
             PROVE  /\ \A row \in changes'[d] :
                         AtMost(row.cursor, head'[d]) /\ row.cursor.sequence > 0
                    /\ AtMost(cursor'[Peer(d)], head'[d])
                    /\ \A through \in answers'[d] : AtMost(through, head'[d])
                    /\ \A b \in net' :
                         b.source = d => AtMost(b.from, head'[d]) /\ AtMost(b.through, head'[d])
  BY DEF AllocatedOnly
<1>1. head[d] \in Cursor /\ head'[d] \in Cursor /\ AtMost(head[d], head'[d])
  BY StreamsAppend DEF TypeOK, Appends
<1>2. ASSUME NEW c \in Cursor, AtMost(c, head[d])
      PROVE  AtMost(c, head'[d])
  BY <1>1, <1>2, AtMostTransitive
<1>3. ASSUME NEW row \in changes'[d]
      PROVE  AtMost(row.cursor, head'[d]) /\ row.cursor.sequence > 0
  <2>1. row.cursor \in Cursor
    BY DEF TypeOK, Change
  <2>2. CASE row \in changes[d]
    BY <1>2, <2>1, <2>2 DEF AllocatedOnly
  <2>3. CASE row \notin changes[d]
    BY <2>3, StreamsAppend DEF Appends
  <2>4. QED
    BY <2>2, <2>3
<1>4. AtMost(cursor'[Peer(d)], head'[d])
  <2>1. Peer(d) \in Device /\ Peer(Peer(d)) = d
    BY PeerOf, PeerOfPeer
  <2>2. cursor'[Peer(d)] \in Cursor /\ cursor[Peer(d)] \in Cursor
    BY <2>1 DEF TypeOK
  <2>3. AtMost(cursor'[Peer(d)], head[d])
    <3>1. CASE cursor'[Peer(d)] = cursor[Peer(d)]
      BY <3>1 DEF AllocatedOnly
    <3>2. CASE ResetReplica(Peer(d))
      <4>1. cursor'[Peer(d)] = [cursor[Peer(d)] EXCEPT !.sequence = 0]
        BY <2>1, <3>2 DEF ResetReplica, ReenrolledCursor, TypeOK
      <4>2. AtMost(cursor'[Peer(d)], cursor[Peer(d)])
        <5>1. /\ cursor[Peer(d)].epoch \in Nat /\ cursor[Peer(d)].sequence \in Nat
              /\ cursor'[Peer(d)].epoch = cursor[Peer(d)].epoch
              /\ cursor'[Peer(d)].sequence = 0
          BY <2>2, <4>1 DEF Cursor
        <5>2. ~Before(cursor[Peer(d)], cursor'[Peer(d)])
          BY <5>1 DEF Before
        <5>3. QED
          BY <2>2, <5>2, CursorsCompare
      <4>3. QED
        BY <1>1, <2>2, <4>2, AtMostTransitive DEF AllocatedOnly
    <3>3. ASSUME NEW b \in net, Import(Peer(d), b)
          PROVE  AtMost(cursor'[Peer(d)], head[d])
      <4>1. b.source = d /\ cursor'[Peer(d)] = b.through
        BY <2>1, <3>3 DEF Import, TypeOK
      <4>2. QED
        BY <4>1 DEF AllocatedOnly
    <3>4. QED
      BY <2>1, <3>1, <3>2, <3>3, CursorOrigins
  <2>4. QED
    BY <1>2, <2>2, <2>3
<1>5. ASSUME NEW through \in answers'[d]
      PROVE  AtMost(through, head'[d])
  <2>1. through \in Cursor
    BY DEF TypeOK
  <2>2. AtMost(through, head[d])
    BY AnswerOrigins DEF AllocatedOnly
  <2>3. QED
    BY <1>2, <2>1, <2>2
<1>6. ASSUME NEW b \in net', b.source = d
      PROVE  AtMost(b.from, head'[d]) /\ AtMost(b.through, head'[d])
  <2>1. b.from \in Cursor /\ b.through \in Cursor
    BY DEF TypeOK, Bundle
  <2>2. AtMost(b.from, head[d]) /\ AtMost(b.through, head[d])
    <3>1. CASE b \in net
      BY <1>6, <3>1 DEF AllocatedOnly
    <3>2. CASE b \notin net
      BY <1>6, <3>2, BundleOrigins, ExportedBundle
    <3>3. QED
      BY <3>1, <3>2
  <2>3. QED
    BY <1>2, <2>1, <2>2
<1>7. QED
  BY <1>3, <1>4, <1>5, <1>6

LEMMA BundlesStep ==
  ASSUME TypeOK, TypeOK', AllocatedOnly, BundlesComplete, [Next]_vars
  PROVE  BundlesComplete'
<1> SUFFICES ASSUME NEW b \in net', NEW row \in changes'[b.source],
                    Before(b.from, row.cursor), AtMost(row.cursor, b.through)
             PROVE  Carries(b, row)
  BY DEF BundlesComplete, Carries
<1>1. /\ b.source \in Device /\ b.through \in Cursor
      /\ row.cursor \in Cursor /\ head[b.source] \in Cursor
  BY DEF TypeOK, Bundle, Change
<1>2. AtMost(b.through, head[b.source])
  <2>1. CASE b \in net
    BY <1>1, <2>1 DEF AllocatedOnly
  <2>2. CASE b \notin net
    BY <2>2, BundleOrigins, ExportedBundle
  <2>3. QED
    BY <2>1, <2>2
<1>3. row \in changes[b.source]
  <2>1. AtMost(row.cursor, head[b.source])
    BY <1>1, <1>2, AtMostTransitive
  <2>2. ~Before(head[b.source], row.cursor)
    BY <1>1, <2>1, CursorsCompare
  <2>3. QED
    BY <1>1, <2>2, StreamsAppend DEF Appends
<1>4. CASE b \in net
  BY <1>3, <1>4 DEF BundlesComplete
<1>5. CASE b \notin net
  BY <1>3, <1>5, BundleOrigins, ExportedBundle
<1>6. QED
  BY <1>4, <1>5

---------------------------------------------------------------------------
(* Records.                                                                *)

\* Only a reset of its own replica takes a record or a tombstone from a store.
LEMMA RecordsKept ==
  ASSUME TypeOK, [Next]_vars, NEW d \in Device, ~ResetReplica(d)
  PROVE  known[d] \subseteq known'[d] /\ tombstoned[d] \subseteq tombstoned'[d]
<1>1. ASSUME NEW e \in Device, Local(e)
      PROVE  known[d] \subseteq known'[d] /\ tombstoned[d] \subseteq tombstoned'[d]
  <2>1. ASSUME NEW o \in Offered[e], NEW r \in Record, NEW ts \in SUBSET Tag,
               Capture(e, o, r, ts)
        PROVE  known[d] \subseteq known'[d] /\ tombstoned[d] \subseteq tombstoned'[d]
    BY <2>1 DEF Capture, TypeOK
  <2>2. ASSUME NEW r \in Record, Forget(e, r)
        PROVE  known[d] \subseteq known'[d] /\ tombstoned[d] \subseteq tombstoned'[d]
    BY <2>2 DEF Forget, TypeOK
  <2>3. CASE ResetReplica(e)
    BY <2>3 DEF ResetReplica, TypeOK
  <2>4. ASSUME BumpEpoch(e) \/ \E p \in Pair : \/ FlagDivergence(e, p)
                                                \/ AcknowledgeDivergence(e, p)
        PROVE  UNCHANGED recordVars
    BY <2>4 DEF BumpEpoch, FlagDivergence, AcknowledgeDivergence
  <2>5. QED
    BY <1>1, <2>1, <2>2, <2>3, <2>4 DEF Local, recordVars
<1>2. ASSUME NEW e \in Device, Sync(e)
      PROVE  known[d] \subseteq known'[d] /\ tombstoned[d] \subseteq tombstoned'[d]
  <2>1. ASSUME NEW b \in net, Import(e, b)
        PROVE  known[d] \subseteq known'[d] /\ tombstoned[d] \subseteq tombstoned'[d]
    BY <2>1 DEF Import, TypeOK
  <2>2. CASE UNCHANGED recordVars
    BY <2>2 DEF recordVars
  <2>3. QED
    BY <1>2, <2>1, <2>2 DEF Sync, Export, ImportStale, AcknowledgePromotions
<1>3. ASSUME NEW b \in net, Lose(b)
      PROVE  known[d] \subseteq known'[d] /\ tombstoned[d] \subseteq tombstoned'[d]
  BY <1>3 DEF Lose, recordVars
<1>4. CASE UNCHANGED vars
  BY <1>4 DEF vars, recordVars
<1>5. QED
  BY <1>1, <1>2, <1>3, <1>4 DEF Next

(* What a store holds for a row of a stream.                               *)
Holds(d, row) ==
  /\ row.record \in known[d]
  /\ row.operation = "tombstone" => row.record \in tombstoned[d]

\* The foreign key of captures: no capture outlives its record.
CapturesKnown == \A d \in Device : CapturedRecords(d) \subseteq known[d]

(* New captures and new rows name records that are here.                   *)
LEMMA NewRowsHeld ==
  ASSUME TypeOK, CapturesKnown, [Next]_vars, NEW d \in Device
  PROVE  /\ \A c \in captures'[d] \ captures[d] : c[2] \in known'[d]
         /\ \A row \in changes'[d] \ changes[d] : Holds(d, row)'
<1>1. ASSUME NEW o \in Offered[d], NEW r \in Record, NEW ts \in SUBSET Tag,
             Capture(d, o, r, ts)
      PROVE  /\ \A c \in captures'[d] \ captures[d] : c[2] \in known'[d]
             /\ \A row \in changes'[d] \ changes[d] : Holds(d, row)'
  <2>1. r \in known'[d] /\ captures'[d] = captures[d] \cup {<<o, r>>}
    BY <1>1 DEF Capture, TypeOK
  <2>2. \A row \in changes'[d] \ changes[d] : row.record = r /\ row.operation = "upsert"
    BY <1>1 DEF Capture, Promote, streamVars, TypeOK
  <2>3. QED
    BY <2>1, <2>2 DEF Holds
<1>2. ASSUME NEW r \in Record, Forget(d, r)
      PROVE  /\ \A c \in captures'[d] \ captures[d] : c[2] \in known'[d]
             /\ \A row \in changes'[d] \ changes[d] : Holds(d, row)'
  <2>1. /\ r \in known'[d] /\ r \in tombstoned'[d]
        /\ captures' = captures
    BY <1>2 DEF Forget, TypeOK
  <2>2. \A row \in changes'[d] \ changes[d] : row.record = r
    BY <1>2 DEF Forget, Promote, TypeOK
  <2>3. QED
    BY <2>1, <2>2 DEF Holds
<1>3. CASE BumpEpoch(d)
  <2>1. head[d].epoch + 1 \in Nat /\ captures[d] \subseteq Origin \X Record
    BY DEF TypeOK, Cursor
  <2>2. /\ UNCHANGED <<known, tombstoned, captures>>
        /\ changes'[d] = changes[d] \cup Snapshot(d, head[d].epoch + 1)
    BY <1>3 DEF BumpEpoch, TypeOK, recordVars
  <2>3. \A row \in Snapshot(d, head[d].epoch + 1) :
          /\ row.record \in CapturedRecords(d)
          /\ row.operation = "tombstone" => row.record \in tombstoned[d]
    BY <2>1, SnapshotRows
  <2>4. QED
    BY <2>2, <2>3 DEF Holds, CapturesKnown
<1>4. CASE captures'[d] = captures[d] /\ changes'[d] = changes[d]
  BY <1>4
<1>5. ASSUME NEW e \in Device, Local(e)
      PROVE  \/ captures'[d] = captures[d] /\ changes'[d] = changes[d]
             \/ e = d /\ ~(UNCHANGED <<captures, changes>>)
  <2> DEFINE Elsewhere == captures'[d] = captures[d] /\ changes'[d] = changes[d]
  <2>1. ASSUME NEW o \in Offered[e], NEW r \in Record, NEW ts \in SUBSET Tag, e # d,
               Capture(e, o, r, ts)
        PROVE  Elsewhere
    BY <2>1 DEF Capture, Promote, streamVars, TypeOK
  <2>2. ASSUME NEW r \in Record, e # d, Forget(e, r)
        PROVE  Elsewhere
    BY <2>2 DEF Forget, Promote, TypeOK
  <2>3. ASSUME NEW p \in Pair, FlagDivergence(e, p) \/ AcknowledgeDivergence(e, p)
        PROVE  Elsewhere
    BY <2>3 DEF FlagDivergence, AcknowledgeDivergence, recordVars, streamVars
  <2>4. ASSUME e # d, BumpEpoch(e)
        PROVE  Elsewhere
    BY <2>4 DEF BumpEpoch, recordVars, TypeOK
  <2>5. ASSUME ResetReplica(e)
        PROVE  Elsewhere
    BY <2>5 DEF ResetReplica, streamVars
  <2>6. CASE UNCHANGED <<captures, changes>>
    BY <2>6
  <2>7. QED
    BY <1>5, <2>1, <2>2, <2>3, <2>4, <2>5, <2>6 DEF Local
<1>6. ASSUME Local(d), ~(UNCHANGED <<captures, changes>>)
      PROVE  \/ \E o \in Offered[d], r \in Record, ts \in SUBSET Tag :
                  Capture(d, o, r, ts)
             \/ \E r \in Record : Forget(d, r)
             \/ BumpEpoch(d)
  BY <1>6 DEF Local, FlagDivergence, AcknowledgeDivergence, ResetReplica, recordVars,
              streamVars
<1>7. ASSUME NEW e \in Device, Sync(e)
      PROVE  UNCHANGED <<captures, changes>>
  BY <1>7 DEF Sync, Export, Import, ImportStale, AcknowledgePromotions, recordVars,
              streamVars
<1>8. ASSUME (\E b \in net : Lose(b)) \/ UNCHANGED vars
      PROVE  UNCHANGED <<captures, changes>>
  BY <1>8 DEF Lose, vars, recordVars, streamVars
<1>9. QED
  BY <1>1, <1>2, <1>3, <1>4, <1>5, <1>6, <1>7, <1>8 DEF Next

LEMMA RowsStep ==
  ASSUME TypeOK, RowsExportable, CapturesKnown, [Next]_vars
  PROVE  RowsExportable' /\ CapturesKnown'
<1> SUFFICES ASSUME NEW d \in Device
             PROVE  /\ \A c \in captures'[d] : c[2] \in known'[d]
                    /\ \A row \in changes'[d] : Holds(d, row)'
  BY DEF RowsExportable, CapturesKnown, CapturedRecords, Holds
<1>1. CASE ResetReplica(d)
  <2> DEFINE gone == ReplicaOnly(d)
  <2>1. /\ UNCHANGED <<captures, changes>>
        /\ known'[d] = known[d] \ gone
        /\ tombstoned'[d] = tombstoned[d] \ gone
        /\ \A r \in gone : Deletable(d, r)
    BY <1>1 DEF ResetReplica, streamVars, TypeOK
  <2>2. ASSUME NEW c \in captures[d]
        PROVE  c[2] \in known[d] \ gone
    BY <2>2 DEF CapturesKnown, CapturedRecords, ReplicaOnly
  <2>3. ASSUME NEW row \in changes[d]
        PROVE  row.record \notin gone
    BY <2>1, <2>3 DEF Deletable
  <2>4. QED
    BY <2>1, <2>2, <2>3 DEF RowsExportable, Holds
<1>2. CASE ~ResetReplica(d)
  <2>1. known[d] \subseteq known'[d] /\ tombstoned[d] \subseteq tombstoned'[d]
    BY <1>2, RecordsKept
  <2>2. \A c \in captures[d] : c[2] \in known'[d]
    BY <2>1 DEF CapturesKnown, CapturedRecords
  <2>3. \A row \in changes[d] : Holds(d, row)'
    BY <2>1 DEF RowsExportable, Holds
  <2>4. QED
    BY <2>2, <2>3, NewRowsHeld
<1>3. QED
  BY <1>1, <1>2

\* Whatever is captured, forgotten, imported, bumped or reset, every row of a
\* promotion stream can be exported as a payload the importer validates
\* (lib.rs reset_replica_for_reenrollment against sync.rs export_promotions).
THEOREM StreamsExportable == Spec => []RowsExportable
<1>1. Init => RowsExportable /\ CapturesKnown
  BY DEF Init, RowsExportable, CapturesKnown, CapturedRecords
<1>2. TypeOK /\ RowsExportable /\ CapturesKnown /\ [Next]_vars
        => (RowsExportable /\ CapturesKnown)'
  BY RowsStep
<1>3. QED
  BY TypeCorrect, <1>1, <1>2, PTL DEF Spec

---------------------------------------------------------------------------
(* The replica.                                                            *)

\* What ReplicaCoversCursor says of one row of the peer's stream.
Covers(d, row) ==
  (/\ AtMost(row.cursor, cursor[d])
   /\ row.cursor.epoch = cursor[d].epoch \/ resets[d] = 0)
    => Holds(d, row)

\* An accepted bundle brings the rows between the old cursor and the new one.
LEMMA ImportCovers ==
  ASSUME TypeOK, TypeOK', BundlesComplete, ReplicaCoversCursor,
         NEW d \in Device, NEW b \in net, Import(d, b), NEW row \in changes[Peer(d)]
  PROVE  Covers(d, row)'
<1>1. /\ b.source = Peer(d)
      /\ b.from \in Cursor /\ b.through \in Cursor /\ b.changes \subseteq WireChange
      /\ cursor[d] \in Cursor /\ cursor'[d] = b.through
      /\ row.cursor \in Cursor
      /\ UNCHANGED resets
  BY PeerOf DEF Import, TypeOK, Bundle, Change
<1>2. known[d] \subseteq known'[d] /\ tombstoned[d] \subseteq tombstoned'[d]
  BY DEF Import, TypeOK
<1>3. CASE b.through = cursor[d]
  BY <1>1, <1>2, <1>3 DEF ReplicaCoversCursor, Covers, Holds
<1>4. CASE b.through # cursor[d]
  <2>1. Advances(d, b) /\ b.from = cursor[d]
    BY <1>4 DEF Import, Acceptable
  <2>2. CASE AtMost(row.cursor, b.from) /\ AtMost(row.cursor, b.through)
    <3>1. /\ row.cursor.epoch \in Nat
          /\ cursor[d].epoch \in Nat
          /\ b.through.epoch \in Nat
      BY <1>1 DEF Cursor
    <3>2. row.cursor.epoch = b.through.epoch => row.cursor.epoch = cursor[d].epoch
      BY <2>1, <2>2, <3>1 DEF Advances, AtMost, Before
    <3>3. QED
      BY <1>1, <1>2, <2>1, <2>2, <3>2 DEF ReplicaCoversCursor, Covers, Holds
  <2>3. CASE Before(b.from, row.cursor) /\ AtMost(row.cursor, b.through)
    <3>1. PICK c \in b.changes : c.operation = row.operation /\ c.record = row.record
      BY <1>1, <2>3 DEF BundlesComplete, Carries
    <3>2. c.operation = "tombstone" => c.tombstoned
      BY <3>1 DEF Import, ValidPayload
    <3>3. c \in Merged(d, b)
      BY <2>1, <3>1 DEF Merged
    <3>4. /\ c.record \in known'[d]
          /\ c.tombstoned => c.record \in tombstoned'[d]
      BY <3>3 DEF Import, MergedRecords, MergedTombstones, TypeOK
    <3>5. QED
      BY <3>1, <3>2, <3>4 DEF Covers, Holds
  <2>4. CASE ~AtMost(row.cursor, b.through)
    BY <1>1, <2>4 DEF Covers
  <2>5. QED
    BY <1>1, <2>2, <2>3, <2>4, CursorsCompare
<1>5. QED
  BY <1>3, <1>4

LEMMA ReplicaStep ==
  ASSUME TypeOK, TypeOK', AllocatedOnly, AllocatedOnly', BundlesComplete,
         ReplicaCoversCursor, [Next]_vars
  PROVE  ReplicaCoversCursor'
<1> SUFFICES ASSUME NEW d \in Device, NEW row \in changes'[Peer(d)]
             PROVE  Covers(d, row)'
  BY DEF ReplicaCoversCursor, Covers, Holds
<1>1. /\ Peer(d) \in Device /\ Peer(Peer(d)) = d
      /\ row.cursor \in Cursor /\ row.cursor.sequence > 0
      /\ cursor[d] \in Cursor /\ cursor'[d] \in Cursor /\ resets'[d] \in Nat
      /\ resets[d] \in Nat /\ head[Peer(d)] \in Cursor
  BY PeerOf, PeerOfPeer DEF TypeOK, Change, AllocatedOnly
<1>2. CASE ResetReplica(d)
  <2>1. cursor'[d].sequence = 0 /\ resets'[d] # 0
    BY <1>1, <1>2 DEF ResetReplica, ReenrolledCursor, TypeOK, Cursor
  <2>2. ~(AtMost(row.cursor, cursor'[d]) /\ row.cursor.epoch = cursor'[d].epoch)
    BY <1>1, <2>1 DEF AtMost, Before, Cursor
  <2>3. QED
    BY <2>1, <2>2 DEF Covers
<1>3. CASE row \notin changes[Peer(d)] /\ ~ResetReplica(d)
  <2>1. Before(head[Peer(d)], row.cursor)
    BY <1>1, <1>3, StreamsAppend DEF Appends
  <2>2. AtMost(cursor'[d], head[Peer(d)])
    <3>1. ASSUME NEW b \in net, Import(d, b)
          PROVE  AtMost(cursor'[d], head[Peer(d)])
      BY <1>1, <3>1 DEF Import, TypeOK, AllocatedOnly
    <3>2. QED
      BY <1>1, <1>3, <3>1, CursorOrigins DEF AllocatedOnly
  <2>3. ~AtMost(row.cursor, cursor'[d])
    BY <1>1, <2>1, <2>2, AtMostTransitive, CursorsCompare
  <2>4. QED
    BY <2>3 DEF Covers
<1>4. CASE row \in changes[Peer(d)] /\ ~ResetReplica(d)
  <2>1. CASE cursor'[d] = cursor[d] /\ resets'[d] = resets[d]
    BY <1>4, <2>1, RecordsKept DEF ReplicaCoversCursor, Covers, Holds
  <2>2. QED
    BY <1>4, <2>1, CursorOrigins, ImportCovers
<1>5. QED
  BY <1>2, <1>3, <1>4

(* The positions and the replica belong to one inductive invariant.        *)
ReplicaInv == AllocatedOnly /\ BundlesComplete /\ ReplicaCoversCursor

LEMMA ReplicaInvariant == Spec => []ReplicaInv
<1>1. Init => ReplicaInv
  <2> SUFFICES ASSUME Init
               PROVE  ReplicaInv
    OBVIOUS
  <2>1. \A d \in Device : head[d] \in Cursor /\ cursor[Peer(d)] = Start
    BY PeerOf DEF Init, Cursor
  <2>2. AllocatedOnly
    BY <2>1, StartIsFirst DEF Init, AllocatedOnly
  <2>3. BundlesComplete
    BY DEF Init, BundlesComplete
  <2>4. ReplicaCoversCursor
    BY PeerOf DEF Init, ReplicaCoversCursor
  <2>5. QED
    BY <2>2, <2>3, <2>4 DEF ReplicaInv
<1>2. TypeOK /\ TypeOK' /\ ReplicaInv /\ [Next]_vars => ReplicaInv'
  BY AllocatedStep, BundlesStep, ReplicaStep DEF ReplicaInv
<1>3. QED
  BY TypeCorrect, <1>1, <1>2, PTL DEF Spec

\* However bundles are lost, repeated, delayed or reordered, the cursor a
\* store reports never claims a row of its peer's stream whose record or
\* tombstone it lacks (sync.rs import_verified_bundle).
THEOREM ReplicaCovers == Spec => []ReplicaCoversCursor
<1>1. ReplicaInv => ReplicaCoversCursor
  BY DEF ReplicaInv
<1>2. QED
  BY ReplicaInvariant, <1>1, PTL

---------------------------------------------------------------------------
(* The outbox.                                                             *)

\* A store that was never reset still covers every cursor it has answered.
AnswersCovered ==
  \A d \in Device : resets[Peer(d)] = 0 =>
    \A through \in answers[d] : AtMost(through, cursor[Peer(d)])

LEMMA ImportAdvances ==
  ASSUME TypeOK, NEW d \in Device, NEW b \in net, Import(d, b)
  PROVE  cursor'[d] = b.through /\ AtMost(cursor[d], cursor'[d])
<1>1. cursor'[d] = b.through
  BY DEF Import, TypeOK
<1>2. QED
  BY <1>1 DEF Import, Acceptable, Advances, AtMost

LEMMA CursorAdvances ==
  ASSUME TypeOK, TypeOK', [Next]_vars, NEW d \in Device, resets'[d] = 0
  PROVE  resets[d] = 0 /\ AtMost(cursor[d], cursor'[d])
<1>1. ~ResetReplica(d)
  BY DEF ResetReplica, TypeOK
<1>2. CASE cursor'[d] = cursor[d] /\ resets'[d] = resets[d]
  BY <1>2 DEF AtMost
<1>3. ASSUME NEW b \in net, Import(d, b)
      PROVE  resets[d] = 0 /\ AtMost(cursor[d], cursor'[d])
  <2>1. resets' = resets
    BY <1>3 DEF Import
  <2>2. QED
    BY <1>3, <2>1, ImportAdvances
<1>4. QED
  BY <1>1, <1>2, <1>3, CursorOrigins

\* A row leaves the pending rows only for an answer that reaches it.
LEMMA PendingOrAnswered ==
  ASSUME TypeOK, [Next]_vars, NEW d \in Device, NEW row \in pending[d] \ pending'[d]
  PROVE  \E through \in answers[d] : AtMost(row.cursor, through)
<1>1. ASSUME NEW e \in Device, Local(e)
      PROVE  row \in pending'[d]
  <2>1. ASSUME NEW r \in Record, NEW operation \in {"upsert", "tombstone"},
               Promote(e, operation, r)
        PROVE  row \in pending'[d]
    BY <2>1 DEF Promote, TypeOK
  <2>2. CASE UNCHANGED streamVars
    BY <2>2 DEF streamVars
  <2>3. CASE BumpEpoch(e)
    BY <2>3 DEF BumpEpoch, TypeOK
  <2>4. QED
    BY <1>1, <2>1, <2>2, <2>3 DEF Local, Capture, Forget, FlagDivergence,
                                  AcknowledgeDivergence, ResetReplica
<1>2. ASSUME NEW e \in Device, NEW through \in answers[e],
             AcknowledgePromotions(e, through)
      PROVE  \E t \in answers[d] : AtMost(row.cursor, t)
  BY <1>2 DEF AcknowledgePromotions, TypeOK
<1>3. ASSUME NEW e \in Device, Sync(e), UNCHANGED pending
      PROVE  FALSE
  BY <1>3
<1>4. ASSUME NEW e \in Device, Sync(e)
      PROVE  \/ UNCHANGED pending
             \/ \E through \in answers[e] : AcknowledgePromotions(e, through)
  BY <1>4 DEF Sync, Export, Import, ImportStale, streamVars
<1>5. ASSUME (\E b \in net : Lose(b)) \/ UNCHANGED vars
      PROVE  UNCHANGED pending
  BY <1>5 DEF Lose, vars, streamVars
<1>6. QED
  BY <1>1, <1>2, <1>3, <1>4, <1>5 DEF Next

LEMMA AnswersStep ==
  ASSUME TypeOK, TypeOK', AnswersCovered, [Next]_vars
  PROVE  AnswersCovered'
<1> SUFFICES ASSUME NEW d \in Device, resets'[Peer(d)] = 0, NEW through \in answers'[d]
             PROVE  AtMost(through, cursor'[Peer(d)])
  BY DEF AnswersCovered
<1>1. /\ Peer(d) \in Device
      /\ cursor[Peer(d)] \in Cursor /\ cursor'[Peer(d)] \in Cursor
      /\ through \in Cursor
  BY PeerOf DEF TypeOK
<1>2. resets[Peer(d)] = 0 /\ AtMost(cursor[Peer(d)], cursor'[Peer(d)])
  BY <1>1, CursorAdvances
<1>3. CASE through \in answers[d]
  BY <1>1, <1>2, <1>3, AtMostTransitive DEF AnswersCovered
<1>4. ASSUME NEW b \in net, Import(Peer(d), b), through = b.through
      PROVE  AtMost(through, cursor'[Peer(d)])
  BY <1>1, <1>4, ImportAdvances DEF AtMost
<1>5. ASSUME NEW b \in net, ImportStale(Peer(d), b), through = b.through
      PROVE  AtMost(through, cursor'[Peer(d)])
  <2>1. AtMost(through, cursor[Peer(d)])
    BY <1>5 DEF ImportStale, AtMost
  <2>2. QED
    BY <1>1, <1>2, <2>1, AtMostTransitive
<1>6. QED
  BY <1>3, <1>4, <1>5, AnswerOrigins

LEMMA PromotedStep ==
  ASSUME TypeOK, TypeOK', AnswersCovered, PromotedIsReplicated, [Next]_vars
  PROVE  PromotedIsReplicated'
<1> SUFFICES ASSUME NEW d \in Device, resets'[Peer(d)] = 0,
                    NEW row \in changes'[d] \ pending'[d]
             PROVE  AtMost(row.cursor, cursor'[Peer(d)])
  BY DEF PromotedIsReplicated
<1>1. /\ Peer(d) \in Device
      /\ cursor[Peer(d)] \in Cursor /\ cursor'[Peer(d)] \in Cursor
      /\ row.cursor \in Cursor
      /\ answers[d] \subseteq Cursor
  BY PeerOf DEF TypeOK, Change
<1>2. resets[Peer(d)] = 0 /\ AtMost(cursor[Peer(d)], cursor'[Peer(d)])
  BY <1>1, CursorAdvances
<1>3. row \in changes[d]
  BY StreamsAppend DEF Appends
<1>4. AtMost(row.cursor, cursor[Peer(d)])
  <2>1. CASE row \notin pending[d]
    BY <1>2, <1>3, <2>1 DEF PromotedIsReplicated
  <2>2. CASE row \in pending[d]
    <3>1. PICK through \in answers[d] : AtMost(row.cursor, through)
      BY <2>2, PendingOrAnswered
    <3>2. QED
      BY <1>1, <1>2, <3>1, AtMostTransitive DEF AnswersCovered
  <2>3. QED
    BY <2>1, <2>2
<1>5. QED
  BY <1>1, <1>2, <1>4, AtMostTransitive

\* No row is marked promoted that the peer has not committed, whatever is
\* answered late, twice or out of order (sync.rs acknowledge_promotions).
THEOREM PromotedReplicated == Spec => []PromotedIsReplicated
<1>1. Init => AnswersCovered /\ PromotedIsReplicated
  BY DEF Init, AnswersCovered, PromotedIsReplicated
<1>2. TypeOK /\ TypeOK' /\ AnswersCovered /\ PromotedIsReplicated /\ [Next]_vars
        => (AnswersCovered /\ PromotedIsReplicated)'
  BY AnswersStep, PromotedStep
<1>3. QED
  BY TypeCorrect, <1>1, <1>2, PTL DEF Spec

---------------------------------------------------------------------------
(* What no step undoes.                                                    *)

\* Forgetting is permanent: no capture, import or replay makes a tombstoned
\* record live again (lib.rs put and forget, sync.rs merge_record).
THEOREM TombstonesPermanent == Spec => TombstonesStick
<1>1. TypeOK /\ [Next]_vars
        => [\A d \in Device : \A r \in tombstoned[d] :
              r \in tombstoned'[d] \/ r \notin known'[d]]_vars
  <2> SUFFICES ASSUME TypeOK, [Next]_vars, NEW d \in Device, NEW r \in tombstoned[d]
               PROVE  r \in tombstoned'[d] \/ r \notin known'[d]
    OBVIOUS
  <2>1. CASE ResetReplica(d)
    BY <2>1 DEF ResetReplica, TypeOK
  <2>2. CASE ~ResetReplica(d)
    BY <2>2, RecordsKept
  <2>3. QED
    BY <2>1, <2>2
<1>2. QED
  BY TypeCorrect, <1>1, PTL DEF Spec, TombstonesStick

\* An acknowledged divergence stays acknowledged, whatever status a bundle
\* carries for the pair; only a reset may drop its row (sync.rs
\* merge_divergence).
THEOREM AcknowledgementsPermanent == Spec => AcknowledgementsStick
<1>1. TypeOK /\ [Next]_vars
        => [\A d \in Device : \A p \in acknowledged[d] :
              p \in acknowledged'[d] \/ resets'[d] # resets[d]]_vars
  <2> SUFFICES ASSUME TypeOK, [Next]_vars, NEW d \in Device, NEW p \in acknowledged[d],
                      resets'[d] = resets[d]
               PROVE  p \in acknowledged'[d]
    OBVIOUS
  <2>1. ASSUME NEW e \in Device, Local(e)
        PROVE  p \in acknowledged'[d]
    <3>1. CASE ResetReplica(e)
      <4>1. e # d
        BY <3>1 DEF ResetReplica, TypeOK
      <4>2. QED
        BY <3>1, <4>1 DEF ResetReplica, TypeOK
    <3>2. ASSUME NEW q \in Pair, AcknowledgeDivergence(e, q)
          PROVE  p \in acknowledged'[d]
      BY <3>2 DEF AcknowledgeDivergence, TypeOK
    <3>3. QED
      BY <2>1, <3>1, <3>2 DEF Local, Capture, Forget, FlagDivergence, BumpEpoch,
                              divergenceVars
  <2>2. ASSUME NEW e \in Device, NEW b \in net, Import(e, b)
        PROVE  p \in acknowledged'[d]
    BY <2>2 DEF Import, MergedAcknowledged, TypeOK
  <2>3. ASSUME NEW e \in Device, Sync(e), ~ \E b \in net : Import(e, b)
        PROVE  acknowledged' = acknowledged
    BY <2>3 DEF Sync, Export, ImportStale, AcknowledgePromotions, divergenceVars
  <2>4. ASSUME (\E b \in net : Lose(b)) \/ UNCHANGED vars
        PROVE  acknowledged' = acknowledged
    BY <2>4 DEF Lose, vars, divergenceVars
  <2>5. QED
    BY <2>1, <2>2, <2>3, <2>4 DEF Next
<1>2. QED
  BY TypeCorrect, <1>1, PTL DEF Spec, AcknowledgementsStick
=============================================================================
