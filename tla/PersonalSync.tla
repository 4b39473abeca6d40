--------------------------- MODULE PersonalSync ---------------------------
(***************************************************************************)
(* Two personal stores (the GPD's personal.db and its peer) that promote   *)
(* their local captures to each other with SyncBundleV1.                   *)
(*                                                                         *)
(* Every store operation is one SQLite transaction, so it is one action    *)
(* here.  What interleaves is the operations of the two stores and of the  *)
(* local clients, and the bundles on the way between them: a bundle, once  *)
(* exported, may be delivered late, several times, out of order or never.  *)
(*                                                                         *)
(* The tables of a store become sets.  A digest is a member of Record, a   *)
(* finite set of integers, because the code compares digests, of fixed     *)
(* length, and sorts by them.                                              *)
(* The origin of a sighting, a device and an id, is whatever the caller of *)
(* a capture says: nothing keeps callers of both stores from using one     *)
(* origin.  createdAt, which merges by minimum exactly as tags merge by    *)
(* union, and the wording of records are left out.  An envelope that fails *)
(* verification changes nothing and is not an action.                      *)
(***************************************************************************)
EXTENDS SyncCursor, FiniteSets

CONSTANTS
  Device,         \* the two stores
  Record,         \* content digests, as integers
  Origin,         \* sighting origins, each a device and an id
  Offered,        \* those that the callers of each store give
  Tag,            \* tags
  MaxEpoch,       \* bound: epochs a store may open
  MaxSequence,    \* bound: promotion changes per epoch
  MaxResets,      \* bound: replica resets per store
  MaxInFlight,    \* bound: bundles on the way at the same time
  Flagging,       \* whether clients flag and acknowledge divergences
  EmptyBump       \* whether an operator may bump a store with no captures

ASSUME TwoDevices == \E a, b \in Device : a # b /\ Device = {a, b}
ASSUME OfferedAreOrigins == Offered \in [Device -> SUBSET Origin]
ASSUME RecordsAreDigests == Record \subseteq Int /\ IsFiniteSet(Record)
ASSUME BoundsAreNatural ==
  MaxEpoch \in Nat /\ MaxSequence \in Nat /\ MaxResets \in Nat /\ MaxInFlight \in Nat
ASSUME SwitchesAreBoolean == Flagging \in BOOLEAN /\ EmptyBump \in BOOLEAN

Peer(d) == CHOOSE e \in Device : e # d

VARIABLES
  \* canonical_records and the tables that refer to it, per store
  known,          \* digests with a canonical_records row
  tombstoned,     \* those with tombstoned = 1
  tagged,         \* record_tags: <<record, tag>>
  sightings,      \* sightings: <<origin, record>>
  captures,       \* captures: <<origin, record>>
  replicas,       \* replica_records
  \* the promotion stream, per store
  head,           \* promotion_state: the last cursor allocated
  changes,        \* promotion_changes rows
  pending,        \* promotion_outbox rows with status 'pending'
  \* the position in the peer's stream, per store
  cursor,         \* replica_cursor
  fingerprint,    \* transition_fingerprint of the last transition accepted
  \* personal_divergences, per store
  flagged,        \* pairs with a row
  acknowledged,   \* those with status 'acknowledged'
  \* between the stores
  net,            \* bundles exported and not lost
  answers,        \* cursors whose import a store has answered to its peer
  resets          \* how often a store's replica was reset

recordVars     == <<known, tombstoned, tagged, sightings, captures, replicas>>
streamVars     == <<head, changes, pending>>
replicaVars    == <<cursor, fingerprint>>
divergenceVars == <<flagged, acknowledged>>
vars == <<recordVars, streamVars, replicaVars, divergenceVars, net, answers, resets>>

---------------------------------------------------------------------------
(* A row of promotion_changes, and the same row with the record it carries *)
(* on the wire.                                                            *)
Change == [cursor : Cursor, operation : {"upsert", "tombstone"}, record : Record]
WireChange == [cursor : Cursor, operation : {"upsert", "tombstone"}, record : Record,
               tombstoned : BOOLEAN, tags : SUBSET Tag, origins : SUBSET Origin]

(* An unordered divergence pair is stored with its smaller digest first.   *)
Pair == {p \in Record \X Record : p[1] < p[2]}

Bundle == [source : Device, from : Cursor, through : Cursor,
           changes : SUBSET WireChange,
           flagged : SUBSET Pair, acknowledged : SUBSET Pair]

(* The fingerprint is a digest of everything in a bundle but generatedAt   *)
(* and the divergences, so it stands for exactly that data; NULL is the    *)
(* empty set of transitions.                                               *)
Transition == [from : Cursor, through : Cursor, changes : SUBSET WireChange]
Fingerprint(b) == [from |-> b.from, through |-> b.through, changes |-> b.changes]

CapturedRecords(d) == {c[2] : c \in captures[d]}
ReplicaOnly(d)     == replicas[d] \ CapturedRecords(d)

---------------------------------------------------------------------------
Init ==
  /\ known        = [d \in Device |-> {}]
  /\ tombstoned   = [d \in Device |-> {}]
  /\ tagged       = [d \in Device |-> {}]
  /\ sightings    = [d \in Device |-> {}]
  /\ captures     = [d \in Device |-> {}]
  /\ replicas     = [d \in Device |-> {}]
  /\ head         = [d \in Device |-> [epoch |-> 1, sequence |-> 0]]
  /\ changes      = [d \in Device |-> {}]
  /\ pending      = [d \in Device |-> {}]
  /\ cursor       = [d \in Device |-> Start]
  /\ fingerprint  = [d \in Device |-> {}]
  /\ flagged      = [d \in Device |-> {}]
  /\ acknowledged = [d \in Device |-> {}]
  /\ net          = {}
  /\ answers      = [d \in Device |-> {}]
  /\ resets       = [d \in Device |-> 0]

---------------------------------------------------------------------------
(* Local operations.                                                       *)

(* Allocate the next cursor and append the change and its outbox row.      *)
NextCursor(d) == [head[d] EXCEPT !.sequence = @ + 1]

Promote(d, operation, r) ==
  LET row == [cursor |-> NextCursor(d), operation |-> operation, record |-> r]
  IN  /\ head[d].sequence < MaxSequence
      /\ head'    = [head EXCEPT ![d] = NextCursor(d)]
      /\ changes' = [changes EXCEPT ![d] = @ \cup {row}]
      /\ pending' = [pending EXCEPT ![d] = @ \cup {row}]

(* Mutant: a new capture of forgotten content makes it live again.         *)
CaptureRevives(d, o, r, ts) ==
  /\ \A s \in sightings[d] : s[1] = o => s[2] = r
  /\ <<o, r>> \notin captures[d]
  /\ known'      = [known EXCEPT ![d] = @ \cup {r}]
  /\ tombstoned' = [tombstoned EXCEPT ![d] = @ \ {r}]
  /\ sightings'  = [sightings EXCEPT ![d] = @ \cup {<<o, r>>}]
  /\ captures'   = [captures EXCEPT ![d] = @ \cup {<<o, r>>}]
  /\ Promote(d, "upsert", r)
  /\ UNCHANGED <<tagged, replicas, replicaVars, divergenceVars, net, answers, resets>>

(* PersonalStore::capture.  An origin that already names another record is *)
(* refused.  A capture already made is a replay: it adds its tags and      *)
(* promotes nothing.  A capture never clears a tombstone.                  *)
Capture(d, o, r, ts) ==
  /\ \A s \in sightings[d] : s[1] = o => s[2] = r
  /\ known'     = [known EXCEPT ![d] = @ \cup {r}]
  /\ sightings' = [sightings EXCEPT ![d] = @ \cup {<<o, r>>}]
  /\ captures'  = [captures EXCEPT ![d] = @ \cup {<<o, r>>}]
  /\ tagged'    = [tagged EXCEPT ![d] = @ \cup ({r} \X ts)]
  /\ \/ /\ <<o, r>> \notin captures[d]
        /\ Promote(d, "upsert", r)
     \/ /\ <<o, r>> \in captures[d]
        /\ UNCHANGED streamVars
  /\ UNCHANGED <<tombstoned, replicas, replicaVars, divergenceVars, net, answers, resets>>

(* PersonalStore::forget.  Forgetting what is already forgotten does       *)
(* nothing.                                                                *)
Forget(d, r) ==
  /\ r \in known[d] \ tombstoned[d]
  /\ tombstoned' = [tombstoned EXCEPT ![d] = @ \cup {r}]
  /\ Promote(d, "tombstone", r)
  /\ UNCHANGED <<known, tagged, sightings, captures, replicas, replicaVars,
                 divergenceVars, net, answers, resets>>

(* PersonalStore::flag_divergence.  A pair flagged before keeps its row.   *)
FlagDivergence(d, p) ==
  /\ Flagging
  /\ {p[1], p[2]} \subseteq known[d]
  /\ p \notin flagged[d]
  /\ flagged' = [flagged EXCEPT ![d] = @ \cup {p}]
  /\ UNCHANGED <<recordVars, streamVars, replicaVars, acknowledged, net, answers, resets>>

(* PersonalStore::acknowledge_divergence.                                  *)
AcknowledgeDivergence(d, p) ==
  /\ p \in flagged[d] \ acknowledged[d]
  /\ acknowledged' = [acknowledged EXCEPT ![d] = @ \cup {p}]
  /\ UNCHANGED <<recordVars, streamVars, replicaVars, flagged, net, answers, resets>>

(* The snapshot of a bump: the captured records, in digest order, from     *)
(* sequence one.                                                           *)
Snapshot(d, epoch) ==
  LET S       == CapturedRecords(d)
      rank(r) == Cardinality({x \in S : x <= r})
  IN  {[cursor    |-> [epoch |-> epoch, sequence |-> rank(r)],
        operation |-> IF r \in tombstoned[d] THEN "tombstone" ELSE "upsert",
        record    |-> r] : r \in S}

(* PersonalStore::bump_promotion_epoch_and_snapshot.                       *)
BumpEpoch(d) ==
  LET epoch == head[d].epoch + 1
      size  == Cardinality(CapturedRecords(d))
  IN  /\ epoch <= MaxEpoch
      /\ size <= MaxSequence
      /\ EmptyBump \/ size > 0
      /\ head'    = [head EXCEPT ![d] = [epoch |-> epoch, sequence |-> size]]
      /\ changes' = [changes EXCEPT ![d] = @ \cup Snapshot(d, epoch)]
      /\ pending' = [pending EXCEPT ![d] = @ \cup Snapshot(d, epoch)]
      /\ UNCHANGED <<recordVars, replicaVars, divergenceVars, net, answers, resets>>

(* Mutant: foreign keys are not enforced.                                  *)
DeletableAlways(d, r) == TRUE

(* promotion_changes has a foreign key on canonical_records, so a record   *)
(* this store has promoted cannot be deleted.                              *)
Deletable(d, r) == \A row \in changes[d] : row.record # r

(* Mutant: the reset leaves the cursor where it is.                        *)
ReenrolledCursorKept(d) == cursor[d]

(* The next import starts the cursor's epoch over.                         *)
ReenrolledCursor(d) == [cursor[d] EXCEPT !.sequence = 0]

(* PersonalStore::reset_replica_for_reenrollment, called with the epoch of *)
(* the current cursor.  If one replica-only record cannot be deleted, the  *)
(* whole reset is refused.                                                 *)
ResetReplica(d) ==
  LET gone == ReplicaOnly(d)
  IN  /\ resets[d] < MaxResets
      /\ \A r \in gone : Deletable(d, r)
      /\ known'      = [known EXCEPT ![d] = @ \ gone]
      /\ tombstoned' = [tombstoned EXCEPT ![d] = @ \ gone]
      /\ tagged'     = [tagged EXCEPT ![d] = {t \in @ : t[1] \notin gone}]
      /\ sightings'  = [sightings EXCEPT ![d] = {s \in @ : s[2] \notin gone}]
      /\ replicas'   = [replicas EXCEPT ![d] = {}]
      /\ flagged' = [flagged EXCEPT ![d] = {p \in @ : {p[1], p[2]} \cap gone = {}}]
      /\ acknowledged' =
           [acknowledged EXCEPT ![d] = {p \in @ : {p[1], p[2]} \cap gone = {}}]
      /\ cursor'      = [cursor EXCEPT ![d] = ReenrolledCursor(d)]
      /\ fingerprint' = [fingerprint EXCEPT ![d] = {}]
      /\ resets'      = [resets EXCEPT ![d] = @ + 1]
      /\ UNCHANGED <<captures, streamVars, net, answers>>

---------------------------------------------------------------------------
(* Export.                                                                 *)

(* Mutant: the rows of every later epoch go into one bundle.               *)
ChunkAllEpochs(d, from) == {row \in changes[d] : Before(from, row.cursor)}

(* The rows after a cursor, up to the end of the first epoch among them.   *)
Chunk(d, from) ==
  LET rows == {row \in changes[d] : Before(from, row.cursor)}
  IN  {row \in rows : \A other \in rows : row.cursor.epoch <= other.cursor.epoch}

(* A row with its record as it is now, not as it was when the row was      *)
(* written.                                                                *)
Wire(d, row) ==
  [cursor     |-> row.cursor,
   operation  |-> row.operation,
   record     |-> row.record,
   tombstoned |-> row.record \in tombstoned[d],
   tags       |-> {t \in Tag : <<row.record, t>> \in tagged[d]},
   origins    |-> {o \in Origin : <<o, row.record>> \in sightings[d]}]

(* Mutants: the divergences travel with every bundle; only those not       *)
(* acknowledged travel.                                                    *)
ShippedPairsAlways(d, through, pairs) == pairs

ShippedPairsOpen(d, through, pairs) ==
  IF through = head[d] THEN pairs \ acknowledged[d] ELSE {}

(* The divergences travel only with a bundle that reaches the head.        *)
ShippedPairs(d, through, pairs) == IF through = head[d] THEN pairs ELSE {}

(* Where a bundle ends: at its last row, or where it starts.               *)
Through(d, from) ==
  {t \in {from} \cup {row.cursor : row \in Chunk(d, from)} :
     \A row \in Chunk(d, from) : AtMost(row.cursor, t)}

(* The bundle of what follows a cursor, a set of one.                      *)
Exports(d, from) ==
  {[source       |-> d,
    from         |-> from,
    through      |-> through,
    changes      |-> {Wire(d, row) : row \in Chunk(d, from)},
    flagged      |-> ShippedPairs(d, through, flagged[d]),
    acknowledged |-> ShippedPairs(d, through, acknowledged[d])]
   : through \in Through(d, from)}

(* PersonalStore::export_promotions.                                       *)
Export(d, from) ==
  /\ Cardinality(net) < MaxInFlight
  /\ \E b \in Exports(d, from) : net' = net \cup {b}
  /\ UNCHANGED <<recordVars, streamVars, replicaVars, divergenceVars, answers, resets>>

(* Whoever drives the transfer asks for what follows the consumer's        *)
(* cursor, or, when an answer is late or lost, for what follows an older   *)
(* answer or a bundle still on the way, or for everything.                 *)
RequestedFrom(d) ==
  {Start, cursor[Peer(d)]} \cup answers[d]
    \cup {b.from : b \in {x \in net : x.source = d}}

(* The transport loses a bundle.                                           *)
Lose(b) ==
  /\ b \in net
  /\ net' = net \ {b}
  /\ UNCHANGED <<recordVars, streamVars, replicaVars, divergenceVars, answers, resets>>

---------------------------------------------------------------------------
(* Import.                                                                 *)

(* validate_payload: one epoch, the same as the starting cursor's or the   *)
(* next one from sequence one; no gap; a tombstone carries a tombstoned    *)
(* record; through is the last cursor.                                     *)
ValidPayload(b) ==
  \/ b.changes = {} /\ b.through = b.from
  \/ LET first == IF b.through.epoch = b.from.epoch THEN b.from.sequence + 1 ELSE 1
     IN  /\ b.through.epoch \in {b.from.epoch, b.from.epoch + 1}
         /\ \A c \in b.changes : /\ c.cursor.epoch = b.through.epoch
                                 /\ c.operation = "tombstone" => c.tombstoned
         /\ b.changes # {}
         /\ {c.cursor.sequence : c \in b.changes} = first .. b.through.sequence

Advances(d, b) == Before(cursor[d], b.through)

(* Mutant: a forward bundle may start anywhere.                            *)
AcceptableAnyStart(d, b) ==
  \/ Advances(d, b)
  \/ /\ b.through = cursor[d]
     /\ b.changes # {} => Fingerprint(b) \in fingerprint[d]

(* A forward bundle starts exactly at the cursor; at the same cursor the   *)
(* record transition must be the accepted one.                             *)
Acceptable(d, b) ==
  IF Advances(d, b)
  THEN b.from = cursor[d]
  ELSE /\ b.through = cursor[d]
       /\ b.changes # {} => Fingerprint(b) \in fingerprint[d]

(* What an accepted bundle merges; a replay of the cursor merges no record.*)
Merged(d, b) == IF Advances(d, b) THEN b.changes ELSE {}
MergedRecords(d, b) == {c.record : c \in Merged(d, b)}

MergedTombstones(d, b) == {c.record : c \in {x \in Merged(d, b) : x.tombstoned}}

MergedSightings(d, b) == UNION {c.origins \X {c.record} : c \in Merged(d, b)}

(* Mutant: the origins of a bundle are not looked up.                      *)
OriginsFitUnchecked(d, b) == TRUE

(* merge_record refuses an origin that names another record here, or names *)
(* one since an earlier change of the bundle.                              *)
OriginsFit(d, b) ==
  \A s \in MergedSightings(d, b), t \in sightings[d] \cup MergedSightings(d, b) :
    s[1] = t[1] => s[2] = t[2]

(* merge_divergence refuses a pair with a record that is not here.         *)
PairsResolve(d, b) ==
  \A p \in b.flagged : {p[1], p[2]} \subseteq known[d] \cup MergedRecords(d, b)

(* Mutant: the incoming status replaces the local one.                     *)
MergedAcknowledgedOverwrite(d, b) == (acknowledged[d] \ b.flagged) \cup b.acknowledged

(* A pair acknowledged on either side is acknowledged.                     *)
MergedAcknowledged(d, b) == acknowledged[d] \cup b.acknowledged

(* PersonalStore::import_verified_bundle, when it commits.                 *)
Import(d, b) ==
  /\ b \in net
  /\ b.source = Peer(d)
  /\ ValidPayload(b)
  /\ Acceptable(d, b)
  /\ OriginsFit(d, b)
  /\ PairsResolve(d, b)
  /\ known'      = [known EXCEPT ![d] = @ \cup MergedRecords(d, b)]
  /\ tombstoned' = [tombstoned EXCEPT ![d] = @ \cup MergedTombstones(d, b)]
  /\ replicas'   = [replicas EXCEPT ![d] = @ \cup MergedRecords(d, b)]
  /\ tagged'     = [tagged EXCEPT ![d] =
                      @ \cup UNION {{c.record} \X c.tags : c \in Merged(d, b)}]
  /\ sightings'  = [sightings EXCEPT ![d] = @ \cup MergedSightings(d, b)]
  /\ flagged'      = [flagged EXCEPT ![d] = @ \cup b.flagged]
  /\ acknowledged' = [acknowledged EXCEPT ![d] = MergedAcknowledged(d, b)]
  /\ cursor'       = [cursor EXCEPT ![d] = b.through]
  /\ fingerprint'  = IF Advances(d, b)
                     THEN [fingerprint EXCEPT ![d] = {Fingerprint(b)}]
                     ELSE fingerprint
  /\ answers' = [answers EXCEPT ![Peer(d)] = @ \cup {b.through}]
  /\ UNCHANGED <<captures, streamVars, net, resets>>

(* A bundle that ends before the cursor is answered and changes nothing.   *)
ImportStale(d, b) ==
  /\ b \in net
  /\ b.source = Peer(d)
  /\ ValidPayload(b)
  /\ Before(b.through, cursor[d])
  /\ answers' = [answers EXCEPT ![Peer(d)] = @ \cup {b.through}]
  /\ UNCHANGED <<recordVars, streamVars, replicaVars, divergenceVars, net, resets>>

(* Mutant: every pending row is marked promoted.                           *)
AcknowledgeAllPending(d, through) ==
  /\ through \in answers[d]
  /\ AtMost(through, head[d])
  /\ pending' = [pending EXCEPT ![d] = {}]
  /\ UNCHANGED <<recordVars, head, changes, replicaVars, divergenceVars, net,
                 answers, resets>>

(* PersonalStore::acknowledge_promotions, with a cursor the peer answered; *)
(* the answer may arrive late or again.  The allocated cursor is read      *)
(* before the update but only grows, so one step stands for both.          *)
AcknowledgePromotions(d, through) ==
  /\ through \in answers[d]
  /\ AtMost(through, head[d])
  /\ pending' = [pending EXCEPT ![d] = {row \in @ : ~AtMost(row.cursor, through)}]
  /\ UNCHANGED <<recordVars, head, changes, replicaVars, divergenceVars, net,
                 answers, resets>>

---------------------------------------------------------------------------
Local(d) ==
  \/ \E o \in Offered[d], r \in Record, ts \in SUBSET Tag : Capture(d, o, r, ts)
  \/ \E r \in Record : Forget(d, r)
  \/ \E p \in Pair : FlagDivergence(d, p)
  \/ \E p \in Pair : AcknowledgeDivergence(d, p)
  \/ BumpEpoch(d)
  \/ ResetReplica(d)

Sync(d) ==
  \/ \E from \in RequestedFrom(d) : Export(d, from)
  \/ \E b \in net : Import(d, b)
  \/ \E b \in net : ImportStale(d, b)
  \/ \E through \in answers[d] : AcknowledgePromotions(d, through)

Next ==
  \/ \E d \in Device : Local(d) \/ Sync(d)
  \/ \E b \in net : Lose(b)

Spec == Init /\ [][Next]_vars

(* The caller of a store's peer keeps asking for what follows its cursor,  *)
(* keeps handing over what it got and reports each answer; a transport     *)
(* that is asked again and again does not lose every bundle, and keeps     *)
(* none forever.  Nothing obliges a client to capture, forget or           *)
(* acknowledge anything, or an operator to bump or reset.                  *)
FairSpec ==
  /\ Spec
  /\ \A d \in Device :
       /\ SF_vars(Export(d, cursor[Peer(d)]))
       /\ SF_vars(\E b \in net : Import(d, b))
       /\ WF_vars(\E through \in answers[d] : AcknowledgePromotions(d, through))
  /\ WF_vars(\E b \in net : Lose(b))

---------------------------------------------------------------------------
(* Properties.                                                             *)

TypeOK ==
  /\ known \in [Device -> SUBSET Record]
  /\ tombstoned \in [Device -> SUBSET Record]
  /\ tagged \in [Device -> SUBSET (Record \X Tag)]
  /\ sightings \in [Device -> SUBSET (Origin \X Record)]
  /\ captures \in [Device -> SUBSET (Origin \X Record)]
  /\ replicas \in [Device -> SUBSET Record]
  /\ head \in [Device -> Cursor]
  /\ changes \in [Device -> SUBSET Change]
  /\ pending \in [Device -> SUBSET Change]
  /\ cursor \in [Device -> Cursor]
  /\ fingerprint \in [Device -> SUBSET Transition]
  /\ flagged \in [Device -> SUBSET Pair]
  /\ acknowledged \in [Device -> SUBSET Pair]
  /\ net \subseteq Bundle
  /\ answers \in [Device -> SUBSET Cursor]
  /\ resets \in [Device -> Nat]

\* Every row of a promotion stream can be exported, now and at any later
\* time, as a payload the importer validates: the record it names is still
\* stored, and a tombstone row's record is still tombstoned.  Reset, the only
\* operation that deletes records, must not break it.
RowsExportable ==
  \A d \in Device : \A row \in changes[d] :
    /\ row.record \in known[d]
    /\ row.operation = "tombstone" => row.record \in tombstoned[d]

\* The replica cursor never claims more than the replica holds: whatever the
\* order, loss and repetition of bundles, each row of the peer's stream up to
\* the cursor has reached this store, its tombstone too.  A reset restarts
\* the epoch, so after one this is claimed of the cursor's epoch.
ReplicaCoversCursor ==
  \A d \in Device : \A row \in changes[Peer(d)] :
    (/\ AtMost(row.cursor, cursor[d])
     /\ row.cursor.epoch = cursor[d].epoch \/ resets[d] = 0)
      => /\ row.record \in known[d]
         /\ row.operation = "tombstone" => row.record \in tombstoned[d]

\* The outbox marks a row promoted only after the peer committed it: a store
\* whose peer was never reset has no promoted row the peer does not cover.
PromotedIsReplicated ==
  \A d \in Device : resets[Peer(d)] = 0 =>
    \A row \in changes[d] \ pending[d] : AtMost(row.cursor, cursor[Peer(d)])

\* A store at its peer's head holds everything the peer holds, each tombstone
\* and each sighting, after resets and fresh snapshots as well.
CaughtUpConverges ==
  \A d \in Device : cursor[Peer(d)] = head[d] =>
    /\ known[d] \subseteq known[Peer(d)]
    /\ tombstoned[d] \subseteq tombstoned[Peer(d)]
    /\ sightings[d] \subseteq sightings[Peer(d)]

\* A bundle that carries divergences never names a record its importer lacks,
\* so no bundle is refused, and the stream blocked, for a dangling pair.
DivergencesResolve ==
  \A d \in Device : \A b \in net :
    b.source = Peer(d) /\ Acceptable(d, b) => PairsResolve(d, b)

(* Origins that callers of the two stores gave to different records.       *)
Reused ==
  {o \in Origin : \E d \in Device : \E s \in captures[d], t \in captures[Peer(d)] :
     s[1] = o /\ t[1] = o /\ s[2] # t[2]}

CarriesReused(b) == \E c \in b.changes : c.origins \cap Reused # {}

\* Origin reuse fails closed: in one store an origin never names two records,
\* and in two stores only if callers of both gave it, each to its own record.
\* No bundle, late or repeated, and no reset spreads the disagreement, and it
\* is the only one for which a bundle is refused because of its origins.
ReuseFailsClosed ==
  /\ \A d, e \in Device : \A s \in sightings[d], t \in sightings[e] :
       s[1] = t[1] /\ s[2] # t[2] => d # e /\ s \in captures[d] /\ t \in captures[e]
  /\ \A d \in Device : \A b \in net :
       b.source = Peer(d) /\ Advances(d, b) => (OriginsFit(d, b) <=> ~CarriesReused(b))

(* What import_verified_bundle commits.                                    *)
Importable(d, b) ==
  ValidPayload(b) /\ Acceptable(d, b) /\ OriginsFit(d, b) /\ PairsResolve(d, b)

\* The two stores are never stuck: what a store would export now to its peer's
\* cursor, the peer can commit, and it gets further if there is anything
\* further, whatever captures, forgets, bumps, resets and stale bundles came
\* before.  Excepted is a bundle that carries an origin callers of both stores
\* reused, and a stream whose next rows are more than one epoch ahead.
NeverStuck ==
  \A d \in Device : \E b \in Exports(d, cursor[Peer(d)]) :
    b.through.epoch <= b.from.epoch + 1 /\ ~CarriesReused(b) =>
      /\ Importable(Peer(d), b)
      /\ (\E row \in changes[d] : Before(b.from, row.cursor)) => Advances(Peer(d), b)

\* A tombstone is permanent: a stale upsert, a repeated bundle or a new
\* capture of the same content never makes a record live again.  Only a reset
\* of this store's replica may drop the record as a whole.
TombstonesStick ==
  [][\A d \in Device : \A r \in tombstoned[d] :
       r \in tombstoned'[d] \/ r \notin known'[d]]_vars

\* Acknowledging a divergence is permanent: no import reopens the pair.
AcknowledgementsStick ==
  [][\A d \in Device : \A p \in acknowledged[d] :
       p \in acknowledged'[d] \/ resets'[d] # resets[d]]_vars

\* Every row of a promotion stream is eventually marked promoted, through
\* lost, repeated and stale bundles and across epochs: no bundle sequence
\* leaves the peer unable to accept what comes next, only callers of both
\* stores who reuse an origin do.
RowsGetPromoted ==
  \A d \in Device, e \in 1..MaxEpoch, s \in 1..MaxSequence :
    LET at == [epoch |-> e, sequence |-> s]
    IN  (\E row \in changes[d] : row.cursor = at)
          ~> (\A row \in pending[d] : row.cursor # at) \/ Reused # {}

\* An acknowledgement made in one store reaches the other, although it adds
\* no row to the stream and moves no cursor, if the store has a row in its
\* stream: only then can a consumer's cursor be at its head.  An origin reused
\* in both stores may keep the consumer from getting there.
PromotersSpreadAcknowledgements ==
  \A d \in Device, p \in Pair :
    p \in acknowledged[d] /\ head[d].sequence > 0
      ~> p \in acknowledged[Peer(d)] \/ Reused # {}

===========================================================================
