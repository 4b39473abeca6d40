# Formal model of neural-memory-server

TLA+ modules, TLC configurations and TLAPS proofs about the code in `src/`. The
modules translate the Rust and SQL sources; `PROJECT.json` maps each definition
to the lines it stands for, lists the runs, the mutants (a plausible bug per
property, which TLC finds), the hazards of the code and the theorems.

To check everything: `tlc -config <run>.cfg <module>.tla` for each run of
`PROJECT.json`, and `tlapm` on the modules `*_proofs.tla`.

## The system

Two programs share a repository.

The **personal store** (`crates/neural-memory-personal`) holds one person's
captures. Two stores exist, on the GPD and on the Mac, each writable. They
promote their local captures to each other with signed `SyncBundleV1` bundles.

The **evidence store** (`crates/neural-memory-store`, `-domain`, `-mcp`) is an
append-only, bitemporal record of claims and evidence, with retrieval over an
MCP server. It has no network peer; several processes may open one database.

| Component | State it keeps | Operations | Interacts through | What makes it correct |
|---|---|---|---|---|
| Personal store (`lib.rs`) | records, tags, sightings, captures, divergences, promotion log, replica cursor | capture, forget, flag, acknowledge, bump epoch, reset replica | SQLite transactions shared with the MCP server, the sync commands and the embedding worker | tombstones are permanent; a promotion row can be exported forever; a reset deletes only what the replica brought |
| Promotion and sync (`sync.rs`) | head, changes, outbox, replica cursor, fingerprint of the last transition | export, import, acknowledge | bundles that the transport may lose, delay, repeat or reorder | the cursor never claims more than the replica holds; nothing is marked promoted that the peer has not committed; every row gets there |
| Embeddings (`embeddings.rs`) | active profile, queue, vectors, failures | set profile, worker run (read profile, read batch, one commit per record) | the same tables, while captures, forgets, imports and other runs go on | no live record is lost to derivation; what is forgotten has no vector |
| Transport, keys (`transport.rs`, `runtime.rs`, `personal-sync`) | key files, requests | load, rotate, enroll; bounded request execution | calls the operations above | a rotated key is not trusted before its enrollment |
| Personal MCP (`personal_mcp.rs`) | none | remember, forget, recall, list | calls the personal store | as the store |
| Evidence store (`write.rs`, `temporal.rs`, `ingest.rs`) | memories, edges, evidence, ingestions, transaction-time sequence | put, supersede, add edge, verify derivation, ingest; as-of queries | several processes, one database | what was believed at a past sequence does not change; a retired record has its edge |
| Retrieval, entities (`retrieval.rs`, `entity.rs`, `vector.rs`) | declared entities, mentions, vectors | declare and reindex, embed, recall, traverse, obligations of an answer | reads of one call between which others write | nothing retired is offered, nothing that matched disappears silently, an answer accounts for the conflicts of what it cites; every claim is indexed by the current dictionary |
| Opening, migration (`migrate.rs`, `lib.rs`) | schema version, journal mode | switch to WAL, apply migrations | processes racing to open, of several builds | a migration is applied once; the steady state takes no lock; everyone gets in |
| Evidence MCP (`mcp/src/lib.rs`) | none | tool calls made of several store writes | calls the evidence store | a failed tool call leaves no half of its writes |
| Prompt assembly (`assembler.rs`) | what a session has shown, and its cost | plan append, plan supersession, apply, evict | pure | an append never changes the prefix; the count of tokens held is true |
| Disaster recovery (`evidence_dr.rs`, `interaction_logs_dr.rs`, `backup.rs`) | directories `staging`, `current.next`, `current` | stage (back up or archive, compare, sign), accept (verify, copy, verify, rename), read | the file system, across crashes; a source that writers may still change | the accepted set always verifies and is never replaced; what is signed is one moment of the source |
| Identity (`terms.rs`, `digest.rs`) | none | digest of canonical JSON | pure | equal content, equal digest |
| Tools (`corpus*.rs`, `bench`, `eval`) | none | input formats and reports | calls the store | - |

What is hard in it: bundles and answers that arrive late, twice, out of order or
never, across epoch bumps and replica resets; records exported as they are now
and not as they were when the row was written; a worker that computes outside
any transaction while records are forgotten, deleted or moved to another
profile; multi-statement writes of the evidence store that are not one
transaction; crashes between file system steps. `PROJECT.json` lists each
hazard at its line with the property that covers it.

## Modules

| Module | What it is |
|---|---|
| `SyncCursor` | a position (epoch, sequence) in a stream and its order |
| `PersonalRecords` | the records of one store and why each is kept: what `PersonalEmbeddings` builds on and `PersonalSync` implements for each store |
| `PersonalSync` | the two stores, their promotion streams and the bundles between them |
| `PromotionStream` | the abstract specification of one direction: rows arrive in order, none skipped, an epoch finished before the next, confirmed only after committed |
| `PersonalSyncStream` | the refinement mappings from `PersonalSync` to `PromotionStream` and to `PersonalRecords` |
| `PersonalEmbeddings` | `PersonalRecords` with the queue, the vectors and overlapping worker runs |
| `EvidenceStore` | claims in transaction order, their support, retirement and edges, written by several processes statement by statement, and belief as of the past |
| `EntityExtraction` | the dictionary extractor as operators, with the promise it is checked against |
| `EvidenceRetrieval` | `EvidenceStore` with the index of mentions, the vectors, one recall and one submitted answer, read by read |
| `StoreOpening` | processes that open and migrate the evidence store at once |
| `PromptAssembly` | the append-only prompt session beside one that rebuilds every turn |
| `DisasterRecovery` | the recovery set of the evidence store or of the interaction logs: one stage, several accepts, the operator and power losses over one directory tree |
| `MCPersonalSync`, `MCPersonalEmbeddings`, `MCEvidenceStore`, `MCEvidenceRetrieval`, `MCStoreOpening`, `MCPromptAssembly`, `MCDisasterRecovery` | instances for TLC |
| `PersonalSync_proofs`, `PersonalEmbeddings_proofs`, `EvidenceStore_proofs`, `EvidenceRetrieval_proofs`, `StoreOpening_proofs`, `DisasterRecovery_proofs`, `PromptAssembly_proofs` | theorems and their proofs |
| `PersonalSyncConvergence_proofs` | on top of `PersonalSync_proofs`: what the two stores promise together, that neither is ever stuck, and the two refinements |

### PersonalSync and the code

A store operation is one SQLite transaction, hence one action. Each table is a
set of the model, per store: `known` is `canonical_records`, `tombstoned` its
column, `changes` is `promotion_changes`, `pending` the outbox rows still
pending, `head` is `promotion_state`, `cursor` and `fingerprint` the replica
cursor row. The schema's foreign keys are guards (`Deletable`) and cascades
(the sets `ResetReplica` cuts down).

* `Capture` is `put`, through `capture` or the MCP tool `remember`; a repeated
  capture adds tags and promotes nothing. `Forget` is `forget`. `BumpEpoch` is
  `bump_promotion_epoch_and_snapshot`, `ResetReplica` is
  `reset_replica_for_reenrollment`.
* `Export` is `export_promotions`: rows after the requested cursor up to the end
  of the first epoch among them, each with its record as it is now, and the
  divergences when the bundle reaches the head. `Exports` are the bundles it may
  return to a request of this moment, `Through` where they end.
* `Import` and `ImportStale` are `import_verified_bundle`, with
  `validate_payload`, `merge_record` and `merge_divergence`. A refused bundle
  changes nothing and is no action.
* `AcknowledgePromotions` is `acknowledge_promotions`. It reads the allocated
  cursor and updates the outbox without a transaction; the cursor only grows, so
  a check passed with the older value passes with the newer one, and one step
  stands for the two.

What the model assumes of code that is not in the repository:

* The peer, the Mac's claude-mind, behaves as this store does. That is what
  `docs/BANKING_POLICY.md` prescribes and what `tests/sync.rs` plays with two
  stores of this code.
* `RequestedFrom`, from which cursor the coordinator asks for an export: the
  consumer's cursor, an older answer, a bundle still on the way, or the start.
* `Lose`, and that nothing takes a bundle out of `net` when it is imported: any
  bundle may be delivered any number of times, in any order, or never.

The origin of a capture is the caller's: `remember` takes any `originDevice` and
`originRecordID`, and `capture` checks the pair against the sightings of its own
store only. `Offered` says which origins the callers of each store give. Nothing
keeps the two from overlapping, in the code or in the model; `Reused` are the
origins that callers of both stores have attached to different records.

Divergences are flagged and acknowledged through the Rust interface only; no
program of the repository calls it. `Flagging` switches these actions on.

Left out of `PersonalSync`: the time fields (`createdAt` merges by minimum just
as tags merge by union), the wording of records, signatures and the validation of
single records (what fails them is refused and changes nothing), chunk sizes
(an export of this code is not cut by size).

### PersonalEmbeddings and the code

Here one store is enough. Its records are `PersonalRecords`; each action adds to
the record's step what the same transaction does to the queue, the vectors and
the failures. `Import(arriving, retired)` is one bundle, the records it brings
and those among them that come tombstoned, committed at once. That the two
stores of `PersonalSync` change their records only by these steps is the property
`RecordsImplemented` and the theorem `ImplementsRecords`, so the environment of
the embeddings leaves out nothing that synchronisation can do.

A worker run has three phases: `Start` reads the active profile, `Load` reads a
batch, `StoreVector`, `RecordFailure` or `RowRefused` is the commit for one
record. In between anything happens, another run included: the timer and an
operator can both start one. `RunFails` is an endpoint error or a killed process;
what was not committed stays queued.

### EvidenceStore and the code

Here a statement is a step. `put_memory` and `supersede` run outside any
transaction, so `PutMemory`, `LinkObservation` and `Supersede`, `Retire`,
`InsertSupersedesEdge` are the statements of one call, with `call` holding what
the process remembers in between. Other processes write in between, and those in
`Mortal` may end there (`Die`). The tools `remember` and `flag_contradiction`
and the commands `record-decision` and `supersede` are these sequences. `ingest`
is one transaction, hence one action, which stands for a document that succeeds;
one that fails or runs dry leaves nothing.

* A record is its digest, so `INSERT OR IGNORE` leaves the row of a record already
  stored alone (`Numberings`, `RecordedWhen`). Its links are inserted again all
  the same. AUTOINCREMENT promises larger, not consecutive, sequences.
* `recordedAt` is what the caller passed. With `Backdating` he may pass an older
  instant or none, as `occurredAt` of the tool lets him.
* `AsOf`, `SeqAt` and `BelievedAt` are `current_as_of`, `seq_at` and the tool
  `as_of`, `Live` is what default retrieval keeps. The tool resolves an instant
  and reads the claims in two reads; `HistoryKept` says what may change between.
* `DocumentsAreClosed` is what `validate` and the resolution of aliases leave of a
  document. A document that retires a claim twice is left out.
* Any process may write any record: more than the code allows, where the digest
  seals the evidence class and only operators have the higher ones.

Left out: artifacts, policies, suites and reference executions, which are
written like observations and referred to by them; the checks that refuse a
write before its first statement (`check_evidence`, `verify_derivation`); the
retraction columns, which nothing writes; validity windows. Mentions and vectors
are in `EvidenceRetrieval`.

### EvidenceRetrieval and the code

It extends `EvidenceStore`: every statement of its writers is a step here too
(`Writing`), and `ingest`, with the reindexing at its end, is `IngestAndIndex`.
`job` is what one agent's server is in the middle of. A read is a step, so
writers come between the branches of one recall, between the loads of its
candidates, between its walks and before its conflicts are read.

| Code | Action or operator |
|---|---|
| `extract_mentions`, `EntityDictionary` | `ExtractMentions`, over the occurrences in `Turns`: longest match first, then text, then identity; no overlap |
| `put_entity`, `index_mentions`, `reindex_mentions` | `Reindex`, `Indexed`, `RowsOf`: the cascade that deletes the mentions of a declared entity, the rows of the same extractor, and those that INSERT OR REPLACE replaces |
| `backfill`, `put_embedding` | `PutEmbedding` |
| `recall`, branch by branch | `SearchText`, `SearchVectors`, `ReadDictionary` and `SearchMentions`, each followed by `LoadCandidate` for what is new; `Walk` per seed; `ReadConflicts` with the ranking and the cut |
| `traverse` | `Traverse`, by the walks of the recursive query |
| `submit_answer`, `conflict_obligations` | `SubmitAnswer`, `LookUpCited`, `ReadObligations` per cited record |

`began`, `known`, `told` and `flagged` in `job` are for the properties: what the
store held, or which conflicts were flagged, when the recall or the answer began.
Scores are left out: which rows a branch fetches and which hits survive the cut
is any choice of the right size, except that the entity branch prefers records
that share more entities. A text search is a fixed set of matching records,
which the index follows by trigger. Recalls do not affect each other, so one
agent recalls while any number write. The contents of `trace_provenance`,
`get_record` and the coverage report are left out: they only read.

### StoreOpening and the code

`Start` is a session that calls `Store::open`; `ReadMode`, `Switch`, `Switched`,
`SwitchBusy` are `enable_wal` with its attempts; `CreateTable` to `Commit` are
`apply_all`, with the check outside the lock (`Check`), BEGIN IMMEDIATE and the
busy timeout (`Begin`, `GiveUp`), the check inside it (`Recheck`), the SQL (`Run`)
and the row with the commit (`Commit`). `schema` is what has been committed,
`recorded` the rows of `schema_migrations`. Builds differ in the newest migration
they know (`Latest`). `duplicate` is the end of an opener whose SQL met what
another had done. What is assumed of SQLite is in the module's heading: one
holder of the lock at a time, which its death frees and whose transaction it
undoes. `open_read_only`, which migrates nothing, and the personal store's
opening, all in one IMMEDIATE transaction, are left out.

### PromptAssembly and the code

`Extend` and `Evict` are the two ways of a turn of `simulate_append_only`,
`PlanAppend` is `plan_append`, and `Rebuild` is the same turn of
`simulate_rebuild_per_turn`. `plan_supersession` is a turn that retrieves the
replacement alone. A digest is an integer, for the order of the BTreeSet
(`Place`), and tokens are counted one by one (`TokensIn`), so that a sum is a
cardinality. Sums are u32 and wrap as a release build does, but `TokensAreFew`
assumes the records together have fewer tokens, without which `held` loses its
meaning. So no sum wraps in what is checked and proved (`NoWrap`): it is the
boundary of the budget that is checked, not overflow. The module stands alone: in this repository only tests call the
assembler.

### DisasterRecovery and the code

`kind` says which of the two sibling programs runs; they differ only in how the
artifact is made. A file of `source` (a log, or a table) is the number of changes
it has seen, so it only grows and equal numbers stand for equal digests; 0 is an
absent or empty file. `moments` is a history variable, the states the source has
been in. Nothing stops `Grow` during a stage: "writers stopped" is an argument
and an environment variable, no lock. `neural-memory-evidence-dr` looks with
`fuser` for processes that have the store open, once, before it begins; one that
opens it afterwards is not stopped.

| Variable | Code |
|---|---|
| `dirs["staging"]`, `["next"]`, `["current"]` | the directories and what their three fixed files hold |
| `stage.seen` | `walked`, or the row counts `backup_to` reads from the live store after the copy |
| `stage.packed` | what tar has read so far, or the snapshot `VACUUM INTO` took |
| `dirty` | files written but not synced: tar and SQLite sync nothing, `create_private` and `copy_private` sync each file |
| `undurable` | the rename to `current`, which no directory sync follows |

| Action | Code |
|---|---|
| `BeginStage` .. `Sign` | `stage`: exclusive `create_dir`; walk, tar, extract and compare, or `backup` (copy, counts, its own verification) and `verify-backup`; manifest; signature |
| `StartAccept`, `MakeNext`, `CopyFile`, `VerifyNext`, `Rename` | `accept`: between any two of them another accept, the operator or a power loss may act |
| `RemoveStaging`, `RemoveNext`, `RetainCurrent` | the operator: what a failed run left is removed when no process of its kind runs; a set is moved away whoever is accepting |
| `StagerDies`, `AccepterDies`, `PowerLoss` | any process at any step; a power loss tears any dirty files and may undo the rename |

The model takes the file system to write directory changes in order, as a
journaling one does, so a rename on disk implies the files it moved are there.
`verify_directory` of `staging` is one step: its answer only lets the copy begin,
which is verified again. Left out: `read_current` (it only reads), wrong keys,
symlinks and malformed fields (they are refused and change nothing).

## What the runs check

Every property of a passing run has a mutant: a plausible bug in one definition
with which TLC finds the property violated under the same configuration.

| Run | Question | Bounds |
|---|---|---|
| `sync_delivery` | captures, forgets, divergences and an epoch bump while bundles are lost, late, repeated, overtaken: what is promoted is replicated, nothing is undone, and a store can always go on from its peer's cursor | 2 records, 2 origins, 2 epochs of 2 rows; one store captures, both promote what they forget |
| `sync_reenrollment` | bumps and resets of either store among late bundles and answers; the refinements of `PromotionStream` and `PersonalRecords` | 1 record, 2 rows per epoch, 2 epochs, 1 reset per store, empty bumps |
| `sync_liveness` | origin reuse fails closed and stops nothing else; without it every row is confirmed and acknowledgements spread | 2 records, 1 row per epoch, 2 epochs, both stores capture; 2 origins, one of which callers of both give |
| `embeddings` | a failing run, rotation, import, forget, reset; no record is lost, no queue row is for another profile, everything is eventually derived | 2 records, 2 profiles, 1 worker, batches of 2 |
| `evidence_safety` | retirements, links, edges, past belief and stale evidence under interleaved statements | 3 records, 1 observation, 2 documents, 2 operators, 1 agent that may die, sequences to 3, 2 `supersede` commands |
| `retrieval` | one recall and one answer among writers | 3 records with texts of up to 5 characters, 2 entities with an alias, 1 document, 1 `supersede` command, branches of 2 rows, 2 hits, 2 hops |
| `opening` | a fresh store opened at once | 3 processes, two of a build with 3 migrations and one of an older build with 1, 2 attempts, 2 deaths |
| `recovery_sets` | the accepted set and what is signed, among live writers, stages, accepts and power losses | 2 files of 2 changes, 2 accepts, any number of stages |
| `assembly` | every session of some turns | 4 records of 0 to 4 tokens, a budget of 3, 4 turns of up to 3 records |

The bounds are the smallest at which the interesting cases happen. Two rows make
a stream that can have a gap, a prefix and a repetition; two epochs have a
boundary, with old bundles and answers on both sides of it. One record suffices
where content only has to be present or absent, and two where one can hide
another or form a pair. Two records and one origin that callers of both stores give are what a
reuse takes; the second origin belongs to one store, so that its row does get
through. An old bundle can always be exported again from an older
answer, so a single place in `net` still lets a stale one arrive after a newer
one. `MaxEpoch`, `MaxSequence`, `MaxResets` and `MaxInFlight` bound TLC and stand
in the guards of `BumpEpoch`, `Promote`, `ResetReplica` and `Export`; the theorems
hold for all their values.

In `EvidenceStore` three records are a claim, its replacement and one written
between the statements of a supersede; the second operator ingests, remembers or
retires between those of the first. `MaxSeq`, `MaxTime` and `MaxSupersedes` stand
in `Seq0`, `Tick` and `Supersede`. In `retrieval` the three records are two that
match the text and one found by vector or entity, joined by an edge, so a
candidate is reached by several branches and by walks of one and two hops; three
candidates for two hits let the cut bite. The extractor is checked on
every text of up to four characters, and the index over the rows of every other
dictionary, by assumptions of `MCEvidenceRetrieval`. `embeddings` has one worker
because its liveness part must come to an end; that overlapping workers lose
nothing is proved, for any number of them (`NothingLost`). In `opening` one
process can hold the lock while a second waits and a third gives up. In
`recovery_sets` two files are what an archive can mix from two moments, two
changes let stages differ from what an earlier one signed, and `MaxSize` stands in
`Grow`.

`sync_delivery` uses symmetry among origin ids, `evidence_safety` among operators,
`recovery_sets` among files and accepts: no definition compares them. The liveness
runs use none. The runs of the personal store turn the deadlock check off: with
the bounds used up and nothing asked for, the system may stop; so does `assembly`,
whose sessions end. In `EvidenceStore`, `EvidenceRetrieval`, `StoreOpening` and
`DisasterRecovery` something is always possible, and deadlock is checked.

`EmptyBump = FALSE` leaves out bumps of a store with no captures, in
`sync_liveness` and `sync_delivery`, because such a bump strands the peer (below);
safety is checked with them in `sync_reenrollment` and proved with them.
`Backdating = FALSE` lets callers pass the present instant only; the proofs hold
for older ones too.

### Fairness

`PersonalSync!FairSpec`: whoever drives the transfer keeps asking for what
follows the consumer's cursor, hands over what it got, and reports each answer
(BANKING_POLICY's retry rule, and the at-least-once outbox). The transport may lose
any bundle, any number of times, but not all of an infinite number of them
(strong fairness of `Import`), and keeps none for ever. Both liveness
properties except a state with `Reused` origins: a row that carries one is refused
however often it is sent. Nothing obliges a client to capture, forget or
acknowledge, or an operator to bump or reset.

`PersonalEmbeddings!FairSpec`: the systemd timer keeps starting runs; a run may
fail any number of times at any point, but a record submitted again and again is
answered some time, with a vector or a terminal rejection (strong fairness of
`Derive`).

`StoreOpening!FairSpec`: sessions keep being started and a process that opens
goes on; both are weak. Only finitely many processes die while opening. Nothing
is assumed of who wins the lock: an opener that loses it gives up, starts again,
and in the end finds the work done.

### Where the code does not do what its documents say

Three runs state a sentence of the documents and expect a violation.

* `sync_stranded`: bumping a store with no captures leaves an empty epoch, and a
  consumer refuses whatever comes after it as a skipped epoch, on every retry.
  `NeverStuck` excepts it, and `OnlyReuseStrands` proves that without such bumps
  only a reused origin (below) makes a peer refuse what it is sent.
* `embeddings_forgotten`: a worker that read its batch before a forget commits a
  vector for the forgotten record after it.
* `evidence_as_of`: a retirement is dated with the last sequence recorded before
  it, so with nothing recorded since yesterday, `as_of` yesterday shows a claim
  retired today as retired. `ViewsAgree` is why it cannot simply be dated one
  later: belief as of the watermark is to be the present.

`PROJECT.json` quotes the sentence and the line of code for each. More was met
while modelling and has no run.

In the personal store:

* An origin that callers of both stores attach to different records stops the
  stream for good: the row that carries it is refused on every retry
  (`sync.rs:609`), everything after it waits, and neither store can take the
  sighting back. The code does what `docs/BANKING_POLICY.md:91-92` says, origin
  reuse fails closed, so this is no finding; but nothing prevents the reuse.
* A replica-only record that was forgotten here is pinned by the promotion log,
  so its replica can no longer be reset (`ResetReplica` is refused for ever;
  `lib.rs:599`).
* A store that has promoted nothing never sends its divergences, since no cursor
  equals its head (1,0). `sync_liveness` checks the property of stores with a row
  in the current epoch, where it holds.
* Tags added by a repeated capture reach no peer: the capture promotes no row.

In the evidence store:

* `remember` stores the caller's `occurredAt` as transaction time, so a claim
  written today about an earlier day is believed on that day, says `as_of`.
* Ingesting an unchanged document again dates its retirements anew, with the
  watermark of that moment, so it does change history (`ingest.rs:27` says it
  writes nothing). `HistoryKept` leaves retired claims out for this reason.
* `index_mentions` says that an older dictionary's spans do not stay behind
  (`entity.rs:70`); it deletes only those of the same extractor, and a changed
  dictionary is another extractor. `entity_search` finds the old ones too.
  `IngestIndexesAll` is therefore about the rows of the current extractor.
* The over-fetch of `limit * 4` rows is meant to keep retired rows from shrinking
  the result (`retrieval.rs:261`); more retired matches than that hide every live
  one. `AccountedFor` grants a branch its fill for this reason.
* Claims remembered through the MCP server are not indexed until the next
  ingestion, so the entity branch does not see them.
* Retired records that only the vector or entity branch would have found are
  filtered in their queries and not reported as withheld.
* The extractor compares bytes: surface forms outside ASCII may cut a character,
  which stops the program. The model is of ASCII texts.

In the assembler: a first turn that alone exceeds the budget counts as an
invalidation although no prefix was lost; `PrefixKept` counts it too.

## What is proved

For every set of records, origins and tags and every bound, from the assumptions
that there are two stores and that digests are finitely many integers:

* `TypeCorrect`, the type invariant. A snapshot row's sequence is a cardinality,
  so it needs the set of captured digests to be finite (`SnapshotRows`).
* `StreamsExportable`: `[]RowsExportable`. It is inductive together with the
  foreign key of captures, `CapturesKnown`: a bump writes rows for captured
  records, so captures must not outlive their records. Only `ResetReplica`
  removes records (`RecordsKept`), and it is refused when a row names one.
* `ReplicaCovers`: `[]ReplicaCoversCursor`. By itself it is not inductive: a
  bundle on the way must already have every row between its two cursors, and
  rows appended after its export must lie beyond its end. `ReplicaInv` adds
  `AllocatedOnly` (all cursors, answers and bundles end at or before the head,
  and rows have positive sequences, which is what a reset to sequence zero rests
  on) and `BundlesComplete`. `StreamsAppend` shows that streams grow only at
  their end; `ExportedBundle` that an export is complete although it is cut at
  an epoch boundary; `ImportCovers` that starting exactly at the cursor is enough.
* `PromotedReplicated`: `[]PromotedIsReplicated`, with `AnswersCovered`: a store
  that was never reset covers every cursor it has answered, late or not.
* `TombstonesPermanent` and `AcknowledgementsPermanent`: the action properties
  `TombstonesStick` and `AcknowledgementsStick`.

`PersonalSyncConvergence_proofs` goes on from there, from the same assumptions,
to what the two stores promise together. All of it rests on where a record comes
from (`SourceInv`): one a store knows was captured there or is in the peer's own
stream (`RecordsSourced`), and what a bundle says of a record its source still
holds, because the record has a row there and `ResetReplica` is refused
(`BundlesBacked`).

* `OriginReuseFailsClosed`: `[]ReuseFailsClosed`, with no assumption on who gives
  which origin. A sighting on either store or on the way is a capture of one of
  the two (`SightingsCaptured`), and a store refuses to capture, and to merge, an
  origin it knows of another record. So two records under one origin are captures
  of the two stores (`DisagreeingAreCaptured`); a bundle that carries such an
  origin meets the importer's own capture (`ReuseCaught`), and one that carries
  none meets no other record (`MergedAreBacked`, `BackedFit`).
* `PairsAlwaysResolve`: `[]DivergencesResolve`. A bundle that carries pairs
  reaches the head, and what its source captured has a row in the epoch of that
  head (`CapturesCurrent`), which an importer at the bundle's start has read or
  is about to; the rest is in the importer's own stream.
* `CaughtUpStoresConverge`: `[]CaughtUpConverges`. What the peer lacks has a row
  it has yet to read (`ReachInv`). For sightings this needs a fact about bundles
  on the way (`SightingsTravel`): a sighting added after the export has a later
  row, or came from the importer itself. A peer's reset puts its cursor before
  the first row of its epoch, so what it drops becomes due again
  (`ResetMakesDue`, `DroppedIsDue`); tombstones have their own row in every epoch
  (`TombstonesCurrent`).
* `ImplementsStream`: `Spec => StreamImplemented`, for both directions, with one
  lemma per step of `PromotionStream`. `Received` is read from the tables, so the
  proof starts from `ReplicaCoversCursor`, by which it is what lies before the
  cursor (`ReadIsReceived`); `EpochFinished` is why an import that enters the
  next epoch has left nothing of the last; `ReadAnswered` and
  `ConfirmedAnswered` say that a late answer confirms only what was committed.
* `StoresNeverStuck`: `[]NeverStuck`. A store that lags can get further,
  whatever captures, forgets, bumps, resets and stale bundles came before: there
  is a bundle to export to the peer's cursor (`ExportsExist`), the checks of the
  payload pass (`ExportValid`), and the peer accepts its start, its origins and
  its pairs (`ExportAccepted`, `ExportOriginsFit`, `ExportPairsResolve`). The
  importer wants the sequences of each epoch without a gap, so the invariant is
  that every stream is numbered so (`StreamFilled`, `HeadFilled`). A snapshot
  numbers its rows by the rank of their digests, and `SnapshotFills` shows that
  the ranks of a finite set leave none out; `SequencesBounded` gives an epoch
  its last row. Excepted are a next row more than one epoch ahead and one with a
  reused origin. `OnlyReuseStrands` shows whose doing they are: with no bump of a
  store that has captured nothing, every epoch has a first row (`EpochsUsed`), so
  the first exception is empty, and the bundle exported to the peer's cursor is
  refused if and only if it carries a reused origin (`StrandedByReuse`).
* `ImplementsRecords`: `Spec => RecordsImplemented`, with one lemma per operation.
  That a bump promotes no record for the first time rests on `CapturesCurrent`:
  what is captured has a row in the current epoch already.

For the embeddings, any number of records, profiles and overlapping runs:
`TypeCorrect` and `NothingLost` (`[]NoneLost`). It has two halves that need each
other, `LiveAccounted` (a live record is queued, has its vector or its recorded
failure) and `QueueFollowsProfile`: `INSERT OR IGNORE` keeps a row already
queued, which is harmless only because a live record's row is always for the
active profile.

For the evidence store, from what `DocumentsAreClosed` says of documents, for any
processes, records, documents and bounds: `TypeCorrect`; `RetirementsDated`,
`TwoViewsAgree`, `EveryEdgeResolves`, `AnswersAreLinked`,
`EveryRetirementHasEdge`, `HistoryIsKept` and `StalenessIsDecidedOnce`, that is
every property of `evidence_safety`. They rest on one inductive invariant, `Inv`.
It adds what a
process in the middle of a call may rely on (`CallInOrder`: the mark of a
supersede lies at or above both its claims and below some stored one, whatever
was written since; what a write has linked is linked) and its image in the rows
(`RetirementInOrder`). `StepKeeps` says that no step takes a row away, changes a
sequence or numbers a new record below an old one; `CallKept` and
`RetirementKept` derive from it that what one process relies on survives the
steps of the others. `DatedBack` says that only a supersede that lost its race
dates a retirement before a claim already there; both action properties follow.

For retrieval, for any texts, dictionaries, records, documents, requests and
bounds, from assumptions that say only that constants have their types, that a
branch reads at least as many rows as hits are returned and that records and
entities, named by their seals, are finitely many and told apart by them: `ImplementsStore`,
`RetrievalSpec => Spec`, so that all of the above holds of what a recall reads;
`RetrievalTypeCorrect`; `NoHitIsRetired`, `WithheldIsRetired`,
`AcceptedAnswersAccount` and `RefusalsAreForNews`. The inductive invariant,
`RetrievalInv`, says what survives the writers that come between the reads of one
call: what was stored, flagged or retired when a recall began still is
(`BeganBefore`), a record found is loaded once, and then is a candidate or
withheld (`LoadedOnce`), and an answer owes, for the cited claims looked at so
far, every conflict flagged when it was submitted (`OwedSoFar`). It needs from
the store that edges only grow and join stored claims, and that what is retired
stays so (`StaysRetired`).

`NothingDisappears` (`[]AccountedFor`) and `DistancesAreShortest`
(`[]DistancesShortest`) rest on a second invariant, `RecallInv`, kept by every
step of the recall and by every writer in between: the text branch has found
every match there was when the recall began, or `Fetch` others, and loads what
it found (`SearchAccounted`); a walk leaves nothing within its reach neither a
candidate nor withheld (`WalksAccounted`); the distance of a candidate is that of
a real path (`DistancesReal`) and no longer than any from a seed walked so far
(`DistancesLeast`). The walks are those of the code's recursive query and the
reference, `Within`, is a recursive function over hops, so the two are shown to
agree for any graph and bound: `WalkIsWithin` and `WithinIsWalked` argue over the
least number of hops for which they would not, and `TraverseShortest` concludes
that the minimum the query takes over its walks is the least radius that holds
the record.

`IngestionIndexesAll` (`IngestIndexesAll`) has two halves. `ExtractorTakesLongest`
is about the extractor alone, for every text and every finite dictionary: its order
of scanning is a strict total order (`ScanningOrders`, `ScanningTransitive`, which
is where identities must tell entities apart), so every occurrence has a turn of
its own (`TurnsFollow`); turn by turn, what has been reported does not overlap and
accounts for every occurrence scanned so far. `IndexedSpans` is about the table:
whatever rows other dictionaries left, those of this one are what it extracts.
With no entity declared nothing is indexed, and then no mention may bear the
empty dictionary's name (`MentionsHaveExtractor`).

For the opening, for any processes, builds and bounds: `TypeCorrect`,
`MigrationsAppliedOnce`, `OpenersAreMigrated` and `SteadyStateIsLockFree`, that is
every safety property of `opening`. The inductive invariant ties the lock to the
steps that hold it (`LockInOrder`) and how far an opener has come to the file
(`ProgressIsReal`): versions recorded are never removed, so the check outside the
lock stays true when it says yes, and the check inside it also when it says no,
until the commit.

For the recovery sets, for any files, accepts and sizes, from the assumption that
the marks of missing and torn files are no contents: `TypeCorrect`,
`AcceptedSetVerifies`, `AcceptedSetIsNotReplaced`, `SignedSetIsOneMoment` and
`ListingTrue`, that is every property of `recovery_sets`. The inductive invariant
`Inv` says that only the staged artifact is ever dirty (`DirtyIsStaged`), that at
most one accept has `current.next` in hand and what it has checked stays
(`AcceptSound`), and what the stage knows phase by phase (`StageSound`). Its core
is `WalkEnd`: the state at the end of the walk lies, file by file, between every
digest of the walk and every read of tar, so if the two agree they agree with
that state. For the evidence store the comparison bounds the counts from above by
the source, and the copy from below.

For the prompt assembly, for any records, token counts, budget and turns, from
`TokensAreFew`: `HeldIsWhatIsShown`, `AppendingIsNeverDearer` and `PrefixIsKept`,
that is every property of `assembly`. The first two are proved together
(`Accounted`), since what a turn costs is measured by a count that the earlier
turns kept true. Underneath, tokens of disjoint sets add up (`SumAdds`), no sum
wraps (`NoWrap`), and the plan lists the new records once each (`PlanIsNew`):
ranking a finite set of digests is one to one and onto (`PlacesDiffer`,
`PlacesFilled`).

Every invariant and action property of a passing run is proved. Only model-checked:

* Liveness: `RowsGetPromoted`, `PromotersSpreadAcknowledgements`,
  `EventuallyDerived` and `EveryoneOpens`. The prover has no rule for fairness.
* `RetiredTodayNotYesterday` and `ForgottenHaveNoVector`, which are violated.

## Not modelled yet, and the plan

In this order.

1. The key files: first creation (which a crash between create and write leaves
   short and then refused), rotation and enrollment by rename, beside the epoch
   bump.
2. The opening of the personal store.

Not planned: digests and canonical JSON (a pure function; two records are the same
model value exactly when their digests are equal), the arithmetic of vectors and
scores, the derivation checks, corpus importers, benchmarks and reports, JSON-RPC
framing.
