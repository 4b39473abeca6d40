------------------------- MODULE PersonalEmbeddings -------------------------
(***************************************************************************)
(* The local derivation of vectors for the records of one personal store.  *)
(* Captures, imports, forgets, resets and profile rotations are one        *)
(* transaction each.  A worker run is not: it reads the active profile,    *)
(* then reads a batch of queued records, then computes one vector after    *)
(* the other outside any transaction and commits each on its own, so every *)
(* other operation, and other runs, may come in between.                   *)
(*                                                                         *)
(* An embedding profile is a model value.  The bytes of a vector, the      *)
(* times of rows and the order of a batch (by created_at) are left out: a  *)
(* batch is any set of queued records of the right size.                   *)
(***************************************************************************)
EXTENDS PersonalRecords, Integers, FiniteSets

CONSTANTS
  Profile,        \* identities of embedding profiles
  NoProfile,      \* SQL NULL for a profile identity
  Worker,         \* worker runs that may overlap
  Limit           \* rebuild's --limit: the size of a batch

ASSUME NoProfileIsNotAProfile == NoProfile \notin Profile
ASSUME LimitIsPositive == Limit \in Nat \ {0}

VARIABLES
  active,         \* personal_active_embedding_profile
  queue,          \* personal_embedding_queue: <<record, profile>>
  vectors,        \* personal_embeddings: <<profile, record>>
  failures,       \* personal_embedding_failures: <<profile, record>>
  run             \* per worker: its phase, the profile it read, its batch

tableVars  == <<queue, vectors, failures>>
vars == <<recordVars, active, tableVars, run>>

Without(S, R)   == {q \in S : q[1] \notin R}    \* queue rows not of R
WithoutOf(S, R) == {v \in S : v[2] \notin R}    \* vector or failure rows not of R

Idle == [phase |-> "idle", profile |-> NoProfile, batch |-> {}]

Run == {Idle} \cup [phase   : {"loading", "embedding"},
                    profile : Profile,
                    batch   : SUBSET Record]

---------------------------------------------------------------------------
Init ==
  /\ RecordInit
  /\ active   = NoProfile
  /\ queue    = {}
  /\ vectors  = {}
  /\ failures = {}
  /\ run      = [w \in Worker |-> Idle]

---------------------------------------------------------------------------
(* The operations of the store.                                            *)

(* INSERT OR IGNORE, record_digest being the key of the queue: a row       *)
(* already queued keeps its profile.                                       *)
Enqueued(q, R, p) == q \cup {<<r, p>> : r \in {x \in R : \A row \in q : row[1] # x}}

(* PersonalStore::put.  Every capture of a live record queues it, also a   *)
(* replay of one whose vector is ready.                                    *)
Capture(r) ==
  /\ CaptureRecord(r)
  /\ queue' = Enqueued(queue, {r} \ tombstoned, active)
  /\ UNCHANGED <<active, vectors, failures, run>>

(* What was derived from a record, or waits to be, is deleted.             *)
Discard(R) ==
  /\ queue'    = Without(queue, R)
  /\ vectors'  = WithoutOf(vectors, R)
  /\ failures' = WithoutOf(failures, R)

(* PersonalStore::forget.                                                  *)
Forget(r) ==
  /\ ForgetRecord(r)
  /\ Discard({r})
  /\ UNCHANGED <<active, run>>

(* PersonalStore::import_verified_bundle.  A record that arrives live is   *)
(* queued whether or not it is tombstoned here.                            *)
Import(arriving, retired) ==
  /\ MergeRecords(arriving, retired)
  /\ queue'    = Enqueued(Without(queue, retired), arriving \ retired, active)
  /\ vectors'  = WithoutOf(vectors, retired)
  /\ failures' = WithoutOf(failures, retired)
  /\ UNCHANGED <<active, run>>

(* PersonalStore::reset_replica_for_reenrollment.                          *)
ResetReplica ==
  /\ DropReplica
  /\ Discard(ReplicaOnly)
  /\ UNCHANGED <<active, run>>

(* Mutant: rows already queued keep the profile they were queued for.      *)
SetProfileKeepsRows(p) ==
  /\ active' = p
  /\ queue'  = IF p = active THEN queue ELSE Enqueued(queue, Live, p)
  /\ UNCHANGED <<recordVars, vectors, failures, run>>

(* PersonalStore::set_embedding_profile.  A change of profile queues every *)
(* live record for the new one and re-labels rows already queued; the      *)
(* profile already active is left as it is.                                *)
SetProfile(p) ==
  /\ active' = p
  /\ queue'  = IF p = active THEN queue
               ELSE Without(queue, Live) \cup (Live \X {p})
  /\ UNCHANGED <<recordVars, vectors, failures, run>>

---------------------------------------------------------------------------
(* A worker run: PersonalStore::rebuild_embeddings.                        *)

(* The run is for the active profile or is refused.                        *)
Start(w) ==
  /\ run[w] = Idle
  /\ active # NoProfile
  /\ run' = [run EXCEPT ![w] = [phase |-> "loading", profile |-> active, batch |-> {}]]
  /\ UNCHANGED <<recordVars, active, tableVars>>

Eligible(p) == {r \in Live : <<r, p>> \in queue}

(* Mutant: a batch is taken off the queue when it is read.                 *)
LoadDequeues(w) ==
  LET p == run[w].profile
  IN  /\ run[w].phase = "loading"
      /\ \E batch \in SUBSET Eligible(p) :
           /\ Cardinality(batch) <= Limit
           /\ Cardinality(batch) = Limit \/ batch = Eligible(p)
           /\ queue' = queue \ (batch \X {p})
           /\ run' = [run EXCEPT ![w] =
                        IF batch = {} THEN Idle
                        ELSE [phase |-> "embedding", profile |-> p, batch |-> batch]]
      /\ UNCHANGED <<recordVars, active, vectors, failures>>

(* The batch is read later than the profile.                               *)
Load(w) ==
  LET p == run[w].profile
  IN  /\ run[w].phase = "loading"
      /\ \E batch \in SUBSET Eligible(p) :
           /\ Cardinality(batch) <= Limit
           /\ Cardinality(batch) = Limit \/ batch = Eligible(p)
           /\ run' = [run EXCEPT ![w] =
                        IF batch = {} THEN Idle
                        ELSE [phase |-> "embedding", profile |-> p, batch |-> batch]]
      /\ UNCHANGED <<recordVars, active, tableVars>>

(* The run goes on with the rest of its batch.                             *)
Proceed(w, r) ==
  LET rest == run[w].batch \ {r}
  IN  run' = [run EXCEPT ![w] = IF rest = {} THEN Idle
                                ELSE [run[w] EXCEPT !.batch = rest]]

(* Mutant: a commit takes the record off the queue whatever it is queued   *)
(* for.                                                                    *)
DequeuedAnyProfile(p, r) == Without(queue, {r})

(* What a commit takes off the queue: the row of this record and of the    *)
(* profile the run read.                                                   *)
Dequeued(p, r) == queue \ {<<r, p>>}

(* A vector is committed.  Nothing looks at the record again since the     *)
(* batch was read; only the foreign key does.                              *)
StoreVector(w, r) ==
  LET p == run[w].profile
  IN  /\ run[w].phase = "embedding"
      /\ r \in run[w].batch
      /\ r \in known
      /\ vectors'  = vectors \cup {<<p, r>>}
      /\ failures' = failures \ {<<p, r>>}
      /\ queue'    = Dequeued(p, r)
      /\ Proceed(w, r)
      /\ UNCHANGED <<recordVars, active>>

(* The endpoint rejects the record as too large: it never will accept it.  *)
RecordFailure(w, r) ==
  LET p == run[w].profile
  IN  /\ run[w].phase = "embedding"
      /\ r \in run[w].batch
      /\ r \in known
      /\ failures' = failures \cup {<<p, r>>}
      /\ queue'    = Dequeued(p, r)
      /\ Proceed(w, r)
      /\ UNCHANGED <<recordVars, active, vectors>>

(* The record was deleted since: the foreign key fails the commit and the  *)
(* run.                                                                    *)
RowRefused(w, r) ==
  /\ run[w].phase = "embedding"
  /\ r \in run[w].batch
  /\ r \notin known
  /\ run' = [run EXCEPT ![w] = Idle]
  /\ UNCHANGED <<recordVars, active, tableVars>>

(* The endpoint fails, answers an invalid vector, or the run is killed:    *)
(* what is not committed stays queued.                                     *)
RunFails(w) ==
  /\ run[w].phase # "idle"
  /\ run' = [run EXCEPT ![w] = Idle]
  /\ UNCHANGED <<recordVars, active, tableVars>>

---------------------------------------------------------------------------
Derive(w, r) == StoreVector(w, r) \/ RecordFailure(w, r)

Next ==
  \/ \E r \in Record : Capture(r) \/ Forget(r)
  \/ \E arriving \in SUBSET Record : \E retired \in SUBSET arriving :
       Import(arriving, retired)
  \/ ResetReplica
  \/ \E p \in Profile : SetProfile(p)
  \/ \E w \in Worker : \/ Start(w)
                       \/ Load(w)
                       \/ RunFails(w)
                       \/ \E r \in Record : Derive(w, r) \/ RowRefused(w, r)

Spec == Init /\ [][Next]_vars

(* The timer keeps starting runs, and a run that is not killed goes on.    *)
(* The endpoint may fail any number of times, but a record that is         *)
(* submitted again and again is answered some time.                        *)
FairSpec ==
  /\ Spec
  /\ \A w \in Worker :
       /\ WF_vars(Start(w))
       /\ SF_vars(Load(w))
       /\ WF_vars(\E r \in Record : RowRefused(w, r))
  /\ \A r \in Record : SF_vars(\E w \in Worker : Derive(w, r))

---------------------------------------------------------------------------
(* Properties.                                                             *)

TypeOK ==
  /\ RecordTypeOK
  /\ active \in Profile \cup {NoProfile}
  /\ queue \subseteq known \X (Profile \cup {NoProfile})
  /\ vectors \subseteq Profile \X known
  /\ failures \subseteq Profile \X known
  /\ run \in [Worker -> Run]

Derived(p, r) == <<p, r>> \in vectors \cup failures

(* A live record is queued under the active profile or is done with.       *)
LiveAccounted ==
  active # NoProfile => \A r \in Live : <<r, active>> \in queue \/ Derived(active, r)

(* A live record is queued for no profile but the active one.              *)
QueueFollowsProfile == \A q \in queue : q[1] \in Live => q[2] = active

\* No live record is ever lost to derivation: under the active profile it is
\* queued, or has its vector or its terminal failure, and no row of another
\* profile hides it from every run, whichever way captures, imports, rotations
\* and overlapping runs interleave.  The run that commits after a rotation, and
\* INSERT OR IGNORE on a row queued for an older profile, are what could break
\* it.
NoneLost == LiveAccounted /\ QueueFollowsProfile

\* Every live record eventually has, under the profile that stays active, a
\* vector or a terminal failure, although runs fail at any point.
EventuallyDerived ==
  \A p \in Profile, r \in Record :
    active = p /\ r \in Live ~> Derived(p, r) \/ active # p \/ r \notin Live

\* A forgotten record has no vector: forgetting removes what was derived from
\* its text.
ForgottenHaveNoVector == \A r \in tombstoned, p \in Profile : <<p, r>> \notin vectors
=============================================================================
