---------------------- MODULE PersonalEmbeddings_proofs ----------------------
(***************************************************************************)
(* Safety of the derivation of vectors, for any number of records,         *)
(* profiles and overlapping runs.  Neither half of NoneLost is inductive   *)
(* without the other: a row of an older profile would keep a record from   *)
(* being queued for the active one, and StoreVector may dequeue a row only *)
(* because it derives what the row asks for.                               *)
(***************************************************************************)
EXTENDS PersonalEmbeddings, TLAPS

(* A run that goes on is still a run for the profile it read.              *)
LEMMA ProceedType ==
  ASSUME run \in [Worker -> Run], NEW w \in Worker, NEW r \in Record,
         run[w].phase = "embedding", Proceed(w, r)
  PROVE  run[w].profile \in Profile /\ run' \in [Worker -> Run]
<1>1. run[w] \in [phase : {"loading", "embedding"}, profile : Profile,
                  batch : SUBSET Record]
  <2>1. run[w] \in Run /\ run[w] # Idle
    BY DEF Idle
  <2>2. QED
    BY <2>1 DEF Run
<1>2. [run[w] EXCEPT !.batch = run[w].batch \ {r}]
        \in [phase : {"loading", "embedding"}, profile : Profile,
            batch : SUBSET Record]
  BY <1>1
<1>3. [run[w] EXCEPT !.batch = run[w].batch \ {r}] \in Run
  BY <1>2 DEF Run
<1>4. QED
  BY <1>1, <1>3 DEF Proceed, Run

\* The tables keep their types and their foreign keys: no queue row, vector
\* or failure outlives its record (embeddings.rs, the schema's ON DELETE).
THEOREM TypeCorrect == Spec => []TypeOK
<1>1. Init => TypeOK
  BY DEF Init, RecordInit, TypeOK, RecordTypeOK, Run, Idle
<1>2. TypeOK /\ [Next]_vars => TypeOK'
  <2> SUFFICES ASSUME TypeOK, [Next]_vars
               PROVE  TypeOK'
    OBVIOUS
  <2> USE DEF TypeOK, RecordTypeOK, recordVars, tableVars, Without, WithoutOf
  <2>1. ASSUME NEW r \in Record, Capture(r)
        PROVE  TypeOK'
    BY <2>1 DEF Capture, CaptureRecord, Enqueued
  <2>2. ASSUME NEW r \in Record, Forget(r)
        PROVE  TypeOK'
    BY <2>2 DEF Forget, ForgetRecord, Discard, Live
  <2>3. ASSUME NEW arriving \in SUBSET Record, NEW retired \in SUBSET arriving,
               Import(arriving, retired)
        PROVE  TypeOK'
    BY <2>3 DEF Import, MergeRecords, Enqueued
  <2>4. CASE ResetReplica
    BY <2>4 DEF ResetReplica, DropReplica, ReplicaOnly, Discard
  <2>5. ASSUME NEW p \in Profile, SetProfile(p)
        PROVE  TypeOK'
    BY <2>5 DEF SetProfile, Live
  <2>6. ASSUME NEW w \in Worker, Start(w)
        PROVE  TypeOK'
    BY <2>6 DEF Start, Run
  <2>7. ASSUME NEW w \in Worker, Load(w)
        PROVE  TypeOK'
    <3>1. run[w] \in Run /\ run[w].profile \in Profile
      BY <2>7 DEF Load, Run, Idle
    <3>2. PICK batch \in SUBSET Eligible(run[w].profile) :
            run' = [run EXCEPT ![w] =
                      IF batch = {} THEN Idle
                      ELSE [phase |-> "embedding", profile |-> run[w].profile,
                            batch |-> batch]]
      BY <2>7 DEF Load
    <3>3. batch \subseteq Record
      BY <3>2 DEF Eligible, Live
    <3>4. run' \in [Worker -> Run]
      BY <3>1, <3>2, <3>3 DEF Run
    <3>5. QED
      BY <2>7, <3>4 DEF Load
  <2>8. ASSUME NEW w \in Worker, RunFails(w)
        PROVE  TypeOK'
    BY <2>8 DEF RunFails, Run
  <2>9. ASSUME NEW w \in Worker, NEW r \in Record, StoreVector(w, r)
         PROVE  TypeOK'
    <3>1. Proceed(w, r) /\ run[w].phase = "embedding"
      BY <2>9 DEF StoreVector
    <3>2. run[w].profile \in Profile /\ run' \in [Worker -> Run]
      BY <3>1, ProceedType
    <3>3. QED
      BY <2>9, <3>2 DEF StoreVector, Dequeued
  <2>10. ASSUME NEW w \in Worker, NEW r \in Record, RecordFailure(w, r)
         PROVE  TypeOK'
    <3>1. Proceed(w, r) /\ run[w].phase = "embedding"
      BY <2>10 DEF RecordFailure
    <3>2. run[w].profile \in Profile /\ run' \in [Worker -> Run]
      BY <3>1, ProceedType
    <3>3. QED
      BY <2>10, <3>2 DEF RecordFailure, Dequeued
  <2>11. ASSUME NEW w \in Worker, NEW r \in Record, RowRefused(w, r)
         PROVE  TypeOK'
    BY <2>11 DEF RowRefused, Run
  <2>12. CASE UNCHANGED vars
    BY <2>12 DEF vars
  <2>13. QED
    BY <2>1, <2>2, <2>3, <2>4, <2>5, <2>6, <2>7, <2>8, <2>9, <2>10, <2>11, <2>12
       DEF Next, Derive
<1>3. QED
  BY <1>1, <1>2, PTL DEF Spec

(* Queueing records for the active profile loses none and hides none.      *)
LEMMA EnqueuedKeeps ==
  ASSUME NEW q, NEW R
  PROVE  /\ \A row \in Enqueued(q, R, active) : row \in q \/ (row[1] \in R /\ row[2] = active)
         /\ \A r \in R : <<r, active>> \in Enqueued(q, R, active) \/ \E row \in q : row[1] = r
         /\ q \subseteq Enqueued(q, R, active)
BY DEF Enqueued

(* The operations of the store.                                            *)
LEMMA StoreLosesNone ==
  ASSUME TypeOK, NoneLost,
         \/ \E r \in Record : Capture(r) \/ Forget(r)
         \/ \E arriving \in SUBSET Record : \E retired \in SUBSET arriving :
              Import(arriving, retired)
         \/ ResetReplica
         \/ \E p \in Profile : SetProfile(p)
  PROVE  NoneLost'
<1> USE DEF TypeOK, RecordTypeOK, NoneLost, QueueFollowsProfile, LiveAccounted, Derived,
        Live, Without, WithoutOf
<1>1. ASSUME NEW r \in Record, Capture(r)
      PROVE  NoneLost'
  BY <1>1, EnqueuedKeeps DEF Capture, CaptureRecord
<1>2. ASSUME NEW r \in Record, Forget(r)
      PROVE  NoneLost'
  BY <1>2 DEF Forget, ForgetRecord, Discard
<1>3. ASSUME NEW arriving \in SUBSET Record, NEW retired \in SUBSET arriving,
             Import(arriving, retired)
      PROVE  NoneLost'
  BY <1>3, EnqueuedKeeps DEF Import, MergeRecords
<1>4. CASE ResetReplica
  BY <1>4 DEF ResetReplica, DropReplica, Discard
<1>5. ASSUME NEW p \in Profile, SetProfile(p)
      PROVE  NoneLost'
  BY <1>5 DEF SetProfile, recordVars
<1>6. QED
  BY <1>1, <1>2, <1>3, <1>4, <1>5

(* The commits of the runs.                                                *)
LEMMA DeriveLosesNone ==
  ASSUME TypeOK, NoneLost, NEW w \in Worker, NEW r \in Record, Derive(w, r)
  PROVE  NoneLost'
<1>0. PICK p : p = run[w].profile
  OBVIOUS
<1>1. /\ UNCHANGED <<known, tombstoned, active>>
      /\ queue' = queue \ {<<r, p>>}
  BY <1>0 DEF Derive, StoreVector, RecordFailure, Dequeued, recordVars
<1>2. Derived(p, r)' /\ \A x \in Record, a \in Profile : Derived(a, x) => Derived(a, x)'
  BY <1>0 DEF Derive, StoreVector, RecordFailure, Derived
<1>3. QueueFollowsProfile'
  BY <1>1 DEF NoneLost, QueueFollowsProfile, Live
<1>4. LiveAccounted'
  <2> SUFFICES ASSUME active # NoProfile, NEW x \in Live
               PROVE  <<x, active>> \in queue' \/ Derived(active, x)'
    BY <1>1 DEF LiveAccounted, Live, Derived
  <2>1. <<x, active>> \in queue \/ Derived(active, x)
    BY DEF NoneLost, LiveAccounted
  <2>2. x \in Record /\ active \in Profile
    BY DEF TypeOK, RecordTypeOK, Live
  <2>3. QED
    BY <1>1, <1>2, <2>1, <2>2
<1>5. QED
  BY <1>3, <1>4 DEF NoneLost

\* No live record is lost to derivation, and none hides behind an older
\* profile: embeddings.rs, persist_embedding's delete by record and profile,
\* and set_embedding_profile's re-labelling.
THEOREM NothingLost == Spec => []NoneLost
<1>1. Init => NoneLost
  BY DEF Init, RecordInit, NoneLost, LiveAccounted, QueueFollowsProfile, Live
<1>2. TypeOK /\ NoneLost /\ [Next]_vars => NoneLost'
  <2> SUFFICES ASSUME TypeOK, NoneLost, [Next]_vars
               PROVE  NoneLost'
    OBVIOUS
  <2>1. ASSUME NEW w \in Worker, Start(w) \/ Load(w) \/ RunFails(w)
        PROVE  UNCHANGED <<recordVars, active, tableVars>>
    BY <2>1 DEF Start, Load, RunFails
  <2>2. ASSUME NEW w \in Worker, NEW r \in Record, RowRefused(w, r)
        PROVE  UNCHANGED <<recordVars, active, tableVars>>
    BY <2>2 DEF RowRefused
  <2>3. CASE UNCHANGED <<recordVars, active, tableVars>>
    BY <2>3 DEF recordVars, tableVars, NoneLost, LiveAccounted, QueueFollowsProfile,
                Live, Derived
  <2>4. CASE UNCHANGED vars
    BY <2>3, <2>4 DEF vars
  <2>5. QED
    BY <2>1, <2>2, <2>3, <2>4, StoreLosesNone, DeriveLosesNone DEF Next
<1>3. QED
  BY TypeCorrect, <1>1, <1>2, PTL DEF Spec
=============================================================================
