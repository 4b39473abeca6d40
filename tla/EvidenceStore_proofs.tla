----------------------- MODULE EvidenceStore_proofs -----------------------
(***************************************************************************)
(* Theorems about EvidenceStore, for every set of records, documents and   *)
(* processes and every bound.                                              *)
(***************************************************************************)
EXTENDS EvidenceStore, TLAPS

\* What the first statement of a write and a document do to the sequences:
\* a stored record keeps its own, a new one gets one above all.
LEMMA NumberingKeeps ==
  ASSUME TypeOK, NEW R \in SUBSET Record, NEW f \in Numberings(R)
  PROVE  /\ f \in [Record -> Seq0]
         /\ \A r \in Stored : f[r] = recordedSeq[r]
         /\ \A r \in R : f[r] > 0
         /\ \A r \in Record \ Stored :
              f[r] = 0 \/ \A s \in Record : f[r] > recordedSeq[s]
<1>1. /\ f \in [Record -> Seq0]
      /\ \A r \in Record \ (R \ Stored) : f[r] = recordedSeq[r]
      /\ \A r \in R \ Stored, s \in Record : f[r] > recordedSeq[s]
  <2>1. PICK g \in Fresh(R \ Stored) : f = Renumbered(R \ Stored, g)
    BY DEF Numberings
  <2>2. g \in [R \ Stored -> Seq0] /\ recordedSeq \in [Record -> Seq0] /\ R \ Stored \subseteq Record
    BY <2>1 DEF Fresh, TypeOK
  <2>3. QED
    BY <2>1, <2>2 DEF Fresh, Renumbered
<1>2. \A r \in Record : recordedSeq[r] \in Nat /\ (r \in Stored <=> recordedSeq[r] > 0)
  BY BoundsAreNaturals DEF TypeOK, Seq0, Stored
<1>3. \A r \in Record : f[r] \in Nat
  BY <1>1, BoundsAreNaturals DEF Seq0
<1>4. QED
  BY <1>1, <1>2, <1>3 DEF Stored

\* A retirement sequence is a sequence of the store and above none of them.
LEMMA RetirementSeq ==
  ASSUME NEW f \in [Record -> Seq0], NEW n \in 0..MaxSeq + 1, IsRetirementSeq(n, f)
  PROVE  /\ n \in Seq0
         /\ \A r \in Record : f[r] <= n
         /\ n = 0 \/ \E r \in Record : f[r] = n
  BY BoundsAreNaturals DEF IsRetirementSeq, IsWatermark, Seq0

LEMMA RecordedWhenType ==
  ASSUME TypeOK, NEW R, NEW t \in 0..MaxTime
  PROVE  RecordedWhen(R, t) \in [Record -> 0..MaxTime]
  BY DEF TypeOK, RecordedWhen

LEMMA InstantsType ==
  ASSUME TypeOK
  PROVE  PassedInstants \subseteq 0..MaxTime
  BY BoundsAreNaturals DEF TypeOK, PassedInstants

LEMMA CallTypes ==
  ASSUME TypeOK, NEW c \in Connection
  PROVE  /\ call[c] \in Call
         /\ call[c].step = "linking" => /\ call[c].record \in Record
                                        /\ call[c].left \in SUBSET Observation
         /\ call[c].step = "retiring" => /\ call[c].retired \in Record
                                         /\ call[c].replacement \in Record
                                         /\ call[c].retired # call[c].replacement
                                         /\ call[c].mark \in Seq0
         /\ call[c].step = "edging" => /\ call[c].retired \in Record
                                       /\ call[c].replacement \in Record
                                       /\ call[c].retired # call[c].replacement
  BY DEF TypeOK, Call, Idle, Linking, Retiring, Edging

LEMMA DocumentType ==
  ASSUME NEW d \in Document
  PROVE  /\ \A r \in RetiredIn(d) : /\ r \in d.claims
                                    /\ ReplacementIn(d, r) \in d.claims
                                    /\ ReplacementIn(d, r) # r
                                    /\ <<r, ReplacementIn(d, r)>> \in d.retires
         /\ {SupersedesEdge(p[1], p[2]) : p \in d.retires} \subseteq Edge
<1>1. \A r \in RetiredIn(d) : \E p \in d.retires : p[1] = r
  BY DEF RetiredIn
<1>2. ASSUME NEW r \in RetiredIn(d)
      PROVE  \E p \in d.retires : p[1] = r /\ p[2] = ReplacementIn(d, r)
  BY <1>1 DEF ReplacementIn
<1>3. \A p \in d.retires : /\ p = <<p[1], p[2]>> /\ p[1] # p[2]
                           /\ p[1] \in d.claims /\ p[2] \in d.claims
  BY DocumentsAreClosed
<1>4. d.claims \subseteq Record
  BY DocumentsAreClosed
<1>5. QED
  BY <1>2, <1>3, <1>4 DEF SupersedesEdge, Edge, EdgeKind

---------------------------------------------------------------------------
LEMMA InitType == Init => TypeOK
  BY BoundsAreNaturals DEF Init, TypeOK, Seq0, Call, Idle

LEMMA PutMemoryType ==
  ASSUME TypeOK, NEW c \in Connection, NEW r \in Record, NEW t \in PassedInstants,
         PutMemory(c, r, t)
  PROVE  TypeOK'
<1>1. recordedSeq' \in [Record -> Seq0]
  BY NumberingKeeps DEF PutMemory
<1>2. recordedAt' \in [Record -> 0..MaxTime]
  BY RecordedWhenType, InstantsType DEF PutMemory
<1>3. Support[r] \in SUBSET Observation
  BY SupportIsSealed
<1>4. call' \in [Connection -> Call] /\ answered' \subseteq Record
  BY <1>3 DEF PutMemory, LinkNext, LeftToLink, TypeOK, Call, Linking, Idle
<1>5. QED
  BY <1>1, <1>2, <1>4 DEF PutMemory, TypeOK, retirementVars, evidenceVars

LEMMA IngestType ==
  ASSUME TypeOK, NEW c \in Operator, NEW d \in Document, NEW t \in PassedInstants \ {0},
         Ingest(c, d, t)
  PROVE  TypeOK'
<1>0. /\ d.claims \subseteq Record /\ d.observations \subseteq Observation
      /\ d.edges \subseteq Edge
      /\ \A r \in d.claims : Support[r] \subseteq Observation
  BY DocumentsAreClosed
<1>1. recordedSeq' \in [Record -> Seq0]
  BY <1>0, NumberingKeeps DEF Ingest
<1>2. recordedAt' \in [Record -> 0..MaxTime]
  BY RecordedWhenType, InstantsType DEF Ingest
<1>3. supersededBy' \in [Record -> Record \cup {NoRecord}]
  BY <1>0, DocumentType DEF Ingest, TypeOK
<1>4. supersededSeq' \in [Record -> Seq0]
  BY <1>1, RetirementSeq DEF Ingest, TypeOK
<1>5. edges' \subseteq Edge
  BY <1>0, DocumentType DEF Ingest, TypeOK
<1>6. observations' \subseteq Observation /\ linked' \subseteq Record \X Observation
  BY <1>0 DEF Ingest, TypeOK
<1>7. answered' \subseteq Record
  BY <1>0 DEF Ingest, TypeOK
<1>8. QED
  BY <1>1, <1>2, <1>3, <1>4, <1>5, <1>6, <1>7 DEF Ingest, TypeOK

\* The shape of the state is kept by every step.
LEMMA TypeStep == TypeOK /\ [Next]_vars => TypeOK'
<1> SUFFICES ASSUME TypeOK, [Next]_vars
             PROVE  TypeOK'
  OBVIOUS
<1>1. ASSUME NEW c \in Connection, NEW r \in Record, NEW t \in PassedInstants,
             PutMemory(c, r, t)
      PROVE  TypeOK'
  BY <1>1, PutMemoryType
<1>2. ASSUME NEW c \in Connection, NEW o \in Observation, LinkObservation(c, o)
      PROVE  TypeOK'
  <2>1. call[c].record \in Record /\ call[c].left \in SUBSET Observation
    BY <1>2, CallTypes DEF LinkObservation
  <2>2. call' \in [Connection -> Call] /\ answered' \subseteq Record
    BY <1>2, <2>1 DEF LinkObservation, LinkNext, TypeOK, Call, Linking, Idle
  <2>3. linked' \subseteq Record \X Observation
    BY <1>2, <2>1 DEF LinkObservation, TypeOK
  <2>4. QED
    BY <1>2, <2>2, <2>3 DEF LinkObservation, TypeOK, memoryVars, retirementVars
<1>3. ASSUME NEW c \in Connection, PutMemoryFails(c) \/ Die(c)
      PROVE  TypeOK'
  BY <1>3 DEF PutMemoryFails, Die, TypeOK, memoryVars, retirementVars, evidenceVars,
              worldVars, Call
<1>4. ASSUME NEW c \in Operator, NEW r \in Record, NEW s \in Record, Supersede(c, r, s)
      PROVE  TypeOK'
  <2>1. PICK n \in 0..MaxSeq + 1 :
          /\ IsRetirementSeq(n, recordedSeq)
          /\ call' = [call EXCEPT ![c] = [step |-> "retiring", retired |-> r,
                                         replacement |-> s, mark |-> n]]
    BY <1>4 DEF Supersede
  <2>2. n \in Seq0
    BY <2>1, RetirementSeq DEF TypeOK
  <2>3. call' \in [Connection -> Call]
    <3>1. r # s
      BY <1>4 DEF Supersede
    <3>2. [step |-> "retiring", retired |-> r, replacement |-> s, mark |-> n] \in Retiring
      BY <2>2, <3>1 DEF Retiring
    <3>3. QED
      BY <2>1, <3>2 DEF TypeOK, Call
  <2>4. supersedes' \in 0..MaxSupersedes
    BY <1>4, BoundsAreNaturals DEF Supersede, TypeOK
  <2>5. QED
    BY <1>4, <2>3, <2>4 DEF Supersede, TypeOK, memoryVars, retirementVars, evidenceVars
<1>5. ASSUME NEW c \in Operator, Retire(c)
      PROVE  TypeOK'
  <2>1. /\ call[c].retired \in Record /\ call[c].replacement \in Record
        /\ call[c].retired # call[c].replacement
        /\ call[c].mark \in Seq0
    BY <1>5, CallTypes DEF Retire, Connection
  <2>2. [step |-> "edging", retired |-> call[c].retired,
         replacement |-> call[c].replacement] \in Edging
    BY <2>1 DEF Edging
  <2>3. call' \in [Connection -> Call]
    BY <1>5, <2>2 DEF Retire, TypeOK, Call
  <2>4. /\ supersededBy' \in [Record -> Record \cup {NoRecord}]
        /\ supersededSeq' \in [Record -> Seq0]
    BY <1>5, <2>1 DEF Retire, TypeOK
  <2>5. QED
    BY <1>5, <2>3, <2>4 DEF Retire, TypeOK, evidenceVars, worldVars
<1>6. ASSUME NEW c \in Operator, InsertSupersedesEdge(c)
      PROVE  TypeOK'
  <2>1. /\ call[c].retired \in Record /\ call[c].replacement \in Record
        /\ call[c].retired # call[c].replacement
    BY <1>6, CallTypes DEF InsertSupersedesEdge, Connection
  <2>2. edges' \subseteq Edge
    BY <1>6, <2>1 DEF InsertSupersedesEdge, SupersedesEdge, TypeOK, Edge, EdgeKind
  <2>3. call' \in [Connection -> Call]
    BY <1>6 DEF InsertSupersedesEdge, TypeOK, Call
  <2>4. QED
    BY <1>6, <2>2, <2>3 DEF InsertSupersedesEdge, TypeOK, memoryVars, retirementVars,
                      evidenceVars, worldVars
<1>7. ASSUME NEW c \in Operator, NEW d \in Document, NEW t \in PassedInstants \ {0},
             Ingest(c, d, t)
      PROVE  TypeOK'
  BY <1>7, IngestType
<1>8. ASSUME NEW c \in Agent, NEW p \in Contradictory, FlagContradiction(c, p[1], p[2])
      PROVE  TypeOK'
  <2>1. p[1] \in Record /\ p[2] \in Record
    BY ContradictoryPairs
  <2>2. edges' \subseteq Edge
    BY <1>8, <2>1 DEF FlagContradiction, TypeOK, Edge, EdgeKind
  <2>3. QED
    BY <1>8, <2>2 DEF FlagContradiction, TypeOK, memoryVars, retirementVars, evidenceVars,
                      worldVars
<1>9. ASSUME NEW o \in Observation, PutObservation(o)
      PROVE  TypeOK'
  BY <1>9 DEF PutObservation, TypeOK, memoryVars, retirementVars, worldVars
<1>10. CASE Tick
  BY <1>10, BoundsAreNaturals DEF Tick, TypeOK, memoryVars, retirementVars, evidenceVars
<1>11. CASE UNCHANGED vars
  BY <1>11 DEF vars, TypeOK, memoryVars, retirementVars, evidenceVars, worldVars
<1>12. QED
  BY <1>1, <1>2, <1>3, <1>4, <1>5, <1>6, <1>7, <1>8, <1>9, <1>10, <1>11
     DEF Next, Remembering, Operating

\* Every reachable state has the declared shape: each row of the store and
\* each call in progress.
THEOREM TypeCorrect == Spec => []TypeOK
  BY InitType, TypeStep, PTL DEF Spec

---------------------------------------------------------------------------
(* The inductive invariant.                                                *)

(* What a call has found out stays so between its statements.              *)
CallInOrder(c) ==
  /\ call[c].step = "linking" =>
       {call[c].record} \X (Support[call[c].record] \ call[c].left) \subseteq linked
  /\ call[c].step = "retiring" =>
       /\ {call[c].retired, call[c].replacement} \subseteq Stored
       /\ recordedSeq[call[c].retired] <= call[c].mark
       /\ recordedSeq[call[c].replacement] <= call[c].mark
       /\ \E s \in Record : call[c].mark <= recordedSeq[s]
  /\ call[c].step = "edging" =>
       {call[c].retired, call[c].replacement} \subseteq Stored

(* A retired claim has a sequence of the time both claims were stored.     *)
RetirementInOrder(r) ==
  /\ supersededBy[r] = NoRecord => supersededSeq[r] = 0
  /\ supersededBy[r] # NoRecord =>
       /\ {r, supersededBy[r]} \subseteq Stored
       /\ recordedSeq[r] <= supersededSeq[r]
       /\ recordedSeq[supersededBy[r]] <= supersededSeq[r]
       /\ \E s \in Record : supersededSeq[r] <= recordedSeq[s]

Inv ==
  /\ TypeOK
  /\ \A c \in Connection : CallInOrder(c)
  /\ \A r \in Record : RetirementInOrder(r)
  /\ EdgesResolve
  /\ AnsweredLinked
  /\ RetiredHaveEdge

LEMMA InitInv == Init => Inv
<1> SUFFICES ASSUME Init PROVE Inv
  OBVIOUS
<1>1. \A c \in Connection : call[c] = [step |-> "idle"]
  BY DEF Init, Idle
<1>2. \A c \in Connection : CallInOrder(c)
  BY <1>1 DEF CallInOrder
<1>3. \A r \in Record : RetirementInOrder(r)
  BY DEF Init, RetirementInOrder
<1>4. QED
  BY <1>2, <1>3, InitType
     DEF Init, Inv, EdgesResolve, AnsweredLinked, RetiredHaveEdge

\* A step never takes a row away, nor changes the sequence of a stored record;
\* a new record is numbered above all.
LEMMA StepKeeps ==
  ASSUME TypeOK, [Next]_vars
  PROVE  /\ Stored \subseteq Stored'
         /\ \A r \in Stored : recordedSeq'[r] = recordedSeq[r]
         /\ \A r \in Record : recordedSeq'[r] \in Nat /\ recordedSeq[r] \in Nat
         /\ \A r \in Record : recordedSeq[r] <= recordedSeq'[r]
         /\ \A r \in Record \ Stored :
              recordedSeq'[r] = 0 \/ \A s \in Record : recordedSeq'[r] > recordedSeq[s]
         /\ edges \subseteq edges' /\ linked \subseteq linked'
<1>1. \/ \E R \in SUBSET Record : recordedSeq' \in Numberings(R)
      \/ UNCHANGED recordedSeq
  BY DocumentsAreClosed
     DEF Next, Remembering, Operating, PutMemory, LinkObservation, PutMemoryFails, Die,
         Supersede, Retire, InsertSupersedesEdge, Ingest, FlagContradiction,
         PutObservation, Tick, vars, memoryVars
<1>2. edges \subseteq edges' /\ linked \subseteq linked'
  BY DEF Next, Remembering, Operating, PutMemory, LinkObservation, PutMemoryFails, Die,
         Supersede, Retire, InsertSupersedesEdge, Ingest, FlagContradiction,
         PutObservation, Tick, vars, evidenceVars
<1>3. \A r \in Record : recordedSeq[r] \in Nat
  BY BoundsAreNaturals DEF TypeOK, Seq0
<1>4. \A r \in Record \ Stored : recordedSeq[r] = 0
  BY <1>3 DEF Stored
<1>5. CASE UNCHANGED recordedSeq
  BY <1>2, <1>3, <1>4, <1>5 DEF Stored
<1>6. ASSUME NEW R \in SUBSET Record, recordedSeq' \in Numberings(R)
      PROVE  /\ recordedSeq' \in [Record -> Seq0]
             /\ \A r \in Stored : recordedSeq'[r] = recordedSeq[r]
             /\ \A r \in Record \ Stored :
                  recordedSeq'[r] = 0 \/ \A s \in Record : recordedSeq'[r] > recordedSeq[s]
  BY <1>6, NumberingKeeps
<1>7. CASE \E R \in SUBSET Record : recordedSeq' \in Numberings(R)
  <2>1. \A r \in Record : recordedSeq'[r] \in Nat
    BY <1>6, <1>7, BoundsAreNaturals DEF Seq0
  <2>2. \A r \in Stored : recordedSeq'[r] = recordedSeq[r]
    BY <1>6, <1>7
  <2>3. QED
    BY <1>2, <1>3, <1>4, <1>6, <1>7, <2>1, <2>2 DEF Stored
<1>8. QED
  BY <1>1, <1>5, <1>7

\* What a process has found out survives the steps of the others.
LEMMA CallKept ==
  ASSUME TypeOK, [Next]_vars, NEW c \in Connection, CallInOrder(c), call'[c] = call[c]
  PROVE  CallInOrder(c)'
<1>1. call[c].step = "linking" => CallInOrder(c)'
  BY StepKeeps DEF CallInOrder
<1>2. call[c].step = "edging" => CallInOrder(c)'
  BY StepKeeps DEF CallInOrder
<1>3. ASSUME call[c].step = "retiring"
      PROVE  CallInOrder(c)'
  <2>1. call[c].mark \in Nat
    BY <1>3, CallTypes, BoundsAreNaturals DEF Seq0
  <2>2. PICK s \in Record : call[c].mark <= recordedSeq[s]
    BY <1>3 DEF CallInOrder
  <2>3. call[c].mark <= recordedSeq'[s]
    BY <2>1, <2>2, StepKeeps
  <2>4. QED
    BY <1>3, <2>3, StepKeeps DEF CallInOrder
<1>4. QED
  BY <1>1, <1>2, <1>3 DEF CallInOrder

\* A retirement that a step does not touch stays in order.
LEMMA RetirementKept ==
  ASSUME TypeOK, [Next]_vars, NEW r \in Record, RetirementInOrder(r),
         supersededBy'[r] = supersededBy[r], supersededSeq'[r] = supersededSeq[r]
  PROVE  RetirementInOrder(r)'
<1>1. CASE supersededBy[r] = NoRecord
  BY <1>1 DEF RetirementInOrder
<1>2. CASE supersededBy[r] # NoRecord
  <2>1. supersededSeq[r] \in Nat
    BY BoundsAreNaturals DEF TypeOK, Seq0
  <2>2. PICK s \in Record : supersededSeq[r] <= recordedSeq[s]
    BY <1>2 DEF RetirementInOrder
  <2>3. supersededSeq[r] <= recordedSeq'[s]
    BY <2>1, <2>2, StepKeeps
  <2>4. QED
    BY <1>2, <2>3, StepKeeps DEF RetirementInOrder
<1>3. QED
  BY <1>1, <1>2

\* A step of c that retires nothing, and is not the last of a retirement, keeps
\* everything about retirements and edges.
LEMMA QuietStep ==
  ASSUME Inv, [Next]_vars, UNCHANGED <<retirementVars, edges>>,
         \A d \in Operator : call[d].step = "edging" => call'[d] = call[d]
  PROVE  /\ \A r \in Record : RetirementInOrder(r)'
         /\ EdgesResolve'
         /\ RetiredHaveEdge'
<1>1. \A r \in Record : RetirementInOrder(r)'
  BY RetirementKept DEF Inv, retirementVars
<1>2. EdgesResolve'
  BY StepKeeps DEF Inv, EdgesResolve
<1>3. RetiredHaveEdge'
  <2>1. \A d \in Operator, r \in Record :
          call[d] = [step |-> "edging", retired |-> r, replacement |-> supersededBy[r]]
            => call'[d] = call[d]
    OBVIOUS
  <2>2. QED
    BY <2>1 DEF Inv, RetiredHaveEdge, retirementVars
<1>4. QED
  BY <1>1, <1>2, <1>3

\* The last statement of a write leaves the claim with all its support.
LEMMA LinkNextInv ==
  ASSUME Inv, [Next]_vars, NEW c \in Connection, NEW r \in Record,
         NEW left \in SUBSET Observation, LinkNext(c, r, left),
         {r} \X (Support[r] \ left) \subseteq linked'
  PROVE  /\ \A d \in Connection : CallInOrder(d)'
         /\ AnsweredLinked'
<1>1. ASSUME NEW d \in Connection, d # c
      PROVE  CallInOrder(d)'
  <2>1. call'[d] = call[d]
    BY <1>1 DEF LinkNext, Inv, TypeOK
  <2>2. QED
    BY <2>1, CallKept DEF Inv
<1>2. CallInOrder(c)'
  <2>1. CASE left = {}
    <3>1. call'[c] = [step |-> "idle"]
      BY <2>1 DEF LinkNext, Inv, TypeOK, Idle
    <3>2. QED
      BY <3>1 DEF CallInOrder
  <2>2. CASE left # {}
    <3>1. call'[c] = [step |-> "linking", record |-> r, left |-> left]
      BY <2>2 DEF LinkNext, Inv, TypeOK
    <3>2. QED
      BY <3>1 DEF CallInOrder
  <2>3. QED
    BY <2>1, <2>2
<1>3. AnsweredLinked'
  <2>1. \A q \in answered : {q} \X Support[q] \subseteq linked'
    BY StepKeeps DEF Inv, AnsweredLinked
  <2>2. left = {} => {r} \X Support[r] \subseteq linked'
    OBVIOUS
  <2>3. QED
    BY <2>1, <2>2 DEF LinkNext, AnsweredLinked
<1>4. QED
  BY <1>1, <1>2, <1>3

\* The steps that only end a call, or make none.
LEMMA CallsKept ==
  ASSUME Inv, [Next]_vars, NEW c \in Connection,
         call' = [call EXCEPT ![c] = Idle] \/ UNCHANGED call
  PROVE  \A d \in Connection : CallInOrder(d)'
<1>1. \A d \in Connection : call'[d] = call[d] \/ call'[d] = [step |-> "idle"]
  BY DEF Inv, TypeOK, Idle
<1>2. ASSUME NEW d \in Connection, call'[d] = [step |-> "idle"]
      PROVE  CallInOrder(d)'
  BY <1>2 DEF CallInOrder
<1>3. QED
  BY <1>1, <1>2, CallKept DEF Inv

LEMMA AnsweredKept ==
  ASSUME Inv, [Next]_vars, UNCHANGED answered
  PROVE  AnsweredLinked'
  BY StepKeeps DEF Inv, AnsweredLinked

LEMMA RememberingInv ==
  ASSUME Inv, [Next]_vars, NEW c \in Connection, Remembering(c)
  PROVE  Inv'
<1>0. TypeOK'
  BY TypeStep DEF Inv
<1>1. ASSUME NEW r \in Record, NEW t \in PassedInstants, PutMemory(c, r, t)
      PROVE  Inv'
  <2>1. Support[r] \in SUBSET Observation
    BY SupportIsSealed
  <2>2. (\A d \in Connection : CallInOrder(d)') /\ AnsweredLinked'
    BY <1>1, <2>1, LinkNextInv DEF PutMemory, LeftToLink
  <2>3. \A d \in Operator : call[d].step = "edging" => call'[d] = call[d]
    BY <1>1 DEF PutMemory, LinkNext, Idle, Inv, TypeOK, Connection
  <2>4. UNCHANGED <<retirementVars, edges>>
    BY <1>1 DEF PutMemory
  <2>5. QED
    BY <1>0, <2>2, <2>3, <2>4, QuietStep DEF Inv
<1>2. ASSUME NEW o \in Observation, LinkObservation(c, o)
      PROVE  Inv'
  <2>1. call[c].record \in Record /\ call[c].left \in SUBSET Observation
    BY <1>2, CallTypes DEF LinkObservation, Inv
  <2>2. {call[c].record} \X (Support[call[c].record] \ (call[c].left \ {o}))
          \subseteq linked'
    BY <1>2 DEF LinkObservation, Inv, CallInOrder
  <2>3. (\A d \in Connection : CallInOrder(d)') /\ AnsweredLinked'
    BY <1>2, <2>1, <2>2, LinkNextInv DEF LinkObservation
  <2>4. \A d \in Operator : call[d].step = "edging" => call'[d] = call[d]
    BY <1>2 DEF LinkObservation, LinkNext, Inv, TypeOK, Connection
  <2>5. UNCHANGED <<retirementVars, edges>>
    BY <1>2 DEF LinkObservation, memoryVars
  <2>6. QED
    BY <1>0, <2>3, <2>4, <2>5, QuietStep DEF Inv
<1>3. CASE PutMemoryFails(c)
  <2>1. \A d \in Operator : call[d].step = "edging" => call'[d] = call[d]
    BY <1>3 DEF PutMemoryFails, Inv, TypeOK, Connection
  <2>2. /\ UNCHANGED <<retirementVars, edges, answered>>
        /\ call' = [call EXCEPT ![c] = Idle]
    BY <1>3 DEF PutMemoryFails, memoryVars, worldVars
  <2>3. QED
    BY <1>0, <2>1, <2>2, QuietStep, CallsKept, AnsweredKept DEF Inv
<1>4. QED
  BY <1>1, <1>2, <1>3 DEF Remembering

LEMMA SupersedeInv ==
  ASSUME Inv, [Next]_vars, NEW c \in Operator, NEW r \in Record, NEW s \in Record,
         Supersede(c, r, s)
  PROVE  Inv'
<1>0. TypeOK'
  BY TypeStep DEF Inv
<1>1. PICK n \in 0..MaxSeq + 1 :
        /\ IsRetirementSeq(n, recordedSeq)
        /\ call' = [call EXCEPT ![c] = [step |-> "retiring", retired |-> r,
                                       replacement |-> s, mark |-> n]]
  BY DEF Supersede
<1>2. /\ \A q \in Record : recordedSeq[q] <= n
      /\ n = 0 \/ \E q \in Record : recordedSeq[q] = n
  BY <1>1, RetirementSeq DEF Inv, TypeOK
<1>3. /\ r \in Stored /\ s \in Stored /\ call[c].step = "idle"
      /\ UNCHANGED <<recordedSeq, retirementVars, edges, answered>>
  BY DEF Supersede, memoryVars, Idle
<1>4. \E q \in Record : n <= recordedSeq[q]
  <2>1. n \in Nat /\ recordedSeq[r] \in Nat
    BY <1>1, BoundsAreNaturals DEF Inv, TypeOK, Seq0
  <2>2. CASE n = 0
    BY <2>1, <2>2
  <2>3. CASE n # 0
    BY <2>1, <2>3, <1>2
  <2>4. QED
    BY <2>2, <2>3
<1>5. CallInOrder(c)'
  <2>1. call'[c] = [step |-> "retiring", retired |-> r, replacement |-> s, mark |-> n]
    BY <1>1 DEF Inv, TypeOK, Connection
  <2>2. QED
    BY <2>1, <1>2, <1>3, <1>4 DEF CallInOrder, Stored
<1>6. \A d \in Connection \ {c} : call'[d] = call[d]
  BY <1>1 DEF Inv, TypeOK
<1>7. \A d \in Connection : CallInOrder(d)'
  BY <1>5, <1>6, CallKept DEF Inv
<1>8. \A d \in Operator : call[d].step = "edging" => call'[d] = call[d]
  BY <1>3, <1>6 DEF Connection
<1>9. QED
  BY <1>0, <1>3, <1>7, <1>8, QuietStep, AnsweredKept DEF Inv

LEMMA RetireInv ==
  ASSUME Inv, [Next]_vars, NEW c \in Operator, Retire(c)
  PROVE  Inv'
<1>0. TypeOK'
  BY TypeStep DEF Inv
<1>a. /\ call[c].retired \in Record /\ call[c].replacement \in Record
  BY CallTypes DEF Retire, Inv, Connection
<1>b. PICK retired \in Record, replacement \in Record :
        call[c].retired = retired /\ call[c].replacement = replacement
  BY <1>a
<1>1. /\ call[c].step = "retiring"
      /\ retired = call[c].retired /\ replacement = call[c].replacement
      /\ retired \in Record /\ replacement \in Record /\ call[c].mark \in Seq0
  BY <1>b, CallTypes DEF Retire, Inv, Connection
<1>2. /\ UNCHANGED <<recordedSeq, edges, answered>>
      /\ call'[c] = [step |-> "edging", retired |-> retired, replacement |-> replacement]
      /\ \A d \in Connection \ {c} : call'[d] = call[d]
  BY <1>1 DEF Retire, worldVars, Inv, TypeOK, Connection
<1>3. /\ retired \in Stored /\ replacement \in Stored
      /\ recordedSeq[retired] <= call[c].mark
      /\ recordedSeq[replacement] <= call[c].mark
      /\ \E s \in Record : call[c].mark <= recordedSeq[s]
  BY <1>1 DEF Inv, CallInOrder, Connection
<1>4. /\ supersededBy'[retired] = replacement /\ supersededSeq'[retired] = call[c].mark
      /\ \A r \in Record \ {retired} : /\ supersededBy'[r] = supersededBy[r]
                                      /\ supersededSeq'[r] = supersededSeq[r]
  BY <1>1 DEF Retire, Inv, TypeOK
<1>5. \A d \in Connection : CallInOrder(d)'
  <2>1. CallInOrder(c)'
    BY <1>2, <1>3 DEF CallInOrder, Stored
  <2>2. QED
    BY <2>1, <1>2, CallKept DEF Inv
<1>6. \A r \in Record : RetirementInOrder(r)'
  <2>1. RetirementInOrder(retired)'
    BY <1>1, <1>2, <1>3, <1>4, NoRecordIsNone DEF RetirementInOrder, Stored
  <2>2. ASSUME NEW r \in Record, r # retired
        PROVE  RetirementInOrder(r)'
    BY <2>2, <1>4, RetirementKept DEF Inv
  <2>3. QED
    BY <2>1, <2>2
<1>7. EdgesResolve'
  BY <1>2, StepKeeps DEF Inv, EdgesResolve
<1>8. RetiredHaveEdge'
  <2> SUFFICES ASSUME NEW r \in Record, supersededBy'[r] # NoRecord,
                      Mortal \cap Operator = {}
               PROVE  \/ <<supersededBy'[r], r, "supersedes">> \in edges'
                      \/ \E d \in Operator :
                           call'[d] = [step |-> "edging", retired |-> r,
                                       replacement |-> supersededBy'[r]]
    BY DEF RetiredHaveEdge
  <2>1. CASE r = retired
    BY <2>1, <1>2, <1>4
  <2>2. CASE r # retired
    <3>1. supersededBy'[r] = supersededBy[r]
      BY <2>2, <1>4
    <3>2. CASE <<supersededBy[r], r, "supersedes">> \in edges
      BY <3>1, <3>2, <1>2
    <3>3. ASSUME NEW d \in Operator,
                 call[d] = [step |-> "edging", retired |-> r,
                            replacement |-> supersededBy[r]]
          PROVE  call'[d] = call[d]
      BY <3>3, <1>1, <1>2 DEF Connection
    <3>4. QED
      BY <3>1, <3>2, <3>3 DEF Inv, RetiredHaveEdge
  <2>3. QED
    BY <2>1, <2>2
<1>9. QED
  BY <1>0, <1>2, <1>5, <1>6, <1>7, <1>8, AnsweredKept DEF Inv

LEMMA InsertSupersedesEdgeInv ==
  ASSUME Inv, [Next]_vars, NEW c \in Operator, InsertSupersedesEdge(c)
  PROVE  Inv'
<1>0. TypeOK'
  BY TypeStep DEF Inv
<1>1. /\ UNCHANGED <<retirementVars, answered>>
      /\ call' = [call EXCEPT ![c] = Idle]
      /\ edges' = edges \cup {<<call[c].replacement, call[c].retired, "supersedes">>}
  BY DEF InsertSupersedesEdge, memoryVars, worldVars, SupersedesEdge
<1>2. {call[c].retired, call[c].replacement} \subseteq Stored
  BY DEF InsertSupersedesEdge, Inv, CallInOrder, Connection
<1>3. ASSUME NEW r \in Record
      PROVE  RetirementInOrder(r)'
  <2>1. supersededBy'[r] = supersededBy[r] /\ supersededSeq'[r] = supersededSeq[r]
    BY <1>1 DEF retirementVars
  <2>2. QED
    BY <2>1, RetirementKept DEF Inv
<1>4. EdgesResolve'
  BY <1>1, <1>2, StepKeeps DEF Inv, EdgesResolve
<1>5. RetiredHaveEdge'
  <2>1. \A d \in Operator \ {c} : call'[d] = call[d]
    BY <1>1 DEF Inv, TypeOK, Connection
  <2>2. QED
    BY <1>1, <2>1 DEF Inv, RetiredHaveEdge, retirementVars
<1>6. \A d \in Connection : CallInOrder(d)'
  BY <1>1, CallsKept DEF Connection
<1>7. QED
  BY <1>0, <1>1, <1>3, <1>4, <1>5, <1>6, AnsweredKept DEF Inv

LEMMA IngestInv ==
  ASSUME Inv, [Next]_vars, NEW c \in Operator, NEW d \in Document,
         NEW t \in PassedInstants \ {0}, Ingest(c, d, t)
  PROVE  Inv'
<1>0. TypeOK'
  BY TypeStep DEF Inv
<1>1. PICK n \in 0..MaxSeq + 1 :
        /\ IsRetirementSeq(n, recordedSeq')
        /\ supersededSeq' = [r \in Record |-> IF r \in RetiredIn(d) THEN n
                                             ELSE supersededSeq[r]]
  BY DEF Ingest
<1>2. /\ d.claims \subseteq Record
      /\ \A e \in d.edges : e[1] \in d.claims /\ e[2] \in d.claims
      /\ \A p \in d.retires : p[1] \in d.claims /\ p[2] \in d.claims
  BY DocumentsAreClosed
<1>3. d.claims \subseteq Stored'
  <2>1. \A r \in d.claims : recordedSeq'[r] > 0
    BY <1>2, NumberingKeeps DEF Ingest, Inv
  <2>2. QED
    BY <1>2, <2>1 DEF Stored
<1>4. /\ recordedSeq' \in [Record -> Seq0]
      /\ \A r \in Record : recordedSeq'[r] <= n
      /\ n = 0 \/ \E r \in Record : recordedSeq'[r] = n
  BY <1>0, <1>1, RetirementSeq DEF TypeOK
<1>5. \A r \in Record : RetirementInOrder(r)'
  <2>1. ASSUME NEW r \in Record, r \in RetiredIn(d)
        PROVE  RetirementInOrder(r)'
    <3>1. r \in d.claims /\ ReplacementIn(d, r) \in d.claims
      BY <2>1, DocumentType
    <3>2. supersededBy'[r] = ReplacementIn(d, r) /\ supersededSeq'[r] = n
      BY <1>1, <2>1 DEF Ingest
    <3>3. \E s \in Record : n <= recordedSeq'[s]
      <4>1. n # 0
        BY <1>2, <1>3, <1>4, <3>1, BoundsAreNaturals DEF Stored, Seq0
      <4>2. PICK s \in Record : recordedSeq'[s] = n
        BY <1>4, <4>1
      <4>3. n <= recordedSeq'[s]
        BY <4>2
      <4>4. QED
        BY <4>3
    <3>4. ReplacementIn(d, r) # NoRecord
      BY <1>2, <3>1, NoRecordIsNone
    <3>5. QED
      BY <1>2, <1>3, <1>4, <3>1, <3>2, <3>3, <3>4 DEF RetirementInOrder
  <2>2. ASSUME NEW r \in Record, r \notin RetiredIn(d)
        PROVE  RetirementInOrder(r)'
    <3>1. supersededBy'[r] = supersededBy[r] /\ supersededSeq'[r] = supersededSeq[r]
      BY <1>1, <2>2 DEF Ingest
    <3>2. QED
      BY <3>1, RetirementKept DEF Inv
  <2>3. QED
    BY <2>1, <2>2
<1>6. EdgesResolve'
  <2>1. \A e \in edges : {e[1], e[2]} \subseteq Stored'
    BY StepKeeps DEF Inv, EdgesResolve
  <2>2. \A e \in d.edges \cup {SupersedesEdge(p[1], p[2]) : p \in d.retires} :
          {e[1], e[2]} \subseteq Stored'
    BY <1>2, <1>3 DEF SupersedesEdge
  <2>3. QED
    BY <2>1, <2>2 DEF Ingest, EdgesResolve
<1>7. AnsweredLinked'
  <2>1. \A r \in answered : {r} \X Support[r] \subseteq linked'
    BY StepKeeps DEF Inv, AnsweredLinked
  <2>2. \A r \in d.claims : {r} \X Support[r] \subseteq linked'
    BY DEF Ingest
  <2>3. QED
    BY <2>1, <2>2 DEF Ingest, AnsweredLinked
<1>8. RetiredHaveEdge'
  <2> SUFFICES ASSUME NEW r \in Record, supersededBy'[r] # NoRecord,
                      Mortal \cap Operator = {}
               PROVE  \/ <<supersededBy'[r], r, "supersedes">> \in edges'
                      \/ \E o \in Operator :
                           call'[o] = [step |-> "edging", retired |-> r,
                                       replacement |-> supersededBy'[r]]
    BY DEF RetiredHaveEdge
  <2>1. CASE r \in RetiredIn(d)
    <3>1. <<r, ReplacementIn(d, r)>> \in d.retires
      BY <2>1, DocumentType
    <3>2. SupersedesEdge(r, ReplacementIn(d, r)) \in edges'
      BY <3>1 DEF Ingest
    <3>3. supersededBy'[r] = ReplacementIn(d, r)
      BY <2>1 DEF Ingest
    <3>4. QED
      BY <3>2, <3>3 DEF SupersedesEdge
  <2>2. CASE r \notin RetiredIn(d)
    <3>1. supersededBy'[r] = supersededBy[r]
      BY <2>2 DEF Ingest
    <3>2. edges \subseteq edges' /\ UNCHANGED call
      BY DEF Ingest
    <3>3. QED
      BY <3>1, <3>2 DEF Inv, RetiredHaveEdge
  <2>3. QED
    BY <2>1, <2>2
<1>9. \A o \in Connection : CallInOrder(o)'
  <2>1. UNCHANGED call
    BY DEF Ingest
  <2>2. QED
    BY <2>1, CallKept DEF Inv
<1>10. QED
  BY <1>0, <1>5, <1>6, <1>7, <1>8, <1>9 DEF Inv

\* Every step keeps the invariant.
LEMMA StepInv == Inv /\ [Next]_vars => Inv'
<1> SUFFICES ASSUME Inv, [Next]_vars
             PROVE  Inv'
  OBVIOUS
<1>0. TypeOK'
  BY TypeStep DEF Inv
<1>1. ASSUME NEW c \in Connection, Remembering(c)
      PROVE  Inv'
  BY <1>1, RememberingInv
<1>2. ASSUME NEW c \in Connection, Die(c)
      PROVE  Inv'
  <2>1. CASE \A d \in Operator : call[d].step = "edging" => call'[d] = call[d]
    <3>1. /\ UNCHANGED <<retirementVars, edges, answered>>
          /\ call' = [call EXCEPT ![c] = Idle]
      BY <1>2 DEF Die, memoryVars, worldVars
    <3>2. QED
      BY <1>0, <2>1, <3>1, QuietStep, CallsKept, AnsweredKept DEF Inv
  <2>2. CASE \E d \in Operator : call[d].step = "edging" /\ call'[d] # call[d]
    <3>1. c \in Mortal \cap Operator
      BY <1>2, <2>2 DEF Die, Inv, TypeOK, Connection
    <3>2. RetiredHaveEdge'
      BY <3>1 DEF RetiredHaveEdge
    <3>3. /\ UNCHANGED <<recordedSeq, retirementVars, edges, answered>>
          /\ call' = [call EXCEPT ![c] = Idle]
      BY <1>2 DEF Die, memoryVars, worldVars
    <3>4. EdgesResolve'
      BY <3>3 DEF Inv, EdgesResolve, Stored
    <3>5. ASSUME NEW r \in Record
          PROVE  RetirementInOrder(r)'
      <4>1. supersededBy'[r] = supersededBy[r] /\ supersededSeq'[r] = supersededSeq[r]
        BY <3>3 DEF retirementVars
      <4>2. QED
        BY <4>1, RetirementKept DEF Inv
    <3>6. QED
      BY <1>0, <3>2, <3>3, <3>4, <3>5, CallsKept, AnsweredKept DEF Inv
  <2>3. QED
    BY <2>1, <2>2
<1>3. ASSUME NEW c \in Operator, Operating(c)
      PROVE  Inv'
  BY <1>3, SupersedeInv, RetireInv, InsertSupersedesEdgeInv, IngestInv DEF Operating
<1>4. ASSUME NEW c \in Agent, NEW p \in Contradictory, FlagContradiction(c, p[1], p[2])
      PROVE  Inv'
  <2>1. /\ UNCHANGED <<retirementVars, call, answered>>
        /\ {p[1], p[2]} \subseteq Stored
        /\ edges' = edges \cup {<<p[1], p[2], "contradicts">>}
    BY <1>4 DEF FlagContradiction, memoryVars, worldVars
  <2>2. EdgesResolve'
    BY <2>1, StepKeeps DEF Inv, EdgesResolve
  <2>3. ASSUME NEW r \in Record
        PROVE  RetirementInOrder(r)'
    <3>1. supersededBy'[r] = supersededBy[r] /\ supersededSeq'[r] = supersededSeq[r]
      BY <2>1 DEF retirementVars
    <3>2. QED
      BY <3>1, RetirementKept DEF Inv
  <2>4. RetiredHaveEdge'
    BY <2>1 DEF Inv, RetiredHaveEdge, retirementVars
  <2>5. \A c2 \in Connection : CallInOrder(c2)'
    BY <2>1, CallsKept DEF Connection
  <2>6. QED
    BY <1>0, <2>1, <2>2, <2>3, <2>4, <2>5, AnsweredKept DEF Inv
<1>5. ASSUME (\E o \in Observation : PutObservation(o)) \/ Tick \/ UNCHANGED vars
      PROVE  Inv'
  <2>1. UNCHANGED <<retirementVars, edges, call, answered>>
    BY <1>5 DEF PutObservation, Tick, vars, memoryVars, worldVars
  <2>2. \A d \in Connection : CallInOrder(d)'
    BY <2>1, CallKept DEF Inv
  <2>3. QED
    BY <1>0, <2>1, <2>2, QuietStep, AnsweredKept DEF Inv
<1>6. QED
  BY <1>1, <1>2, <1>3, <1>4, <1>5 DEF Next

\* Whatever the processes interleave, calls in progress, retirements, edges and
\* links stay in order.
THEOREM Invariance == Spec => []Inv
  BY InitInv, StepInv, PTL DEF Spec

---------------------------------------------------------------------------
\* No retirement is dated before both its claims were stored.
THEOREM RetirementsDated == Spec => []RetirementsInOrder
<1>1. Inv => RetirementsInOrder
  BY DEF Inv, RetirementInOrder, RetirementsInOrder
<1>2. QED
  BY <1>1, Invariance, PTL

\* Belief as of the high watermark is what default retrieval shows.
THEOREM TwoViewsAgree == Spec => []ViewsAgree
<1>1. Inv => ViewsAgree
  <2> SUFFICES ASSUME Inv, NEW s \in Seq0, IsWatermark(s, recordedSeq)
               PROVE  AsOf(s) = Live
    BY DEF ViewsAgree
  <2>1. \A r \in Record : recordedSeq[r] <= s
    BY DEF IsWatermark
  <2>2. ASSUME NEW r \in Stored, supersededBy[r] = NoRecord
        PROVE  r \in AsOf(s)
    BY <2>1, <2>2 DEF AsOf, Inv, RetirementInOrder, Stored
  <2>3. ASSUME NEW r \in Stored, supersededBy[r] # NoRecord
        PROVE  r \notin AsOf(s)
    <3>1. /\ recordedSeq[r] > 0 /\ recordedSeq[r] <= supersededSeq[r]
          /\ \E q \in Record : supersededSeq[r] <= recordedSeq[q]
      BY <2>3 DEF Inv, RetirementInOrder, Stored
    <3>2. \A q \in Record : recordedSeq[q] \in Nat /\ supersededSeq[q] \in Nat
      BY BoundsAreNaturals DEF Inv, TypeOK, Seq0
    <3>3. s \in Nat
      BY BoundsAreNaturals DEF Seq0
    <3>4. supersededSeq[r] # 0 /\ supersededSeq[r] <= s
      BY <2>1, <3>1, <3>2, <3>3 DEF Stored
    <3>5. QED
      BY <3>2, <3>3, <3>4 DEF AsOf, Stored
  <2>4. AsOf(s) \subseteq Stored
    BY DEF AsOf
  <2>5. QED
    BY <2>2, <2>3, <2>4 DEF Live
<1>2. QED
  BY <1>1, Invariance, PTL

\* No edge dangles.
THEOREM EveryEdgeResolves == Spec => []EdgesResolve
<1>1. Inv => EdgesResolve
  BY DEF Inv
<1>2. QED
  BY <1>1, Invariance, PTL

\* An answered claim has all its support.
THEOREM AnswersAreLinked == Spec => []AnsweredLinked
<1>1. Inv => AnsweredLinked
  BY DEF Inv
<1>2. QED
  BY <1>1, Invariance, PTL

\* As long as operators' commands run to their end, every retired claim has
\* its edge or will.
THEOREM EveryRetirementHasEdge == Spec => []RetiredHaveEdge
<1>1. Inv => RetiredHaveEdge
  BY DEF Inv
<1>2. QED
  BY <1>1, Invariance, PTL

\* Only the race of a supersede dates a retirement before a claim that is
\* already there.
LEMMA DatedBack ==
  ASSUME Inv, [Next]_vars, NEW x \in Record, NEW q \in Record,
         supersededSeq'[x] # supersededSeq[x], recordedSeq[q] > supersededSeq'[x]
  PROVE  RetiringLate(x)
<1>1. ASSUME NEW c \in Operator, Retire(c)
      PROVE  /\ call[c].step = "retiring" /\ call[c].retired = x
             /\ Past(call[c].mark)
  <2>1. call[c].retired = x
    BY <1>1, CallTypes DEF Retire, Inv, TypeOK, Connection
  <2>2. supersededSeq'[x] = call[c].mark
    BY <1>1, <2>1 DEF Retire, Inv, TypeOK
  <2>3. QED
    BY <1>1, <2>1, <2>2 DEF Retire, Past
<1>2. ASSUME NEW c \in Operator, NEW d \in Document, NEW t \in PassedInstants \ {0},
             Ingest(c, d, t)
      PROVE  FALSE
  <2>1. PICK n \in 0..MaxSeq + 1 :
          /\ IsRetirementSeq(n, recordedSeq')
          /\ supersededSeq' = [y \in Record |-> IF y \in RetiredIn(d) THEN n
                                               ELSE supersededSeq[y]]
    BY <1>2 DEF Ingest
  <2>2. supersededSeq'[x] = n
    BY <2>1
  <2>3. recordedSeq'[q] <= n /\ n \in Nat
    BY <2>1, TypeStep, RetirementSeq, BoundsAreNaturals DEF Inv, TypeOK
  <2>4. recordedSeq[q] <= recordedSeq'[q] /\ recordedSeq[q] \in Nat /\ recordedSeq'[q] \in Nat
    BY StepKeeps DEF Inv
  <2>5. QED
    BY <2>2, <2>3, <2>4
<1>3. \/ \E c \in Operator : Retire(c)
      \/ \E c \in Operator, d \in Document, t \in PassedInstants \ {0} : Ingest(c, d, t)
  BY DEF Next, Remembering, Operating, PutMemory, LinkObservation, PutMemoryFails,
         Die, Supersede, InsertSupersedesEdge, FlagContradiction, PutObservation,
         Tick, vars, memoryVars, retirementVars
<1>4. QED
  BY <1>1, <1>2, <1>3 DEF RetiringLate

\* Past belief changes only by retiring again or by the race of a supersede.
THEOREM HistoryIsKept == Spec => HistoryKept
<1> DEFINE Kept(s, r) == Past(s) /\ (r \in AsOf(s)) # (r \in AsOf(s))'
                           => supersededBy[r] # NoRecord \/ RetiringLate(r)
<1>1. Inv /\ [Next]_vars => [\A s \in Seq0, r \in Record : Kept(s, r)]_vars
  <2> SUFFICES ASSUME Inv, [Next]_vars, NEW s \in Seq0, NEW r \in Record, Past(s),
                      (r \in AsOf(s)) # (r \in AsOf(s))', supersededBy[r] = NoRecord
               PROVE  RetiringLate(r)
    OBVIOUS
  <2>1. PICK q \in Record : recordedSeq[q] > s
    BY DEF Past
  <2>2. s \in Nat /\ (\A x \in Record : recordedSeq[x] \in Nat /\ recordedSeq'[x] \in Nat)
    BY StepKeeps, BoundsAreNaturals DEF Inv, Seq0
  <2>3. supersededSeq[r] = 0
    BY DEF Inv, RetirementInOrder
  <2>4. CASE r \notin Stored
    <3>1. recordedSeq'[r] = 0 \/ recordedSeq'[r] > s
      BY <2>1, <2>2, <2>4, StepKeeps DEF Inv
    <3>2. QED
      BY <2>2, <2>4, <3>1 DEF AsOf, Stored
  <2>5. CASE r \in Stored
    <3>1. recordedSeq'[r] = recordedSeq[r] /\ r \in Stored'
      BY <2>5, StepKeeps DEF Inv
    <3>2. supersededSeq'[r] # 0 /\ ~(supersededSeq'[r] > s)
      BY <2>3, <2>5, <3>1 DEF AsOf
    <3>3. supersededSeq'[r] \in Nat
      BY TypeStep, BoundsAreNaturals DEF Inv, TypeOK, Seq0
    <3>4. supersededSeq'[r] # supersededSeq[r] /\ recordedSeq[q] > supersededSeq'[r]
      BY <2>1, <2>2, <2>3, <3>2, <3>3
    <3>5. QED
      BY <3>4, DatedBack
  <2>6. QED
    BY <2>4, <2>5
<1>2. QED
  BY <1>1, Invariance, PTL DEF Spec, HistoryKept

\* Evidence becomes stale under a claim only with the edge between them or by
\* the race of a supersede.
THEOREM StalenessIsDecidedOnce == Spec => StalenessIsOld
<1> DEFINE Old(r, x) == x \in CitedStale(r)' /\ x \notin CitedStale(r)
                          => (\E e \in edges' \ edges : e[1] = r /\ e[2] = x) \/ RetiringLate(x)
<1>1. Inv /\ [Next]_vars => [\A r, x \in Record : Old(r, x)]_vars
  <2> SUFFICES ASSUME Inv, [Next]_vars, NEW r \in Record, NEW x \in Record,
                      x \in CitedStale(r)', x \notin CitedStale(r),
                      ~\E e \in edges' \ edges : e[1] = r /\ e[2] = x
               PROVE  RetiringLate(x)
    OBVIOUS
  <2>1. PICK e \in edges : e[1] = r /\ e[2] = x
    BY DEF CitedStale
  <2>2. r \in Stored /\ x \in Stored
    BY <2>1 DEF Inv, EdgesResolve
  <2>3. recordedSeq'[r] = recordedSeq[r]
    BY <2>2, StepKeeps DEF Inv
  <2>4. supersededSeq'[x] # 0 /\ supersededSeq'[x] < recordedSeq[r]
    BY <2>3 DEF CitedStale
  <2>5. supersededSeq'[x] # supersededSeq[x]
    BY <2>1, <2>2, <2>4 DEF CitedStale
  <2>6. supersededSeq'[x] \in Nat /\ recordedSeq[r] \in Nat
    BY TypeStep, BoundsAreNaturals DEF Inv, TypeOK, Seq0
  <2>7. QED
    BY <2>4, <2>5, <2>6, DatedBack
<1>2. QED
  BY <1>1, Invariance, PTL DEF Spec, StalenessIsOld
============================================================================
