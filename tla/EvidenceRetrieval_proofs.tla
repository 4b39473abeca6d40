---------------------- MODULE EvidenceRetrieval_proofs ----------------------
(***************************************************************************)
(* Theorems about EvidenceRetrieval, for every set of records, documents   *)
(* and requests, any texts and dictionaries, and every bound.              *)
(***************************************************************************)
EXTENDS EvidenceRetrieval, EvidenceStore_proofs, FiniteSetTheorems, SequenceTheorems,
        WellFoundedInduction

\* To the tables of the evidence store retrieval does nothing of its own.
LEMMA StoreStep == [RetrievalNext]_retrievalVars => [Next]_vars
<1> SUFFICES ASSUME RetrievalNext
             PROVE  [Next]_vars
  BY DEF retrievalVars
<1>1. CASE Writing
  BY <1>1 DEF Writing, Next, Operating, Remembering
<1>2. CASE \E c \in Operator, d \in Document, t \in PassedInstants \ {0} : IngestAndIndex(c, d, t)
  BY <1>2 DEF IngestAndIndex, Next, Operating
<1>3. CASE \E r \in Record : PutEmbedding(r)
  BY <1>3 DEF PutEmbedding
<1>4. CASE Retrieving
  BY <1>4 DEF Retrieving, Recall, SearchText, SearchVectors, ReadDictionary, SearchMentions,
              LoadCandidate, Walk, ReadConflicts
<1>5. CASE Answering
  BY <1>5 DEF Answering, SubmitAnswer, LookUpCited, ReadObligations
<1>6. CASE Finish
  BY <1>6 DEF Finish
<1>7. QED
  BY <1>1, <1>2, <1>3, <1>4, <1>5, <1>6 DEF RetrievalNext

\* The evidence store under retrieval is the evidence store: all that is
\* proved of it holds of what recalls and answers read.
THEOREM ImplementsStore == RetrievalSpec => Spec
<1>1. RetrievalInit => Init
  BY DEF RetrievalInit
<1>2. QED
  BY <1>1, StoreStep, PTL DEF RetrievalSpec, Spec

---------------------------------------------------------------------------
(* Types.                                                                  *)

\* What kind of job a step belongs to.
LEMMA JobKinds ==
  ASSUME job \in Job
  PROVE  /\ job.step \in RecallSteps => job \in Recalling
         /\ job.step = "recalled" => job \in Recalled
         /\ job.step \in AnswerSteps => job \in Answer
         /\ job.step \in RecallSteps \cup {"recalled", "idle"} \cup AnswerSteps
  BY DEF Job, NoJob, Recalling, Recalled, Answer, RecallSteps, AnswerSteps

\* A branch fetches some of what it finds.
LEMMA FetchedSome ==
  ASSUME NEW R, NEW F \in Fetched(R)
  PROVE  F \subseteq R
  BY DEF Fetched

\* Candidates stay candidates when some are added.
LEMMA WithType ==
  ASSUME NEW cands \in Candidates, NEW R \in SUBSET Record, NEW d \in Distance
  PROVE  With(cands, R, d) \in Candidates /\ DOMAIN With(cands, R, d) = DOMAIN cands \cup R
<1>1. PICK S \in SUBSET Record : cands \in [S -> Distance]
  BY DEF Candidates
<1>2. With(cands, R, d) \in [S \cup R -> Distance]
  BY <1>1 DEF With
<1>3. QED
  BY <1>1, <1>2 DEF Candidates

\* Every nonempty set of natural numbers has a least element.
LEMMA LeastOfNats ==
  ASSUME NEW S \in SUBSET Nat, S # {}
  PROVE  Min(S) \in S /\ \A y \in S : Min(S) <= y
<1>1. PICK x \in S : \A y \in S : ~(<<y, x>> \in OpToRel(<, Nat))
  BY WFMin, NatLessThanWellFounded, Zenon
<1>2. \A y \in S : ~(y < x)
  BY <1>1, Zenon DEF OpToRel
<1>3. \A y \in S : x <= y
  BY <1>2
<1>4. QED
  BY <1>3 DEF Min

\* A walk of the recursive query is a sequence.
LEMMA WalkIsSequence ==
  ASSUME NEW n \in Nat, NEW q \in [1..n + 1 -> Record]
  PROVE  Len(q) = n + 1 /\ Last(q) = q[n + 1]
<1>1. q \in Seq(Record) /\ DOMAIN q = 1..n + 1
  OBVIOUS
<1>2. Len(q) = n + 1
  BY <1>1
<1>3. QED
  BY <1>2 DEF Last

\* What Store::traverse reaches from a seed, other than the seed itself, is a
\* stored record, and within the bound on the hops.
LEMMA Reached ==
  ASSUME edges \subseteq Edge, EdgesResolve, NEW s \in Record,
         NEW r \in DOMAIN Traverse(edges, s)
  PROVE  r \in Record /\ Traverse(edges, s)[r] \in Distance /\ (r # s => r \in Stored)
<1> DEFINE hops == {Len(p) - 1 : p \in {q \in Walks(edges, s) : Last(q) = r}}
<1>1. ASSUME NEW q \in Walks(edges, s)
      PROVE  Len(q) - 1 \in Distance /\ Last(q) \in Record /\ (Last(q) # s => Last(q) \in Stored)
  <2>1. PICK n \in 0..MaxHops : /\ q \in [1..n + 1 -> Record]
                                /\ q[1] = s
                                /\ \A i \in 1..n : <<q[i], q[i + 1]>> \in Adjacent(edges)
    BY <1>1 DEF Walks
  <2>2. n \in Nat /\ MaxHops \in Nat
    BY RetrievalBounds
  <2>3. Len(q) = n + 1 /\ Last(q) = q[n + 1]
    BY <2>1, <2>2, WalkIsSequence
  <2>4. ASSUME n # 0
        PROVE  q[n + 1] \in Stored
    <3>1. n \in 1..n
      BY <2>2, <2>4
    <3>2. <<q[n], q[n + 1]>> \in Adjacent(edges)
      BY <2>1, <3>1
    <3>3. QED
      BY <3>2 DEF Adjacent, EdgesResolve
  <2>5. QED
    BY <2>1, <2>2, <2>3, <2>4 DEF Distance
<1>2. PICK q \in Walks(edges, s) : Last(q) = r
  BY DEF Traverse
<1>3. hops \in SUBSET Nat /\ hops # {} /\ hops \subseteq Distance
  BY <1>1, <1>2, RetrievalBounds DEF Distance
<1>4. Min(hops) \in hops
  BY <1>3, LeastOfNats
<1>5. Traverse(edges, s)[r] = Min(hops)
  BY DEF Traverse
<1>6. QED
  BY <1>1, <1>2, <1>3, <1>4, <1>5

\* What every proof about a step starts from.
LEMMA RecallType ==
  ASSUME job \in Job, job.step \in RecallSteps
  PROVE  /\ job \in Recalling
         /\ job.cands \in Candidates /\ DOMAIN job.cands \in SUBSET Record
         /\ job.pending \in SUBSET (Record \X Distance)
         /\ job.seeds \in SUBSET Record /\ job.withheld \in SUBSET Record
         /\ job.began.edges \in SUBSET Edge
<1>1. job \in Recalling
  BY JobKinds
<1>2. QED
  BY <1>1 DEF Recalling, Candidates

\* A conflict is a pair of records.
LEMMA ContradictionsType ==
  ASSUME NEW E \in SUBSET Edge
  PROVE  ContradictionsIn(E) \in SUBSET (Record \X Record)
  BY DEF ContradictionsIn, Edge

LEMMA RecallJob ==
  ASSUME TypeOK, NEW asked \in Asked, Recall(asked)
  PROVE  job' \in Recalling
<1>1. Seen \in [stored : SUBSET Record, live : SUBSET Record, edges : SUBSET Edge]
  BY DEF Seen, Stored, Live, TypeOK
<1>2. <<>> \in Candidates
  <2>1. DOMAIN <<>> = {}
    OBVIOUS
  <2>2. <<>> \in [{} -> Distance]
    BY <2>1
  <2>3. QED
    BY <2>2 DEF Candidates
<1>3. asked.retired \in BOOLEAN /\ asked.semantic \in BOOLEAN
  BY RequestsAreRequests
<1>4. QED
  BY <1>1, <1>2, <1>3 DEF Recall, Recalling, RecallSteps

LEMMA SearchTextJob ==
  ASSUME job \in Job, SearchText
  PROVE  job' \in Recalling
<1>1. PICK F \in Fetched(Matching \cap Stored) :
        job' = [job EXCEPT !.step = IF job.semantic THEN "semantic" ELSE "dictionary",
                           !.cands = With(@, {r \in F : Admitted(r)}, 0),
                           !.seeds = {r \in F : Admitted(r)},
                           !.withheld = F \ {r \in F : Admitted(r)}]
  BY DEF SearchText
<1>2. F \in SUBSET Record
  BY <1>1, FetchedSome DEF Stored
<1>3. 0 \in Distance
  BY RetrievalBounds DEF Distance
<1>4. job \in Recalling /\ job.cands \in Candidates
  BY RecallType DEF SearchText, RecallSteps
<1>5. With(job.cands, {r \in F : Admitted(r)}, 0) \in Candidates
  BY <1>2, <1>3, <1>4, WithType
<1>6. QED
  BY <1>1, <1>2, <1>4, <1>5 DEF Recalling, RecallSteps

LEMMA LoadCandidateJob ==
  ASSUME job \in Job, LoadCandidate
  PROVE  job' \in Recalling
<1>1. PICK p \in job.pending :
       job' = IF Admitted(p[1])
              THEN [job EXCEPT !.pending = @ \ {p},
                               !.cands = With(@, {p[1]}, p[2]),
                               !.seeds = IF p[2] = 0 THEN @ \cup {p[1]} ELSE @]
              ELSE [job EXCEPT !.pending = @ \ {p}, !.withheld = @ \cup {p[1]}]
  BY DEF LoadCandidate
<1>2. job \in Recalling /\ job.cands \in Candidates /\ p[1] \in Record /\ p[2] \in Distance
  BY <1>1, RecallType DEF LoadCandidate, RecallSteps
<1>3. With(job.cands, {p[1]}, p[2]) \in Candidates
  BY <1>2, WithType
<1>4. QED
  BY <1>1, <1>2, <1>3 DEF Recalling

LEMMA FoundJob ==
  ASSUME job \in Job, SearchVectors \/ ReadDictionary \/ SearchMentions, vectors \subseteq Stored,
         entities \subseteq Entity
  PROVE  job' \in Recalling
<1>0. job.step \in {"semantic", "dictionary", "entity"}
  BY Zenon DEF SearchVectors, ReadDictionary, SearchMentions
<1>1. job \in Recalling /\ 0 \in Distance
  BY <1>0, RecallType, RetrievalBounds DEF RecallSteps, Distance
<1>2. CASE SearchVectors
  <2>1. PICK F \in Fetched({r \in vectors : Admitted(r)}) :
         job' = [job EXCEPT !.step = "dictionary", !.pending = (F \ DOMAIN job.cands) \X {0}]
    BY <1>2 DEF SearchVectors
  <2>2. F \subseteq Record
    BY <2>1, FetchedSome DEF Stored
  <2>3. QED
    BY <1>1, <2>1, <2>2 DEF Recalling, RecallSteps
<1>3. CASE ReadDictionary
  BY <1>1, <1>3 DEF ReadDictionary, Recalling, RecallSteps
<1>4. CASE SearchMentions
  <2> DEFINE wanted    == {m.entity : m \in ExtractMentions(job.dict, Query)}
             shared(r) == {e \in wanted : \E x \in mentions : x.record = r /\ x.entity = e}
             found     == {r \in Stored : Admitted(r) /\ shared(r) # {}}
  <2>1. PICK F \in Fetched(found) :
          job' = [job EXCEPT !.step = "provenance", !.dict = {},
                             !.pending = (F \ DOMAIN job.cands) \X {0}]
    BY <1>4 DEF SearchMentions
  <2>2. F \subseteq Record
    BY <2>1, FetchedSome DEF Stored
  <2>3. QED
    BY <1>1, <2>1, <2>2 DEF Recalling, RecallSteps
<1>5. QED
  BY <1>2, <1>3, <1>4

LEMMA WalkJob ==
  ASSUME TypeOK, EdgesResolve, job \in Job, Walk
  PROVE  job' \in Recalling
<1> DEFINE reached(s) == Traverse(edges, s)
           others(s) == DOMAIN reached(s) \ {s}
<1>1. PICK s \in job.seeds :
        job' = [job EXCEPT
                  !.seeds = @ \ {s},
                  !.walked = @ \cup {s},
                  !.cands = [r \in DOMAIN @ |-> IF r \in others(s) THEN Nearer(@[r], reached(s)[r])
                                                ELSE @[r]],
                  !.pending = {<<r, reached(s)[r]>> : r \in others(s) \ DOMAIN job.cands}]
  BY DEF Walk
<1> HIDE DEF reached
<1>2. job \in Recalling /\ s \in Record /\ job.cands \in Candidates
  BY <1>1, RecallType DEF Walk, RecallSteps
<1>3. \A r \in others(s) : r \in Record /\ reached(s)[r] \in Distance
  BY <1>2, Reached DEF TypeOK, reached
<1>4. [r \in DOMAIN job.cands |-> IF r \in others(s) THEN Nearer(job.cands[r], reached(s)[r])
                                  ELSE job.cands[r]] \in Candidates
  <2>1. PICK S \in SUBSET Record : job.cands \in [S -> Distance]
    BY <1>2 DEF Candidates
  <2>2. \A r \in S : IF r \in others(s) THEN Nearer(job.cands[r], reached(s)[r]) \in Distance
                     ELSE job.cands[r] \in Distance
    BY <1>3, <2>1 DEF Nearer
  <2>3. QED
    BY <2>1, <2>2 DEF Candidates
<1>5. {<<r, reached(s)[r]>> : r \in others(s) \ DOMAIN job.cands} \in SUBSET (Record \X Distance)
  BY <1>3
<1>6. QED
  BY <1>1, <1>2, <1>4, <1>5 DEF Recalling

\* What an answer is made of.
LEMMA AnswerType ==
  ASSUME job \in Job, job.step \in AnswerSteps
  PROVE  /\ job \in Answer
         /\ job.cited \in SUBSET Record /\ job.left \in SUBSET Record
         /\ job.acked \in SUBSET (Record \X Record) /\ job.owed \in SUBSET (Record \X Record)
         /\ job.flagged \in SUBSET (Record \X Record) /\ job.told \in SUBSET (Record \X Record)
<1>1. job \in Answer
  BY JobKinds
<1>2. QED
  BY <1>1 DEF Answer

LEMMA RecalledType ==
  ASSUME job \in Job, job.step = "recalled"
  PROVE  /\ job \in Recalled
         /\ job.hits \in SUBSET Record /\ job.conflicts \in SUBSET (Record \X Record)
         /\ job.known \in SUBSET (Record \X Record)
<1>1. job \in Recalled
  BY JobKinds
<1>2. QED
  BY <1>1 DEF Recalled

LEMMA ReadConflictsJob ==
  ASSUME TypeOK, job \in Job, ReadConflicts
  PROVE  job' \in Recalled
<1>1. PICK H \in SUBSET DOMAIN job.cands :
        job' = [step |-> "recalled", hits |-> H, conflicts |-> ContradictionsIn(edges),
                known |-> ContradictionsIn(job.began.edges)]
  BY DEF ReadConflicts
<1>2. DOMAIN job.cands \in SUBSET Record /\ job.began.edges \in SUBSET Edge
  BY RecallType DEF ReadConflicts, Gathered, RecallSteps
<1>3. /\ ContradictionsIn(edges) \in SUBSET (Record \X Record)
      /\ ContradictionsIn(job.began.edges) \in SUBSET (Record \X Record)
  BY <1>2, ContradictionsType DEF TypeOK
<1>4. QED
  BY <1>1, <1>2, <1>3 DEF Recalled

LEMMA SubmitAnswerJob ==
  ASSUME TypeOK, job \in Job, NEW cited \in Cited, NEW acked \in Acked, SubmitAnswer(cited, acked)
  PROVE  job' \in Answer
<1>1. ContradictionsIn(edges) \in SUBSET (Record \X Record)
  BY ContradictionsType DEF TypeOK
<1>2. ToldOf(cited, acked) \in SUBSET (Record \X Record)
  <2>1. job.step = "recalled" => job.known \in SUBSET (Record \X Record)
    BY RecalledType
  <2>2. QED
    BY <2>1 DEF ToldOf
<1>3. cited \in SUBSET Record /\ acked \in SUBSET (Record \X Record)
  BY RequestsAreRequests
<1>4. QED
  BY <1>1, <1>2, <1>3 DEF SubmitAnswer, Answer, AnswerSteps

\* What is owed for a record is owed to a record.
LEMMA ObligationsType ==
  ASSUME NEW r \in Record
  PROVE  Obligations(r) \in SUBSET ({r} \X Record)
  BY DEF Obligations, Live, Stored

LEMMA AnsweringJob ==
  ASSUME job \in Job, LookUpCited \/ ReadObligations
  PROVE  job' \in Job
<1>1. job.step \in AnswerSteps
  BY DEF LookUpCited, ReadObligations, AnswerSteps
<1>2. job \in Answer /\ job.cited \in SUBSET Record /\ job.left \in SUBSET Record
  BY <1>1, AnswerType
<1>3. CASE LookUpCited
  <2>1. PICK r \in job.left :
          job' = IF r \notin Stored THEN NoJob
                 ELSE IF job.left = {r} THEN [job EXCEPT !.step = "obligations", !.left = job.cited]
                 ELSE [job EXCEPT !.left = @ \ {r}]
    BY <1>3 DEF LookUpCited
  <2>2. \/ job' = NoJob
        \/ job' = [job EXCEPT !.step = "obligations", !.left = job.cited]
        \/ job' = [job EXCEPT !.left = @ \ {r}]
    BY <2>1
  <2>3. /\ [job EXCEPT !.step = "obligations", !.left = job.cited] \in Answer
        /\ [job EXCEPT !.left = @ \ {r}] \in Answer
    BY <1>2 DEF Answer, AnswerSteps
  <2>4. QED
    BY <2>2, <2>3 DEF Job
<1>4. CASE ReadObligations
  <2> DEFINE owed(r) == job.owed \cup Obligations(r)
  <2>1. PICK r \in job.left :
          job' = [job EXCEPT !.left = @ \ {r},
                             !.owed = owed(r),
                             !.step = IF job.left # {r} THEN @
                                      ELSE IF Outstanding(owed(r)) = {} THEN "accepted"
                                      ELSE "refused"]
    BY <1>4 DEF ReadObligations
  <2>2. owed(r) \in SUBSET (Record \X Record)
    BY <1>1, <1>2, AnswerType, ObligationsType
  <2> HIDE DEF owed
  <2>3. QED
    BY <1>2, <2>1, <2>2 DEF Job, Answer, AnswerSteps
<1>5. QED
  BY <1>3, <1>4

\* Ingestion keeps the shape of the index.
LEMMA ReindexType ==
  ASSUME RetrievalTypeOK, NEW d \in Document, Reindex(d)
  PROVE  /\ entities' \subseteq Entity
         /\ \A x \in mentions' : x.record \in Record /\ x.extractor \subseteq Entity
<1>1. entities' \subseteq Entity
  BY DocumentsDeclareEntities DEF RetrievalTypeOK, Reindex
<1>2. ASSUME NEW R \in SUBSET Record, NEW kept \in SUBSET mentions,
             NEW x \in Indexed(R, entities', kept)
      PROVE  x.record \in Record /\ x.extractor \subseteq Entity
  <2>1. CASE x \in kept
    BY <2>1 DEF RetrievalTypeOK
  <2>2. CASE \E r \in R : x \in RowsOf(r, entities')
    BY <1>1, <2>2 DEF RowsOf
  <2>3. QED
    BY <1>2, <2>1, <2>2 DEF Indexed
<1> DEFINE kept == KeptMentions(d)
           stored == {r \in Record : recordedSeq'[r] > 0}
<1>3. mentions' = IF entities' = {} THEN kept ELSE Indexed(stored, entities', kept)
  BY DEF Reindex
<1>4. kept \in SUBSET mentions /\ stored \in SUBSET Record
  BY DEF KeptMentions
<1> HIDE DEF kept, stored
<1>5. QED
  BY <1>1, <1>2, <1>3, <1>4 DEF RetrievalTypeOK

LEMMA RetrievingJob ==
  ASSUME Inv, RetrievalTypeOK, Retrieving
  PROVE  job' \in Job /\ UNCHANGED <<vars, indexVars>>
<1>0. TypeOK /\ EdgesResolve /\ job \in Job /\ vectors \subseteq Stored /\ entities \subseteq Entity
  BY DEF Inv, RetrievalTypeOK
<1>1. job' \in Recalling \/ job' \in Recalled
  BY <1>0, RecallJob, SearchTextJob, LoadCandidateJob, FoundJob, WalkJob, ReadConflictsJob
     DEF Retrieving
<1>2. UNCHANGED <<vars, indexVars>>
  BY DEF Retrieving, Recall, SearchText, SearchVectors, ReadDictionary, SearchMentions,
         LoadCandidate, Walk, ReadConflicts
<1>3. QED
  BY <1>1, <1>2 DEF Job

LEMMA AnsweringType ==
  ASSUME Inv, RetrievalTypeOK, Answering \/ Finish
  PROVE  job' \in Job /\ UNCHANGED <<vars, indexVars>>
<1>1. UNCHANGED <<vars, indexVars>>
  BY DEF Answering, SubmitAnswer, LookUpCited, ReadObligations, Finish
<1>2. job' \in Answer \/ job' \in Job
  BY SubmitAnswerJob, AnsweringJob DEF Inv, RetrievalTypeOK, Answering, Finish, Job
<1>3. QED
  BY <1>1, <1>2 DEF Job

LEMMA RetrievalTypeStep ==
  ASSUME Inv, RetrievalTypeOK, [RetrievalNext]_retrievalVars
  PROVE  RetrievalTypeOK'
<1>1. Stored \subseteq Stored'
  BY StoreStep, StepKeeps DEF Inv
<1>2. CASE Writing \/ UNCHANGED retrievalVars
  <2>1. UNCHANGED <<entities, mentions, vectors, job>>
    BY <1>2 DEF Writing, indexVars, retrievalVars
  <2>2. QED
    BY <1>1, <2>1 DEF RetrievalTypeOK
<1>3. ASSUME NEW c \in Operator, NEW d \in Document, NEW t \in PassedInstants \ {0},
             IngestAndIndex(c, d, t)
      PROVE  RetrievalTypeOK'
  <2>1. Reindex(d) /\ UNCHANGED <<vectors, job>>
    BY <1>3 DEF IngestAndIndex
  <2>2. QED
    BY <1>1, <2>1, ReindexType DEF RetrievalTypeOK
<1>4. ASSUME NEW r \in Record, PutEmbedding(r)
      PROVE  RetrievalTypeOK'
  <2>1. vectors' \subseteq Stored
    BY <1>4 DEF PutEmbedding, RetrievalTypeOK
  <2>2. QED
    BY <1>1, <1>4, <2>1 DEF PutEmbedding, RetrievalTypeOK
<1>5. CASE Retrieving \/ Answering \/ Finish
  <2>1. job' \in Job /\ UNCHANGED <<entities, mentions, vectors>>
    BY <1>5, RetrievingJob, AnsweringType DEF indexVars
  <2>2. QED
    BY <1>1, <2>1 DEF RetrievalTypeOK
<1>6. QED
  BY <1>2, <1>3, <1>4, <1>5 DEF RetrievalNext

\* Every reachable state has the declared shape: the index, the vectors, and
\* what the agent's server is in the middle of.
THEOREM RetrievalTypeCorrect == RetrievalSpec => []RetrievalTypeOK
<1>1. RetrievalInit => RetrievalTypeOK
  BY DEF RetrievalInit, RetrievalTypeOK, Job, Init, Stored
<1>2. Inv /\ RetrievalTypeOK /\ [RetrievalNext]_retrievalVars => RetrievalTypeOK'
  BY RetrievalTypeStep
<1>3. QED
  BY <1>1, <1>2, ImplementsStore, Invariance, PTL DEF RetrievalSpec

---------------------------------------------------------------------------
(* The inductive invariant.                                                *)

(* What was there when the recall began is still there, and what was       *)
(* retired still is.                                                       *)
BeganBefore ==
  /\ job.began.stored \subseteq Stored
  /\ Live \cap job.began.stored \subseteq job.began.live
  /\ job.began.edges \subseteq edges

(* A record found is loaded once; what was loaded is a candidate or        *)
(* withheld.                                                               *)
LoadedOnce ==
  /\ \A p \in job.pending : p[1] \in Stored /\ p[1] \notin DOMAIN job.cands
  /\ \A p, q \in job.pending : p[1] = q[1] => p = q
  /\ job.step = "lexical" => DOMAIN job.cands = {} /\ job.withheld = {} /\ job.pending = {}
  /\ ~job.retired => DOMAIN job.cands \cap job.began.stored \subseteq job.began.live
  /\ job.withheld \subseteq Stored \ Live
  /\ job.withheld # {} => ~job.retired
  /\ job.withheld \cap DOMAIN job.cands = {}

(* Every cited claim whose obligations were read owes the conflicts        *)
(* flagged when the answer was submitted.                                  *)
OwedSoFar ==
  job.step # "lookup" =>
    \A r \in job.cited \ job.left, s \in Record :
      {r, s} \subseteq Live /\ {<<r, s>>, <<s, r>>} \cap job.flagged # {} => <<r, s>> \in job.owed

(* What the agent was told about a claim it cites it has acknowledged.     *)
ToldAcknowledged ==
  \A r \in job.cited, s \in Record :
    {<<r, s>>, <<s, r>>} \cap job.told # {} => {<<r, s>>, <<s, r>>} \cap job.acked # {}

AnswerInOrder ==
  /\ job.flagged \subseteq ContradictionsIn(edges)
  /\ job.left \subseteq job.cited
  /\ \A p \in job.owed : p[1] \in job.cited
  /\ OwedSoFar
  /\ ToldAcknowledged
  /\ job.step = "accepted" => job.left = {} /\ Outstanding(job.owed) = {}

JobInOrder ==
  /\ job.step \in RecallSteps => BeganBefore /\ LoadedOnce
  /\ job.step = "recalled" => job.known \subseteq job.conflicts
  /\ job.step \in AnswerSteps => AnswerInOrder

RetrievalInv == Inv /\ RetrievalTypeOK /\ JobInOrder

\* A retired claim stays retired.
LEMMA StaysRetired ==
  ASSUME Inv, [Next]_vars
  PROVE  Live' \cap Stored \subseteq Live
<1> SUFFICES ASSUME NEW r \in Stored, supersededBy[r] # NoRecord
             PROVE  supersededBy'[r] # NoRecord
  BY DEF Live
<1>0. r \in Record /\ supersededBy \in [Record -> Record \cup {NoRecord}]
  BY DEF Stored, Inv, TypeOK
<1>1. ASSUME NEW c \in Operator, Retire(c)
      PROVE  supersededBy'[r] # NoRecord
  <2>1. call[c].replacement \in Record
    BY <1>1, CallTypes DEF Retire, Inv, Connection
  <2>2. QED
    BY <1>0, <1>1, <2>1, NoRecordIsNone DEF Retire
<1>2. ASSUME NEW c \in Operator, NEW d \in Document, NEW t \in PassedInstants \ {0},
             Ingest(c, d, t)
      PROVE  supersededBy'[r] # NoRecord
  <2>1. r \in RetiredIn(d) => ReplacementIn(d, r) \in Record
    BY DocumentType, DocumentsAreClosed
  <2>2. QED
    BY <1>0, <1>2, <2>1, NoRecordIsNone DEF Ingest
<1>3. CASE UNCHANGED supersededBy
  BY <1>3
<1>4. QED
  BY <1>1, <1>2, <1>3
     DEF Next, Remembering, Operating, PutMemory, LinkObservation, PutMemoryFails, Die,
         Supersede, InsertSupersedesEdge, FlagContradiction, PutObservation, Tick, vars,
         memoryVars, retirementVars

\* Writers do not disturb a recall or an answer between its statements.
LEMMA WritersKeepJob ==
  ASSUME RetrievalInv, [Next]_vars, UNCHANGED job
  PROVE  JobInOrder'
<1>1. /\ Stored \subseteq Stored' /\ edges \subseteq edges' /\ Live' \cap Stored \subseteq Live
      /\ Live' \subseteq Stored'
  BY StepKeeps, StaysRetired DEF RetrievalInv, Inv, Live
<1>2. ASSUME job.step \in RecallSteps
      PROVE  (BeganBefore /\ LoadedOnce)'
  <2>1. BeganBefore'
    BY <1>1, <1>2 DEF RetrievalInv, JobInOrder, BeganBefore
  <2>2. LoadedOnce'
    BY <1>1, <1>2 DEF RetrievalInv, JobInOrder, LoadedOnce
  <2>3. QED
    BY <2>1, <2>2
<1>3. ASSUME job.step \in AnswerSteps
      PROVE  AnswerInOrder'
  <2>1. AnswerInOrder /\ EdgesResolve
    BY <1>3 DEF RetrievalInv, JobInOrder, Inv
  <2>2. ContradictionsIn(edges) \subseteq ContradictionsIn(edges')
    BY <1>1 DEF ContradictionsIn
  <2>3. OwedSoFar'
    <3> SUFFICES ASSUME job.step # "lookup", NEW r \in job.cited \ job.left, NEW s \in Record,
                        {r, s} \subseteq Live', {<<r, s>>, <<s, r>>} \cap job.flagged # {}
                 PROVE  <<r, s>> \in job.owed
      BY DEF OwedSoFar
    <3>1. {r, s} \subseteq Stored
      BY <2>1 DEF AnswerInOrder, ContradictionsIn, EdgesResolve
    <3>2. QED
      BY <1>1, <2>1, <3>1 DEF AnswerInOrder, OwedSoFar
  <2>4. QED
    BY <2>1, <2>2, <2>3 DEF AnswerInOrder, ToldAcknowledged, Outstanding
<1>4. QED
  BY <1>2, <1>3 DEF RetrievalInv, JobInOrder

---------------------------------------------------------------------------
(* Recall.                                                                 *)

\* What a recall has at any step but the first and last.
LEMMA RecallFacts ==
  ASSUME RetrievalInv, job.step \in RecallSteps
  PROVE  job \in Recalling /\ BeganBefore /\ LoadedOnce /\ DOMAIN job.cands \in SUBSET Record
  BY RecallType DEF RetrievalInv, RetrievalTypeOK, JobInOrder

LEMMA RecallInOrder ==
  ASSUME NEW asked \in Asked, Recall(asked)
  PROVE  JobInOrder'
<1>1. /\ job' = [step |-> "lexical", retired |-> asked.retired, semantic |-> asked.semantic,
                 dict |-> {}, cands |-> <<>>, seeds |-> {}, walked |-> {},
                 pending |-> {}, withheld |-> {}, began |-> Seen]
      /\ UNCHANGED vars
  BY DEF Recall
<1>2. UNCHANGED <<recordedSeq, supersededBy, edges>>
  BY <1>1 DEF vars, memoryVars, retirementVars
<1>3. DOMAIN <<>> = {}
  OBVIOUS
<1>4. BeganBefore'
  BY <1>1, <1>2 DEF BeganBefore, Seen, Stored, Live
<1>5. LoadedOnce'
  BY <1>1, <1>3 DEF LoadedOnce
<1>6. QED
  BY <1>1, <1>4, <1>5 DEF JobInOrder, RecallSteps, AnswerSteps

\* The job's part of the invariant while the store stands still, for a recall
\* that goes on.
LEMMA RecallGoesOn ==
  ASSUME RetrievalInv, UNCHANGED vars, job.step \in RecallSteps, job'.step \in RecallSteps,
         job'.began = job.began, LoadedOnce'
  PROVE  JobInOrder'
<1>1. UNCHANGED <<recordedSeq, supersededBy, edges>>
  BY DEF vars, memoryVars, retirementVars
<1>2. BeganBefore
  BY RecallFacts
<1>3. BeganBefore'
  BY <1>1, <1>2 DEF BeganBefore, Stored, Live
<1>4. QED
  BY <1>3 DEF JobInOrder, RecallSteps, AnswerSteps

LEMMA SearchTextInOrder ==
  ASSUME RetrievalInv, SearchText
  PROVE  JobInOrder'
<1> DEFINE hits(F) == {r \in F : Admitted(r)}
<1>1. PICK F \in Fetched(Matching \cap Stored) :
        job' = [job EXCEPT !.step = IF job.semantic THEN "semantic" ELSE "dictionary",
                           !.cands = With(@, hits(F), 0), !.seeds = hits(F), !.withheld = F \ hits(F)]
  BY DEF SearchText
<1>2. F \subseteq Stored
  BY <1>1, FetchedSome
<1>3. job.step = "lexical" /\ job.step \in RecallSteps
  BY DEF SearchText, RecallSteps
<1>4. job \in Recalling /\ BeganBefore /\ LoadedOnce
  BY <1>3, RecallFacts
<1>5. DOMAIN With(job.cands, hits(F), 0) = hits(F)
  BY <1>3, <1>4 DEF LoadedOnce, With
<1>6. /\ job'.step # "lexical" /\ job'.step \in RecallSteps
      /\ job'.began = job.began /\ job'.retired = job.retired /\ job'.pending = job.pending
      /\ DOMAIN job'.cands = hits(F) /\ job'.withheld = F \ hits(F)
  BY <1>1, <1>4, <1>5 DEF Recalling, RecallSteps
<1>7. UNCHANGED vars /\ UNCHANGED <<recordedSeq, supersededBy>>
  BY DEF SearchText, vars, memoryVars, retirementVars
<1>8. Stored' = Stored /\ Live' = Live
  BY <1>7 DEF Stored, Live
<1>9. job.pending = {}
  BY <1>3, <1>4 DEF LoadedOnce
<1>10. LoadedOnce'
  BY <1>2, <1>4, <1>6, <1>8, <1>9 DEF LoadedOnce, BeganBefore, Admitted
<1>11. QED
  BY <1>3, <1>6, <1>7, <1>10, RecallGoesOn

\* A branch, a walk or nothing adds to what is to be loaded.
LEMMA FoundInOrder ==
  ASSUME RetrievalInv, UNCHANGED vars, job.step \in RecallSteps,
         job'.step \in RecallSteps \ {"lexical"}, job'.began = job.began,
         job'.retired = job.retired, job'.withheld = job.withheld,
         DOMAIN job'.cands = DOMAIN job.cands,
         \A p \in job'.pending : p[1] \in Stored /\ p[1] \notin DOMAIN job.cands,
         \A p, q \in job'.pending : p[1] = q[1] => p = q
  PROVE  JobInOrder'
<1>1. Stored' = Stored /\ Live' = Live
  BY DEF Stored, Live, vars, memoryVars, retirementVars
<1>2. LoadedOnce
  BY RecallFacts
<1>3. LoadedOnce'
  BY <1>1, <1>2 DEF LoadedOnce
<1>4. QED
  BY <1>3, RecallGoesOn

LEMMA BranchInOrder ==
  ASSUME RetrievalInv, SearchVectors \/ ReadDictionary \/ SearchMentions
  PROVE  JobInOrder'
<1>1. job.step \in {"semantic", "dictionary", "entity"} /\ UNCHANGED vars
  BY Zenon DEF SearchVectors, ReadDictionary, SearchMentions
<1>2. job.step \in RecallSteps /\ job \in Recalling /\ vectors \subseteq Stored
  BY <1>1, RecallFacts DEF RecallSteps, RetrievalInv, RetrievalTypeOK
<1>3. ASSUME NEW R \in SUBSET Stored, NEW F \in Fetched(R),
             NEW step \in RecallSteps \ {"lexical"}, NEW dict,
             job' = [job EXCEPT !.step = step, !.dict = dict,
                                !.pending = (F \ DOMAIN job.cands) \X {0}]
      PROVE  JobInOrder'
  <2>1. F \subseteq Stored
    BY FetchedSome
  <2>2. /\ job'.step = step /\ job'.began = job.began /\ job'.retired = job.retired
        /\ job'.withheld = job.withheld /\ job'.cands = job.cands
        /\ job'.pending = (F \ DOMAIN job.cands) \X {0}
    BY <1>2, <1>3 DEF Recalling
  <2>3. QED
    BY <1>1, <1>2, <2>1, <2>2, FoundInOrder
<1>4. CASE SearchVectors
  <2>1. PICK F \in Fetched({r \in vectors : Admitted(r)}) :
         job' = [job EXCEPT !.step = "dictionary", !.pending = (F \ DOMAIN job.cands) \X {0}]
    BY <1>4 DEF SearchVectors
  <2>2. job' = [job EXCEPT !.step = "dictionary", !.dict = job.dict,
                           !.pending = (F \ DOMAIN job.cands) \X {0}]
    BY <1>2, <2>1 DEF Recalling
  <2>3. {r \in vectors : Admitted(r)} \in SUBSET Stored
    BY <1>2
  <2>4. QED
    BY <1>3, <2>2, <2>3 DEF RecallSteps
<1>5. CASE ReadDictionary
  <2>1. job' = [job EXCEPT !.step = "entity", !.dict = entities]
    BY <1>5 DEF ReadDictionary
  <2>2. job.pending = {}
    BY <1>5 DEF ReadDictionary
  <2>3. /\ job'.step = "entity" /\ job'.began = job.began /\ job'.retired = job.retired
        /\ job'.withheld = job.withheld /\ job'.cands = job.cands /\ job'.pending = {}
    BY <1>2, <2>1, <2>2 DEF Recalling
  <2>4. QED
    BY <1>1, <1>2, <2>3, FoundInOrder DEF RecallSteps
<1>6. CASE SearchMentions
  <2> DEFINE wanted    == {m.entity : m \in ExtractMentions(job.dict, Query)}
             shared(r) == {e \in wanted : \E x \in mentions : x.record = r /\ x.entity = e}
             found     == {r \in Stored : Admitted(r) /\ shared(r) # {}}
  <2>1. PICK F \in Fetched(found) :
          job' = [job EXCEPT !.step = "provenance", !.dict = {},
                             !.pending = (F \ DOMAIN job.cands) \X {0}]
    BY <1>6 DEF SearchMentions
  <2>2. found \in SUBSET Stored
    OBVIOUS
  <2> HIDE DEF found
  <2>3. QED
    BY <1>3, <2>1, <2>2 DEF RecallSteps
<1>7. QED
  BY <1>4, <1>5, <1>6

LEMMA LoadCandidateInOrder ==
  ASSUME RetrievalInv, LoadCandidate
  PROVE  JobInOrder'
<1>1. PICK p \in job.pending :
       job' = IF Admitted(p[1])
              THEN [job EXCEPT !.pending = @ \ {p},
                               !.cands = With(@, {p[1]}, p[2]),
                               !.seeds = IF p[2] = 0 THEN @ \cup {p[1]} ELSE @]
              ELSE [job EXCEPT !.pending = @ \ {p}, !.withheld = @ \cup {p[1]}]
  BY DEF LoadCandidate
<1>2. /\ job.step \in {"dictionary", "provenance"} /\ job.step \in RecallSteps
      /\ UNCHANGED vars /\ UNCHANGED <<recordedSeq, supersededBy>>
  BY DEF LoadCandidate, RecallSteps, vars, memoryVars, retirementVars
<1>3. job \in Recalling /\ BeganBefore /\ LoadedOnce
  BY <1>2, RecallFacts
<1>4. Stored' = Stored /\ Live' = Live
  BY <1>2 DEF Stored, Live
<1>5. /\ p[1] \in Stored /\ p[1] \notin DOMAIN job.cands
      /\ \A q \in job.pending \ {p} : q[1] # p[1]
  BY <1>1, <1>3 DEF LoadedOnce
<1>6. /\ job'.step = job.step /\ job'.began = job.began /\ job'.retired = job.retired
      /\ job'.pending = job.pending \ {p}
  BY <1>1, <1>3 DEF Recalling
<1>7. CASE Admitted(p[1])
  <2>1. DOMAIN job'.cands = DOMAIN job.cands \cup {p[1]} /\ job'.withheld = job.withheld
    BY <1>1, <1>3, <1>7 DEF Recalling, With
  <2>2. LoadedOnce'
    BY <1>2, <1>3, <1>4, <1>5, <1>6, <1>7, <2>1 DEF LoadedOnce, BeganBefore, Admitted
  <2>3. QED
    BY <1>2, <1>6, <2>2, RecallGoesOn
<1>8. CASE ~Admitted(p[1])
  <2>1. job'.cands = job.cands /\ job'.withheld = job.withheld \cup {p[1]}
    BY <1>1, <1>3, <1>8 DEF Recalling
  <2>2. LoadedOnce'
    BY <1>2, <1>3, <1>4, <1>5, <1>6, <1>8, <2>1 DEF LoadedOnce, Admitted
  <2>3. QED
    BY <1>2, <1>6, <2>2, RecallGoesOn
<1>9. QED
  BY <1>7, <1>8

LEMMA WalkInOrder ==
  ASSUME RetrievalInv, Walk
  PROVE  JobInOrder'
<1> DEFINE reached(s) == Traverse(edges, s)
           others(s) == DOMAIN reached(s) \ {s}
<1>1. PICK s \in job.seeds :
        job' = [job EXCEPT
                  !.seeds = @ \ {s},
                  !.walked = @ \cup {s},
                  !.cands = [r \in DOMAIN @ |-> IF r \in others(s) THEN Nearer(@[r], reached(s)[r])
                                                ELSE @[r]],
                  !.pending = {<<r, reached(s)[r]>> : r \in others(s) \ DOMAIN job.cands}]
  BY DEF Walk
<1> HIDE DEF reached
<1>2. job.step = "provenance" /\ job.step \in RecallSteps /\ UNCHANGED vars
  BY DEF Walk, RecallSteps
<1>3. job \in Recalling /\ s \in Record
  BY <1>1, <1>2, RecallFacts, RecallType DEF RetrievalInv, RetrievalTypeOK
<1>4. \A r \in others(s) : r \in Stored
  BY <1>3, Reached DEF RetrievalInv, Inv, TypeOK, reached
<1>5. /\ job'.step = job.step /\ job'.began = job.began /\ job'.retired = job.retired
      /\ job'.withheld = job.withheld /\ DOMAIN job'.cands = DOMAIN job.cands
      /\ job'.pending = {<<r, reached(s)[r]>> : r \in others(s) \ DOMAIN job.cands}
  BY <1>1, <1>3 DEF Recalling
<1>6. /\ \A p \in job'.pending : p[1] \in Stored /\ p[1] \notin DOMAIN job.cands
      /\ \A p, q \in job'.pending : p[1] = q[1] => p = q
  BY <1>4, <1>5
<1>7. QED
  BY <1>2, <1>5, <1>6, FoundInOrder

LEMMA ReadConflictsInOrder ==
  ASSUME RetrievalInv, ReadConflicts
  PROVE  JobInOrder'
<1>1. \E H \in SUBSET DOMAIN job.cands :
        job' = [step |-> "recalled", hits |-> H, conflicts |-> ContradictionsIn(edges),
                known |-> ContradictionsIn(job.began.edges)]
  BY DEF ReadConflicts
<1>2. /\ job'.step = "recalled" /\ job'.conflicts = ContradictionsIn(edges)
      /\ job'.known = ContradictionsIn(job.began.edges)
  BY <1>1
<1>3. job.began.edges \subseteq edges
  BY RecallFacts DEF ReadConflicts, Gathered, RecallSteps, BeganBefore
<1>4. job'.known \subseteq job'.conflicts
  BY <1>2, <1>3 DEF ContradictionsIn
<1>5. QED
  BY <1>2, <1>4 DEF JobInOrder, RecallSteps, AnswerSteps

---------------------------------------------------------------------------
(* Answers.                                                                *)

LEMMA SubmitAnswerInOrder ==
  ASSUME RetrievalInv, NEW cited \in Cited, NEW acked \in Acked, SubmitAnswer(cited, acked)
  PROVE  JobInOrder'
<1>1. /\ job.step \in {"idle", "recalled"}
      /\ job' = [step |-> "lookup", cited |-> cited, acked |-> acked, left |-> cited, owed |-> {},
                 flagged |-> ContradictionsIn(edges), told |-> ToldOf(cited, acked)]
      /\ UNCHANGED edges
  BY DEF SubmitAnswer, vars
<1>2. ASSUME NEW r \in cited, NEW s \in Record, {<<r, s>>, <<s, r>>} \cap ToldOf(cited, acked) # {}
      PROVE  {<<r, s>>, <<s, r>>} \cap acked # {}
  <2>1. /\ job.step = "recalled" /\ ToldOf(cited, acked) = job.known
        /\ \A x \in cited : \A y \in ConflictsWith(x) : {<<x, y>>, <<y, x>>} \cap acked # {}
    BY <1>2 DEF ToldOf
  <2>2. job.known \subseteq job.conflicts
    BY <2>1 DEF RetrievalInv, JobInOrder
  <2>3. s \in ConflictsWith(r)
    BY <1>2, <2>1, <2>2 DEF ConflictsWith
  <2>4. QED
    BY <2>1, <2>3
<1>3. ToldAcknowledged'
  BY <1>1, <1>2 DEF ToldAcknowledged
<1>4. OwedSoFar'
  BY <1>1 DEF OwedSoFar
<1>5. AnswerInOrder'
  BY <1>1, <1>3, <1>4 DEF AnswerInOrder
<1>6. QED
  BY <1>1, <1>5 DEF JobInOrder, RecallSteps

LEMMA LookUpCitedInOrder ==
  ASSUME RetrievalInv, LookUpCited
  PROVE  JobInOrder'
<1>1. job.step = "lookup" /\ job.step \in AnswerSteps /\ UNCHANGED edges
  BY DEF LookUpCited, AnswerSteps, vars
<1>2. job \in Answer /\ AnswerInOrder
  BY <1>1, AnswerType DEF RetrievalInv, RetrievalTypeOK, JobInOrder
<1>3. PICK r \in job.left :
          job' = IF r \notin Stored THEN NoJob
                 ELSE IF job.left = {r} THEN [job EXCEPT !.step = "obligations", !.left = job.cited]
                 ELSE [job EXCEPT !.left = @ \ {r}]
  BY DEF LookUpCited
<1>4. CASE job' = NoJob
  BY <1>4 DEF NoJob, JobInOrder, RecallSteps, AnswerSteps
<1>5. ASSUME job' # NoJob
      PROVE  AnswerInOrder' /\ job'.step \in AnswerSteps
  <2>1. \/ job' = [job EXCEPT !.step = "obligations", !.left = job.cited]
        \/ job' = [job EXCEPT !.left = @ \ {r}]
    BY <1>3, <1>5
  <2>2. /\ \/ job'.step = "obligations" /\ job'.left = job.cited
           \/ job'.step = "lookup" /\ job'.left = job.left \ {r}
        /\ job'.cited = job.cited /\ job'.acked = job.acked /\ job'.owed = job.owed
        /\ job'.flagged = job.flagged /\ job'.told = job.told
    BY <1>1, <1>2, <2>1 DEF Answer
  <2>3. OwedSoFar' /\ ToldAcknowledged'
    BY <1>2, <2>2 DEF AnswerInOrder, OwedSoFar, ToldAcknowledged
  <2>4. QED
    BY <1>1, <1>2, <2>2, <2>3 DEF AnswerInOrder, AnswerSteps
<1>6. QED
  BY <1>4, <1>5 DEF JobInOrder, RecallSteps, AnswerSteps

LEMMA ReadObligationsInOrder ==
  ASSUME RetrievalInv, ReadObligations
  PROVE  JobInOrder'
<1> DEFINE owed(r) == job.owed \cup Obligations(r)
<1>1. /\ job.step = "obligations" /\ job.step \in AnswerSteps
      /\ UNCHANGED <<edges, recordedSeq, supersededBy>>
  BY DEF ReadObligations, AnswerSteps, vars, memoryVars, retirementVars
<1>2. job \in Answer /\ AnswerInOrder /\ job.left \in SUBSET Record
  BY <1>1, AnswerType DEF RetrievalInv, RetrievalTypeOK, JobInOrder
<1>3. PICK r \in job.left :
        job' = [job EXCEPT !.left = @ \ {r},
                           !.owed = owed(r),
                           !.step = IF job.left # {r} THEN @
                                    ELSE IF Outstanding(owed(r)) = {} THEN "accepted"
                                    ELSE "refused"]
  BY DEF ReadObligations
<1>4. Obligations(r) \in SUBSET ({r} \X Record) /\ r \in Record /\ r \in job.cited
  BY <1>2, <1>3, ObligationsType DEF AnswerInOrder
<1> HIDE DEF owed
<1>5. /\ job'.left = job.left \ {r} /\ job'.owed = owed(r)
      /\ job'.cited = job.cited /\ job'.acked = job.acked
      /\ job'.flagged = job.flagged /\ job'.told = job.told
      /\ job'.step \in {"obligations", "accepted", "refused"}
      /\ job'.step = "accepted" => job.left = {r} /\ Outstanding(owed(r)) = {}
  BY <1>1, <1>2, <1>3 DEF Answer
<1>6. job.flagged \subseteq ContradictionsIn(edges) /\ Live' = Live
  BY <1>1, <1>2 DEF AnswerInOrder, Live, Stored
<1>7. OwedSoFar'
  <2> SUFFICES ASSUME NEW x \in job.cited \ (job.left \ {r}), NEW s \in Record,
                      {x, s} \subseteq Live, {<<x, s>>, <<s, x>>} \cap job.flagged # {}
               PROVE  <<x, s>> \in owed(r)
    BY <1>5, <1>6 DEF OwedSoFar
  <2>1. CASE x = r
    <3>1. <<r, s>> \in Obligations(r)
      BY <1>6, <2>1 DEF Obligations
    <3>2. QED
      BY <2>1, <3>1 DEF owed
  <2>2. CASE x # r
    <3>1. <<x, s>> \in job.owed
      BY <1>1, <1>2, <2>2 DEF AnswerInOrder, OwedSoFar
    <3>2. QED
      BY <3>1 DEF owed
  <2>3. QED
    BY <2>1, <2>2
<1>8. \A p \in job'.owed : p[1] \in job'.cited
  BY <1>2, <1>4, <1>5 DEF AnswerInOrder, owed
<1>9. job'.step = "accepted" => job'.left = {} /\ Outstanding(job.owed)' = {}
  BY <1>5 DEF Outstanding
<1>10. AnswerInOrder'
  BY <1>1, <1>2, <1>5, <1>7, <1>8, <1>9 DEF AnswerInOrder, ToldAcknowledged
<1>11. QED
  BY <1>5, <1>10 DEF JobInOrder, RecallSteps

---------------------------------------------------------------------------
LEMMA RetrievalInitInv == RetrievalInit => RetrievalInv
<1> SUFFICES ASSUME RetrievalInit PROVE RetrievalInv
  OBVIOUS
<1>1. job = NoJob /\ entities = {} /\ mentions = {} /\ vectors = {} /\ Init
  BY DEF RetrievalInit
<1>2. RetrievalTypeOK
  BY <1>1 DEF RetrievalTypeOK, Job
<1>3. JobInOrder
  BY <1>1 DEF JobInOrder, NoJob, RecallSteps, AnswerSteps
<1>4. QED
  BY <1>1, <1>2, <1>3, InitInv DEF RetrievalInv

\* Every step keeps the invariant.
LEMMA RetrievalStepInv == RetrievalInv /\ [RetrievalNext]_retrievalVars => RetrievalInv'
<1> SUFFICES ASSUME RetrievalInv, [RetrievalNext]_retrievalVars
             PROVE  RetrievalInv'
  OBVIOUS
<1>1. [Next]_vars
  BY StoreStep
<1>2. Inv' /\ RetrievalTypeOK'
  BY <1>1, StepInv, RetrievalTypeStep DEF RetrievalInv
<1>3. CASE UNCHANGED job
  BY <1>1, <1>2, <1>3, WritersKeepJob DEF RetrievalInv
<1>4. CASE Retrieving
  <2>1. JobInOrder'
    BY <1>4, RecallInOrder, SearchTextInOrder, BranchInOrder, LoadCandidateInOrder, WalkInOrder,
       ReadConflictsInOrder DEF Retrieving
  <2>2. QED
    BY <1>2, <2>1 DEF RetrievalInv
<1>5. CASE Answering
  <2>1. JobInOrder'
    BY <1>5, SubmitAnswerInOrder, LookUpCitedInOrder, ReadObligationsInOrder DEF Answering
  <2>2. QED
    BY <1>2, <2>1 DEF RetrievalInv
<1>6. CASE Finish
  BY <1>2, <1>6 DEF Finish, RetrievalInv, JobInOrder, NoJob, RecallSteps, AnswerSteps
<1>7. Retrieving \/ Answering \/ Finish \/ UNCHANGED job
  BY Zenon DEF RetrievalNext, Writing, IngestAndIndex, PutEmbedding, retrievalVars
<1>8. QED
  BY <1>3, <1>4, <1>5, <1>6, <1>7

\* Whatever writers do between its statements, a recall and an answer stay in
\* order with the store.
THEOREM RetrievalInvariance == RetrievalSpec => []RetrievalInv
  BY RetrievalInitInv, RetrievalStepInv, PTL DEF RetrievalSpec

---------------------------------------------------------------------------
\* No claim retired before a recall began is among its candidates.
THEOREM NoHitIsRetired == RetrievalSpec => []NoRetiredHits
<1>1. RetrievalInv => NoRetiredHits
  BY RecallFacts DEF NoRetiredHits, Gathered, LoadedOnce, RecallSteps
<1>2. QED
  BY <1>1, RetrievalInvariance, PTL

\* What a recall reports as withheld is retired and no candidate.
THEOREM WithheldIsRetired == RetrievalSpec => []WithheldAreRetired
<1>1. RetrievalInv => WithheldAreRetired
  BY RecallFacts DEF WithheldAreRetired, Gathered, LoadedOnce, RecallSteps
<1>2. QED
  BY <1>1, RetrievalInvariance, PTL

\* No answer is accepted over a conflict flagged before it was submitted.
THEOREM AcceptedAnswersAccount == RetrievalSpec => []AnswersAccountFor
<1>1. RetrievalInv => AnswersAccountFor
  <2> SUFFICES ASSUME RetrievalInv, job.step = "accepted", NEW p \in job.flagged,
                      {p[1], p[2]} \subseteq Live, {p[1], p[2]} \cap job.cited # {}
               PROVE  {p, <<p[2], p[1]>>} \cap job.acked # {}
    BY DEF AnswersAccountFor
  <2>1. job.step \in AnswerSteps
    BY DEF AnswerSteps
  <2>2. /\ job.left = {} /\ Outstanding(job.owed) = {} /\ OwedSoFar
        /\ job.flagged \in SUBSET (Record \X Record)
    BY <2>1, AnswerType DEF RetrievalInv, RetrievalTypeOK, JobInOrder, AnswerInOrder
  <2>3. p = <<p[1], p[2]>> /\ p[1] \in Record /\ p[2] \in Record
    BY <2>2
  <2>4. <<p[1], p[2]>> \in job.owed \/ <<p[2], p[1]>> \in job.owed
    BY <2>2, <2>3 DEF OwedSoFar
  <2>5. QED
    BY <2>2, <2>3, <2>4 DEF Outstanding
<1>2. QED
  BY <1>1, RetrievalInvariance, PTL

\* Who acknowledges what a recall reports is refused only for news.
THEOREM RefusalsAreForNews == RetrievalSpec => []RefusalsAreNews
<1>1. RetrievalInv => RefusalsAreNews
  <2> SUFFICES ASSUME RetrievalInv, job.step = "refused", NEW p \in Outstanding(job.owed),
                      {p, <<p[2], p[1]>>} \cap job.told # {}
               PROVE  FALSE
    BY DEF RefusalsAreNews
  <2>1. job.step \in AnswerSteps
    BY DEF AnswerSteps
  <2>2. AnswerInOrder /\ job.owed \in SUBSET (Record \X Record)
    BY <2>1, AnswerType DEF RetrievalInv, RetrievalTypeOK, JobInOrder
  <2>3. /\ p \in job.owed /\ {p, <<p[2], p[1]>>} \cap job.acked = {}
        /\ p = <<p[1], p[2]>> /\ p[2] \in Record
    BY <2>2 DEF Outstanding
  <2>4. p[1] \in job.cited
    BY <2>2, <2>3 DEF AnswerInOrder
  <2>5. {<<p[1], p[2]>>, <<p[2], p[1]>>} \cap job.acked # {}
    BY <2>2, <2>3, <2>4 DEF AnswerInOrder, ToldAcknowledged
  <2>6. QED
    BY <2>3, <2>5
<1>2. QED
  BY <1>1, RetrievalInvariance, PTL

---------------------------------------------------------------------------
(* Reach.                                                                  *)

\* What holds of none and of each number after one that it holds of holds of
\* all up to a bound.
LEMMA Climbs ==
  ASSUME NEW m \in Nat, NEW T \in SUBSET (0..m), 0 \in T,
         \A n \in 1..m : n - 1 \in T => n \in T
  PROVE  T = 0..m
<1> DEFINE missed == (0..m) \ T
<1> SUFFICES ASSUME missed # {}
             PROVE  FALSE
  OBVIOUS
<1>1. Min(missed) \in missed /\ \A y \in missed : Min(missed) <= y
  BY LeastOfNats
<1>2. PICK n \in missed : \A y \in missed : n <= y
  BY <1>1
<1>3. n \in 1..m /\ n - 1 \in 0..m
  BY <1>2
<1>4. n - 1 \notin missed
  BY <1>2, <1>3
<1>5. QED
  BY <1>2, <1>3, <1>4

(* One hop, by an edge in any direction.                                   *)
Hops(E, x, y) == \E e \in E : {y, x} = {e[1], e[2]}

\* Edges are followed in both directions.
LEMMA AdjacentHops ==
  ASSUME NEW E \in SUBSET Edge, NEW x, NEW y
  PROVE  <<x, y>> \in Adjacent(E) <=> Hops(E, x, y)
<1>1. ASSUME NEW e \in E
      PROVE  {y, x} = {e[1], e[2]} <=> <<x, y>> = <<e[1], e[2]>> \/ <<x, y>> = <<e[2], e[1]>>
  OBVIOUS
<1>2. QED
  BY <1>1 DEF Adjacent, Hops

(* What n steps reach, each a hop or none.                                 *)
Strolls(E, s, n) ==
  {q \in [0..n -> Record] : q[0] = s /\ \A i \in 1..n : q[i] = q[i - 1] \/ Hops(E, q[i - 1], q[i])}

\* Reach, hop by hop: the recursive definition has a solution, what strolls
\* reach, so it says what it seems to say.
LEMMA WithinSteps ==
  ASSUME NEW E, NEW s \in Record
  PROVE  /\ Within(E, s)[0] = {s}
         /\ \A n \in 1..MaxHops : \A x :
              x \in Within(E, s)[n] <=> \/ x \in Within(E, s)[n - 1]
                                        \/ /\ x \in Record
                                           /\ \E y \in Within(E, s)[n - 1] : Hops(E, y, x)
<1> DEFINE step(g) ==
             [n \in 0..MaxHops |->
                IF n = 0 THEN {s}
                ELSE g[n - 1] \cup {x \in Record : \E e \in E, y \in g[n - 1] : {x, y} = {e[1], e[2]}}]
           f == [n \in 0..MaxHops |-> {q[n] : q \in Strolls(E, s, n)}]
<1>1. Within(E, s) = CHOOSE g : g = step(g)
  BY DEF Within
<1>2. f = step(f)
  <2>1. {q[0] : q \in Strolls(E, s, 0)} = {s}
    <3>1. [i \in 0..0 |-> s] \in Strolls(E, s, 0)
      BY DEF Strolls
    <3>2. s \in {q[0] : q \in Strolls(E, s, 0)}
      BY <3>1
    <3>3. QED
      BY <3>2 DEF Strolls
  <2>2. ASSUME NEW n \in 1..MaxHops, NEW q \in Strolls(E, s, n)
        PROVE  /\ q[n - 1] \in {p[n - 1] : p \in Strolls(E, s, n - 1)}
               /\ q[n] = q[n - 1] \/ Hops(E, q[n - 1], q[n])
               /\ q[n] \in Record
    <3> DEFINE p == [i \in 0..n - 1 |-> q[i]]
    <3>1. n \in Nat /\ n - 1 \in 0..n - 1 /\ 0 \in 0..n - 1 /\ n \in 1..n /\ n \in 0..n
      BY RetrievalBounds
    <3>2. /\ q \in [0..n -> Record] /\ q[0] = s
          /\ \A i \in 1..n : q[i] = q[i - 1] \/ Hops(E, q[i - 1], q[i])
      BY DEF Strolls
    <3>3. \A i \in 0..n - 1 : i \in 0..n
      BY <3>1
    <3>4. \A i \in 1..n - 1 : i \in 1..n /\ i \in 0..n - 1 /\ i - 1 \in 0..n - 1
      BY <3>1
    <3>5. p \in [0..n - 1 -> Record]
      BY <3>2, <3>3
    <3>6. p \in Strolls(E, s, n - 1)
      BY <3>1, <3>2, <3>4, <3>5 DEF Strolls
    <3>7. p[n - 1] = q[n - 1]
      BY <3>1
    <3>8. QED
      BY <3>1, <3>2, <3>6, <3>7
  <2>3. ASSUME NEW n \in 1..MaxHops, NEW p \in Strolls(E, s, n - 1), NEW x \in Record,
               x = p[n - 1] \/ Hops(E, p[n - 1], x)
        PROVE  x \in {q[n] : q \in Strolls(E, s, n)}
    <3> DEFINE q == [i \in 0..n |-> IF i = n THEN x ELSE p[i]]
    <3>1. n \in Nat /\ n - 1 \in 0..n - 1 /\ 0 \in 0..n /\ 0 # n /\ n \in 0..n
      BY RetrievalBounds
    <3>2. /\ p \in [0..n - 1 -> Record] /\ p[0] = s
          /\ \A i \in 1..n - 1 : p[i] = p[i - 1] \/ Hops(E, p[i - 1], p[i])
      BY DEF Strolls
    <3>3. \A i \in 0..n : i # n => i \in 0..n - 1
      BY <3>1
    <3>4. q \in [0..n -> Record] /\ q[0] = s /\ q[n] = x
      BY <3>1, <3>2, <3>3
    <3>5. ASSUME NEW i \in 1..n
          PROVE  q[i] = q[i - 1] \/ Hops(E, q[i - 1], q[i])
      <4>1. i - 1 \in 0..n /\ i - 1 # n /\ i \in 0..n /\ (i # n => i \in 1..n - 1)
        BY <3>1
      <4>2. q[i - 1] = p[i - 1] /\ (i # n => q[i] = p[i])
        BY <4>1
      <4>3. CASE i = n
        BY <2>3, <3>4, <4>2, <4>3
      <4>4. CASE i # n
        BY <3>2, <4>1, <4>2, <4>4
      <4>5. QED
        BY <4>3, <4>4
    <3> HIDE DEF q
    <3>6. q \in Strolls(E, s, n)
      BY <3>4, <3>5 DEF Strolls
    <3>7. QED
      BY <3>4, <3>6
  <2>4. ASSUME NEW n \in 1..MaxHops
        PROVE  f[n] = f[n - 1] \cup {x \in Record : \E e \in E, y \in f[n - 1] : {x, y} = {e[1], e[2]}}
    <3>1. n \in 0..MaxHops /\ n - 1 \in 0..MaxHops /\ n - 1 \in 0..n - 1
      BY RetrievalBounds
    <3>2. /\ f[n] = {q[n] : q \in Strolls(E, s, n)}
          /\ f[n - 1] = {q[n - 1] : q \in Strolls(E, s, n - 1)}
      BY <3>1
    <3> HIDE DEF f
    <3>3. \A x \in f[n] : x \in Record /\ \E y \in f[n - 1] : x = y \/ Hops(E, y, x)
      BY <2>2, <3>2
    <3>4. \A x \in Record : (\E y \in f[n - 1] : x = y \/ Hops(E, y, x)) => x \in f[n]
      BY <2>3, <3>2
    <3>5. f[n - 1] \subseteq Record
      BY <3>1, <3>2 DEF Strolls
    <3>6. QED
      BY <3>3, <3>4, <3>5 DEF Hops
  <2>5. ASSUME NEW n \in 0..MaxHops
        PROVE  f[n] = step(f)[n]
    <3>1. CASE n = 0
      <4>1. f[0] = {s}
        BY <2>1, <3>1
      <4> HIDE DEF f
      <4>2. QED
        BY <3>1, <4>1
    <3>2. CASE n # 0
      <4>1. n \in 1..MaxHops
        BY <3>2, RetrievalBounds
      <4>2. f[n] = f[n - 1] \cup {x \in Record : \E e \in E, y \in f[n - 1] : {x, y} = {e[1], e[2]}}
        BY <2>4, <4>1
      <4> HIDE DEF f
      <4>3. QED
        BY <3>2, <4>2
    <3>3. QED
      BY <3>1, <3>2
  <2>6. QED
    BY <2>5
<1> HIDE DEF f, step
<1>3. \E g : g = step(g)
  BY <1>2
<1>4. Within(E, s) = step(Within(E, s))
  BY <1>1, <1>3
<1>5. ASSUME NEW g, g = step(g)
      PROVE  /\ g[0] = {s}
             /\ \A n \in 1..MaxHops :
                  g[n] = g[n - 1] \cup {x \in Record : \E e \in E, y \in g[n - 1] : {x, y} = {e[1], e[2]}}
  <2>1. 0 \in 0..MaxHops /\ \A n \in 1..MaxHops : n \in 0..MaxHops /\ n # 0
    BY RetrievalBounds
  <2>2. \A n \in 0..MaxHops :
          g[n] = IF n = 0 THEN {s}
                 ELSE g[n - 1] \cup {x \in Record : \E e \in E, y \in g[n - 1] : {x, y} = {e[1], e[2]}}
    BY <1>5, Zenon DEF step
  <2>3. QED
    BY <2>1, <2>2
<1>6. /\ Within(E, s)[0] = {s}
      /\ \A n \in 1..MaxHops :
           Within(E, s)[n] = Within(E, s)[n - 1]
             \cup {x \in Record : \E e \in E, y \in Within(E, s)[n - 1] : {x, y} = {e[1], e[2]}}
  BY <1>4, <1>5, Zenon
<1>7. ASSUME NEW n \in 1..MaxHops, NEW x
      PROVE  x \in Within(E, s)[n] <=> \/ x \in Within(E, s)[n - 1]
                                       \/ /\ x \in Record
                                          /\ \E y \in Within(E, s)[n - 1] : Hops(E, y, x)
  <2> DEFINE W == Within(E, s)[n - 1]
  <2>1. Within(E, s)[n] = W \cup {z \in Record : \E e \in E, y \in W : {z, y} = {e[1], e[2]}}
    BY <1>6
  <2> HIDE DEF W
  <2>2. x \in Within(E, s)[n] <=> x \in W \/ (x \in Record /\ \E e \in E, y \in W : {x, y} = {e[1], e[2]})
    BY <2>1, Zenon
  <2>3. (\E e \in E, y \in W : {x, y} = {e[1], e[2]}) <=> \E y \in W : Hops(E, y, x)
    BY Zenon DEF Hops
  <2>4. QED
    BY <2>2, <2>3, Zenon DEF W
<1>8. QED
  BY <1>6, <1>7, Zenon

\* More hops reach no less, and so do more edges.
LEMMA WithinGrows ==
  ASSUME NEW E, NEW F, E \subseteq F, NEW s \in Record, NEW n \in 0..MaxHops
  PROVE  /\ Within(E, s)[n] \subseteq Record
         /\ Within(E, s)[n] \subseteq Within(F, s)[n]
         /\ \A m \in 0..n : Within(E, s)[m] \subseteq Within(E, s)[n]
<1> DEFINE V(k) == Within(E, s)[k]
           W(k) == Within(F, s)[k]
           T == {k \in 0..MaxHops : /\ V(k) \subseteq Record
                                    /\ V(k) \subseteq W(k)
                                    /\ \A m \in 0..k : V(m) \subseteq V(k)}
<1>1. /\ V(0) = {s}
      /\ \A k \in 1..MaxHops : \A x :
           x \in V(k) <=> x \in V(k - 1) \/ (x \in Record /\ \E y \in V(k - 1) : Hops(E, y, x))
  BY WithinSteps
<1>2. /\ W(0) = {s}
      /\ \A k \in 1..MaxHops : \A x :
           x \in W(k) <=> x \in W(k - 1) \/ (x \in Record /\ \E y \in W(k - 1) : Hops(F, y, x))
  BY WithinSteps
<1> HIDE DEF V, W
<1>3. MaxHops \in Nat
  BY RetrievalBounds
<1>4. 0 \in T
  BY <1>1, <1>2, <1>3
<1>5. ASSUME NEW k \in 1..MaxHops, k - 1 \in T
      PROVE  k \in T
  <2>1. \A x, y : Hops(E, y, x) => Hops(F, y, x)
    BY DEF Hops
  <2>2. V(k) \subseteq Record /\ V(k) \subseteq W(k) /\ V(k - 1) \subseteq V(k)
    BY <1>1, <1>2, <1>5, <2>1
  <2>3. \A m \in 0..k : m = k \/ m \in 0..k - 1
    BY <1>3
  <2>4. \A m \in 0..k : V(m) \subseteq V(k)
    BY <1>5, <2>2, <2>3
  <2>5. QED
    BY <1>3, <2>2, <2>4
<1>6. T = 0..MaxHops
  BY <1>3, <1>4, <1>5, Climbs
<1>7. QED
  BY <1>6 DEF V, W

\* A walk of some hops stays within as many.
LEMMA WalkIsWithin ==
  ASSUME NEW E \in SUBSET Edge, NEW s \in Record, NEW n \in 0..MaxHops, NEW q \in [1..n + 1 -> Record],
         q[1] = s, \A i \in 1..n : <<q[i], q[i + 1]>> \in Adjacent(E)
  PROVE  q[n + 1] \in Within(E, s)[n]
<1> DEFINE T == {k \in 0..n : q[k + 1] \in Within(E, s)[k]}
<1>1. n \in Nat /\ \A k \in 1..n : k \in 1..MaxHops
  BY RetrievalBounds
<1>2. 0 \in T
  BY <1>1, WithinSteps
<1>3. ASSUME NEW k \in 1..n, k - 1 \in T
      PROVE  k \in T
  <2>1. q[k] \in Within(E, s)[k - 1]
    BY <1>1, <1>3
  <2>2. Hops(E, q[k], q[k + 1])
    BY AdjacentHops
  <2>3. q[k + 1] \in Record
    BY <1>1
  <2>4. QED
    BY <1>1, <2>1, <2>2, <2>3, WithinSteps
<1>4. T = 0..n
  BY <1>1, <1>2, <1>3, Climbs
<1>5. QED
  BY <1>1, <1>4

(* A walk of some hops from s that ends at x and never comes back.         *)
WalksTo(E, s, n, x) ==
  {q \in [1..n + 1 -> Record] :
     /\ q[1] = s
     /\ q[n + 1] = x
     /\ IsInjective(q)
     /\ \A i \in 1..n : <<q[i], q[i + 1]>> \in Adjacent(E)}

\* One hop more ends a walk, or the walk has been there and is cut short.
LEMMA WalkGoesOn ==
  ASSUME NEW E, NEW s \in Record, NEW n \in Nat, NEW y, NEW q \in WalksTo(E, s, n, y),
         NEW x \in Record, <<y, x>> \in Adjacent(E)
  PROVE  \E m \in 0..n + 1 : WalksTo(E, s, m, x) # {}
<1>1. /\ q \in [1..n + 1 -> Record] /\ q[1] = s /\ q[n + 1] = y
      /\ IsInjective(q)
      /\ \A i \in 1..n : <<q[i], q[i + 1]>> \in Adjacent(E)
  BY DEF WalksTo
<1>2. CASE \E k \in 1..n + 1 : q[k] = x
  <2>1. PICK k \in 1..n + 1 : q[k] = x
    BY <1>2
  <2> DEFINE m == k - 1
             p == [i \in 1..k |-> q[i]]
  <2>2. m \in 0..n + 1 /\ m + 1 = k /\ k \in Nat /\ 1 \in 1..k /\ k \in 1..k
    OBVIOUS
  <2>3. \A i \in 1..k : i \in 1..n + 1
    OBVIOUS
  <2>4. \A i \in 1..m : i \in 1..n /\ i \in 1..k /\ i + 1 \in 1..k
    OBVIOUS
  <2>5. p \in [1..k -> Record] /\ p[1] = s /\ p[k] = x
    BY <1>1, <2>1, <2>2, <2>3
  <2>6. IsInjective(p)
    BY <1>1, <2>3 DEF IsInjective
  <2>7. \A i \in 1..m : <<p[i], p[i + 1]>> \in Adjacent(E)
    BY <1>1, <2>4
  <2> HIDE DEF p
  <2>8. p \in WalksTo(E, s, m, x)
    BY <2>2, <2>5, <2>6, <2>7 DEF WalksTo
  <2>9. QED
    BY <2>2, <2>8
<1>3. CASE \A k \in 1..n + 1 : q[k] # x
  <2> DEFINE p == [i \in 1..n + 2 |-> IF i = n + 2 THEN x ELSE q[i]]
  <2>1. \A i \in 1..n + 2 : i # n + 2 => i \in 1..n + 1
    OBVIOUS
  <2>2. 1 \in 1..n + 2 /\ n + 2 \in 1..n + 2 /\ 1 # n + 2 /\ (n + 1) + 1 = n + 2 /\ n + 1 \in 0..n + 1
    OBVIOUS
  <2>3. p \in [1..n + 2 -> Record] /\ p[1] = s /\ p[n + 2] = x
    BY <1>1, <2>1, <2>2
  <2>4. IsInjective(p)
    BY <1>1, <1>3, <2>1 DEF IsInjective
  <2>5. ASSUME NEW i \in 1..n + 1
        PROVE  <<p[i], p[i + 1]>> \in Adjacent(E)
    <3>1. i \in 1..n + 2 /\ i # n + 2 /\ i + 1 \in 1..n + 2 /\ (i = n + 1 \/ (i \in 1..n /\ i + 1 # n + 2))
      OBVIOUS
    <3>2. p[i] = q[i]
      BY <3>1
    <3>3. CASE i = n + 1
      BY <1>1, <3>2, <3>3, <2>2, <2>3
    <3>4. CASE i \in 1..n /\ i + 1 # n + 2
      BY <1>1, <3>1, <3>2, <3>4
    <3>5. QED
      BY <3>1, <3>3, <3>4
  <2> HIDE DEF p
  <2>6. p \in WalksTo(E, s, n + 1, x)
    BY <2>2, <2>3, <2>4, <2>5 DEF WalksTo
  <2>7. QED
    BY <2>2, <2>6
<1>4. QED
  BY <1>2, <1>3

\* What is within some hops is walked to in no more.
LEMMA WithinIsWalked ==
  ASSUME NEW E \in SUBSET Edge, NEW s \in Record, NEW n \in 0..MaxHops, NEW x \in Within(E, s)[n]
  PROVE  \E m \in 0..n : WalksTo(E, s, m, x) # {}
<1> DEFINE T == {k \in 0..n : \A z \in Within(E, s)[k] : \E m \in 0..k : WalksTo(E, s, m, z) # {}}
<1>1. n \in Nat /\ n \in 0..n /\ (\A k \in 1..n : k \in 1..MaxHops) /\ 0 \in 0..n
  BY RetrievalBounds
<1>2. 0 \in T
  <2> DEFINE q == [i \in 1..1 |-> s]
  <2>1. q \in [1..0 + 1 -> Record] /\ q[1] = s /\ q[0 + 1] = s /\ IsInjective(q) /\ 1..0 = {}
    BY DEF IsInjective
  <2> HIDE DEF q
  <2>2. q \in WalksTo(E, s, 0, s)
    BY <2>1 DEF WalksTo
  <2>3. Within(E, s)[0] = {s}
    BY WithinSteps
  <2>4. QED
    BY <1>1, <2>2, <2>3
<1>3. ASSUME NEW k \in 1..n, k - 1 \in T
      PROVE  k \in T
  <2> SUFFICES ASSUME NEW z \in Within(E, s)[k]
               PROVE  \E m \in 0..k : WalksTo(E, s, m, z) # {}
    BY <1>1
  <2>1. \A m \in 0..k - 1 : m \in 0..k /\ m + 1 \in 0..k /\ m \in Nat /\ \A j \in 0..m + 1 : j \in 0..k
    BY <1>1
  <2>2. CASE z \in Within(E, s)[k - 1]
    BY <1>3, <2>1, <2>2
  <2>3. CASE z \notin Within(E, s)[k - 1]
    <3>1. z \in Record /\ \E y \in Within(E, s)[k - 1] : Hops(E, y, z)
      BY <1>1, <2>3, WithinSteps
    <3>2. PICK y \in Within(E, s)[k - 1] : Hops(E, y, z)
      BY <3>1
    <3>3. <<y, z>> \in Adjacent(E)
      BY <3>2, AdjacentHops
    <3>4. PICK m \in 0..k - 1 : WalksTo(E, s, m, y) # {}
      BY <1>3
    <3>5. PICK q \in WalksTo(E, s, m, y) : TRUE
      BY <3>4
    <3>6. \E j \in 0..m + 1 : WalksTo(E, s, j, z) # {}
      BY <2>1, <3>1, <3>3, <3>5, WalkGoesOn
    <3>7. QED
      BY <2>1, <3>6
  <2>4. QED
    BY <2>2, <2>3
<1>4. T = 0..n
  BY <1>1, <1>2, <1>3, Climbs
<1>5. QED
  BY <1>1, <1>4

\* Store::traverse finds everything within the bound on the hops, at its
\* shortest distance.
LEMMA TraverseShortest ==
  ASSUME NEW E \in SUBSET Edge, NEW s \in Record
  PROVE  /\ \A n \in 0..MaxHops : \A r \in Within(E, s)[n] :
              r \in DOMAIN Traverse(E, s) /\ Traverse(E, s)[r] <= n
         /\ \A r \in DOMAIN Traverse(E, s) :
              /\ Traverse(E, s)[r] \in 0..MaxHops
              /\ r \in Within(E, s)[Traverse(E, s)[r]]
              /\ r # s => Traverse(E, s)[r] > 0
<1> DEFINE hops(r) == {Len(p) - 1 : p \in {q \in Walks(E, s) : Last(q) = r}}
<1>0. MaxHops \in Nat
  BY RetrievalBounds
<1>1. Traverse(E, s) = [r \in {Last(p) : p \in Walks(E, s)} |-> Min(hops(r))]
  BY DEF Traverse
<1>2. ASSUME NEW n \in 0..MaxHops, NEW r, NEW q \in WalksTo(E, s, n, r)
      PROVE  q \in Walks(E, s) /\ Last(q) = r /\ Len(q) - 1 = n
  <2>1. /\ q \in [1..n + 1 -> Record] /\ q[1] = s /\ q[n + 1] = r /\ IsInjective(q)
        /\ \A i \in 1..n : <<q[i], q[i + 1]>> \in Adjacent(E)
    BY DEF WalksTo
  <2>2. n \in Nat
    BY <1>0
  <2>3. Len(q) = n + 1 /\ Last(q) = q[n + 1]
    BY <2>1, <2>2, WalkIsSequence
  <2>4. q \in Walks(E, s)
    BY <2>1 DEF Walks
  <2>5. QED
    BY <2>1, <2>2, <2>3, <2>4
<1>3. ASSUME NEW q \in Walks(E, s)
      PROVE  Len(q) - 1 \in 0..MaxHops /\ Last(q) \in Within(E, s)[Len(q) - 1]
  <2>1. PICK n \in 0..MaxHops : /\ q \in [1..n + 1 -> Record]
                                /\ q[1] = s
                                /\ \A i \in 1..n : <<q[i], q[i + 1]>> \in Adjacent(E)
    BY DEF Walks
  <2>2. n \in Nat
    BY <1>0
  <2>3. Len(q) - 1 = n /\ Last(q) = q[n + 1]
    BY <2>1, <2>2, WalkIsSequence
  <2>4. QED
    BY <2>1, <2>3, WalkIsWithin
<1>4. ASSUME NEW r \in DOMAIN Traverse(E, s)
      PROVE  /\ hops(r) \in SUBSET Nat
             /\ hops(r) # {}
             /\ \A n \in hops(r) : n \in 0..MaxHops /\ r \in Within(E, s)[n]
  <2>1. \E p \in Walks(E, s) : Last(p) = r
    BY <1>1
  <2>2. \A n \in hops(r) : n \in 0..MaxHops /\ r \in Within(E, s)[n]
    BY <1>3
  <2>3. QED
    BY <1>0, <2>1, <2>2
<1> HIDE DEF hops
<1>5. ASSUME NEW r \in DOMAIN Traverse(E, s)
      PROVE  /\ Traverse(E, s)[r] \in 0..MaxHops
             /\ r \in Within(E, s)[Traverse(E, s)[r]]
             /\ r # s => Traverse(E, s)[r] > 0
             /\ \A n \in hops(r) : Traverse(E, s)[r] <= n
  <2>1. Traverse(E, s)[r] = Min(hops(r))
    BY <1>1
  <2>2. Min(hops(r)) \in hops(r) /\ \A n \in hops(r) : Min(hops(r)) <= n
    BY <1>4, LeastOfNats
  <2>3. Traverse(E, s)[r] \in 0..MaxHops /\ r \in Within(E, s)[Traverse(E, s)[r]]
    BY <1>4, <2>1, <2>2
  <2>4. Traverse(E, s)[r] = 0 => r = s
    BY <2>3, WithinSteps
  <2>5. QED
    BY <1>0, <2>1, <2>2, <2>3, <2>4
<1>6. ASSUME NEW n \in 0..MaxHops, NEW r \in Within(E, s)[n]
      PROVE  r \in DOMAIN Traverse(E, s) /\ Traverse(E, s)[r] <= n
  <2>1. PICK m \in 0..n : WalksTo(E, s, m, r) # {}
    BY WithinIsWalked
  <2>2. m \in 0..MaxHops /\ m <= n /\ m \in Nat /\ n \in Nat
    BY <1>0
  <2>3. PICK q \in WalksTo(E, s, m, r) : TRUE
    BY <2>1
  <2>4. q \in Walks(E, s) /\ Last(q) = r /\ Len(q) - 1 = m
    BY <1>2, <2>2, <2>3
  <2>5. r \in DOMAIN Traverse(E, s)
    BY <1>1, <2>4
  <2>6. m \in hops(r)
    BY <2>4 DEF hops
  <2>7. Traverse(E, s)[r] <= m /\ Traverse(E, s)[r] \in Nat
    BY <1>0, <1>5, <2>5, <2>6
  <2>8. QED
    BY <2>2, <2>5, <2>7
<1>7. QED
  BY <1>5, <1>6

---------------------------------------------------------------------------
(* The inductive invariant of what a recall accounts for, and how far.     *)

(* d is the length of a way to r from another seed of S.                   *)
Real(E, S, r, d) == d \in 1..MaxHops /\ \E s \in S \ {r} : r \in Within(E, s)[d]

(* d is a distance no way to r from another seed of S is shorter than.     *)
Least(E, S, r, d) ==
  \A n \in 1..MaxHops : \A s \in S \ {r} : r \in Within(E, s)[n] => d \in 1..n

(* The lexical branch had its fill, or left nothing out.                   *)
SearchAccounted ==
  job.step # "lexical" =>
    LET surfaced == DOMAIN job.cands \cup job.withheld
    IN  \/ Matching \cap job.began.stored \subseteq surfaced
        \/ Cardinality(Matching \cap surfaced) >= Fetch

(* What a walk reached is a candidate or withheld, or is loaded next.      *)
WalksAccounted ==
  /\ job.step # "provenance" => job.walked = {}
  /\ job.seeds \cup job.walked \subseteq DOMAIN job.cands
  /\ \A s \in job.walked :
       Within(job.began.edges, s)[MaxHops]
         \subseteq DOMAIN job.cands \cup job.withheld \cup {p[1] : p \in job.pending}

DistancesReal ==
  /\ \A r \in DOMAIN job.cands : job.cands[r] > 0 => Real(edges, job.walked, r, job.cands[r])
  /\ \A p \in job.pending : p[2] > 0 => Real(edges, job.walked, p[1], p[2])

(* A record that an earlier walk reached and that is loaded again is       *)
(* retired, so its distance does not matter.                               *)
DistancesLeast ==
  /\ \A r \in DOMAIN job.cands : Least(job.began.edges, job.walked, r, job.cands[r])
  /\ \A p \in job.pending : Admitted(p[1]) => Least(job.began.edges, job.walked, p[1], p[2])

RecallAccounted == SearchAccounted /\ WalksAccounted /\ DistancesReal /\ DistancesLeast

RecallInv == RetrievalInv /\ (job.step \in RecallSteps => RecallAccounted)

\* More edges leave a way a way.
LEMMA RealGrows ==
  ASSUME NEW E, NEW F, E \subseteq F, NEW S \in SUBSET Record, NEW T, S \subseteq T,
         NEW r, NEW d, Real(E, S, r, d)
  PROVE  Real(F, T, r, d)
<1>1. PICK s \in S \ {r} : r \in Within(E, s)[d]
  BY DEF Real
<1>2. d \in 1..MaxHops /\ d \in 0..MaxHops /\ s \in Record
  BY RetrievalBounds DEF Real
<1>3. r \in Within(F, s)[d]
  BY <1>1, <1>2, WithinGrows
<1>4. QED
  BY <1>1, <1>2, <1>3 DEF Real

\* Types of a recall.
LEMMA RecallTypes ==
  ASSUME RecallInv, job.step \in RecallSteps
  PROVE  /\ job \in Recalling /\ BeganBefore /\ LoadedOnce /\ RecallAccounted
         /\ job.seeds \in SUBSET Record /\ job.walked \in SUBSET Record
         /\ job.pending \in SUBSET (Record \X Distance)
         /\ job.began.edges \in SUBSET Edge /\ edges \in SUBSET Edge
         /\ DOMAIN job.cands \in SUBSET Record
         /\ \A r \in DOMAIN job.cands : job.cands[r] \in 0..MaxHops
<1>1. /\ job \in Recalling /\ BeganBefore /\ LoadedOnce /\ RecallAccounted
      /\ DOMAIN job.cands \in SUBSET Record
  BY RecallFacts DEF RecallInv
<1>2. \A r \in DOMAIN job.cands : job.cands[r] \in 0..MaxHops
  BY <1>1 DEF Recalling, Candidates, Distance
<1>3. QED
  BY <1>1, <1>2 DEF Recalling, RecallInv, RetrievalInv, Inv, TypeOK

\* Writers between the reads of a recall add edges and retire records.
LEMMA WritersKeepAccounts ==
  ASSUME RecallInv, [Next]_vars, UNCHANGED job, job.step \in RecallSteps
  PROVE  RecallAccounted'
<1>1. /\ RecallAccounted /\ LoadedOnce
      /\ job.walked \in SUBSET Record
  BY RecallTypes
<1>2. edges \subseteq edges' /\ Live' \cap Stored \subseteq Live
  BY StepKeeps, StaysRetired DEF RecallInv, RetrievalInv, Inv
<1>3. SearchAccounted' /\ WalksAccounted'
  BY <1>1 DEF RecallAccounted, SearchAccounted, WalksAccounted
<1>4. \A r, d : Real(edges, job.walked, r, d) => Real(edges', job.walked, r, d)
  BY <1>1, <1>2, RealGrows
<1>5. DistancesReal'
  BY <1>1, <1>4 DEF RecallAccounted, DistancesReal
<1>6. \A p \in job.pending : Admitted(p[1])' => Admitted(p[1])
  BY <1>1, <1>2 DEF LoadedOnce, Admitted
<1>7. DistancesLeast'
  BY <1>1, <1>6 DEF RecallAccounted, DistancesLeast
<1>8. QED
  BY <1>3, <1>5, <1>7 DEF RecallAccounted

LEMMA RecallAccounts ==
  ASSUME NEW asked \in Asked, Recall(asked)
  PROVE  RecallAccounted'
<1>1. /\ job'.step = "lexical" /\ job'.cands = <<>> /\ job'.seeds = {} /\ job'.walked = {}
      /\ job'.pending = {}
  BY DEF Recall
<1>2. DOMAIN job'.cands = {}
  BY <1>1
<1>3. QED
  BY <1>1, <1>2 DEF RecallAccounted, SearchAccounted, WalksAccounted, DistancesReal, DistancesLeast

LEMMA SearchTextAccounts ==
  ASSUME RecallInv, SearchText
  PROVE  RecallAccounted'
<1> DEFINE hits(F) == {r \in F : Admitted(r)}
<1>1. PICK F \in Fetched(Matching \cap Stored) :
        job' = [job EXCEPT !.step = IF job.semantic THEN "semantic" ELSE "dictionary",
                           !.cands = With(@, hits(F), 0), !.seeds = hits(F), !.withheld = F \ hits(F)]
  BY DEF SearchText
<1>2. job.step = "lexical" /\ job.step \in RecallSteps
  BY DEF SearchText, RecallSteps
<1>3. job \in Recalling /\ BeganBefore /\ LoadedOnce /\ RecallAccounted
  BY <1>2, RecallTypes
<1>4. DOMAIN job.cands = {} /\ job.pending = {} /\ job.walked = {}
  BY <1>2, <1>3 DEF LoadedOnce, RecallAccounted, WalksAccounted
<1>5. /\ DOMAIN With(job.cands, hits(F), 0) = hits(F)
      /\ \A r \in hits(F) : With(job.cands, hits(F), 0)[r] = 0
  BY <1>4 DEF With
<1>6. /\ job'.step # "provenance"
      /\ DOMAIN job'.cands = hits(F) /\ job'.withheld = F \ hits(F) /\ job'.seeds = hits(F)
      /\ job'.walked = {} /\ job'.pending = {} /\ job'.began = job.began
      /\ \A r \in DOMAIN job'.cands : job'.cands[r] = 0
  BY <1>1, <1>3, <1>4, <1>5 DEF Recalling
<1>7. hits(F) \cup (F \ hits(F)) = F
  OBVIOUS
<1>8. SearchAccounted'
  <2>1. F \subseteq Matching \cap Stored
    BY <1>1, FetchedSome
  <2>2. Matching \cap F = F /\ IsFiniteSet(F)
    BY <2>1, FS_Subset, BranchesAreOfRecords, RecordsAreFinite
  <2>3. Cardinality(F) = Fetch \/ F = Matching \cap Stored
    BY <1>1 DEF Fetched
  <2>4. CASE Cardinality(F) = Fetch
    BY <1>6, <1>7, <2>2, <2>4, RetrievalBounds DEF SearchAccounted
  <2>5. CASE F = Matching \cap Stored
    BY <1>3, <1>6, <1>7, <2>5 DEF SearchAccounted, BeganBefore
  <2>6. QED
    BY <2>3, <2>4, <2>5
<1>9. WalksAccounted'
  BY <1>6 DEF WalksAccounted
<1>10. DistancesReal'
  BY <1>6 DEF DistancesReal
<1>11. DistancesLeast'
  BY <1>6 DEF DistancesLeast, Least
<1>12. QED
  BY <1>8, <1>9, <1>10, <1>11 DEF RecallAccounted

\* The other branches find before any walk has begun.
LEMMA BranchAccounts ==
  ASSUME RecallInv, SearchVectors \/ ReadDictionary \/ SearchMentions
  PROVE  RecallAccounted'
<1>1. job.step \in {"semantic", "dictionary", "entity"}
  BY Zenon DEF SearchVectors, ReadDictionary, SearchMentions
<1>2. job \in Recalling /\ RecallAccounted
  BY <1>1, RecallTypes DEF RecallSteps
<1>3. /\ job'.cands = job.cands /\ job'.withheld = job.withheld /\ job'.seeds = job.seeds
      /\ job'.walked = job.walked /\ job'.began = job.began
      /\ \A p \in job'.pending : p[2] = 0
  <2>1. CASE SearchVectors
    <3>1. PICK F \in Fetched({r \in vectors : Admitted(r)}) :
           job' = [job EXCEPT !.step = "dictionary", !.pending = (F \ DOMAIN job.cands) \X {0}]
      BY <2>1 DEF SearchVectors
    <3>2. QED
      BY <1>2, <3>1 DEF Recalling
  <2>2. CASE ReadDictionary
    BY <1>2, <2>2 DEF ReadDictionary, Recalling
  <2>3. CASE SearchMentions
    <3>1. PICK F : job' = [job EXCEPT !.step = "provenance", !.dict = {},
                                      !.pending = (F \ DOMAIN job.cands) \X {0}]
      BY <2>3 DEF SearchMentions
    <3>2. QED
      BY <1>2, <3>1 DEF Recalling
  <2>4. QED
    BY <2>1, <2>2, <2>3
<1>4. UNCHANGED edges
  BY DEF SearchVectors, ReadDictionary, SearchMentions, vars
<1>5. job.walked = {} /\ job.step # "lexical"
  BY <1>1, <1>2 DEF RecallAccounted, WalksAccounted
<1>6. SearchAccounted'
  BY <1>2, <1>3, <1>5 DEF RecallAccounted, SearchAccounted
<1>7. WalksAccounted'
  BY <1>2, <1>3, <1>5 DEF RecallAccounted, WalksAccounted
<1>8. DistancesReal'
  BY <1>2, <1>3, <1>4 DEF RecallAccounted, DistancesReal
<1>9. DistancesLeast'
  BY <1>2, <1>3, <1>5 DEF RecallAccounted, DistancesLeast, Least
<1>10. QED
  BY <1>6, <1>7, <1>8, <1>9 DEF RecallAccounted

LEMMA LoadCandidateAccounts ==
  ASSUME RecallInv, LoadCandidate
  PROVE  RecallAccounted'
<1>1. PICK p \in job.pending :
       job' = IF Admitted(p[1])
              THEN [job EXCEPT !.pending = @ \ {p},
                               !.cands = With(@, {p[1]}, p[2]),
                               !.seeds = IF p[2] = 0 THEN @ \cup {p[1]} ELSE @]
              ELSE [job EXCEPT !.pending = @ \ {p}, !.withheld = @ \cup {p[1]}]
  BY DEF LoadCandidate
<1>2. /\ job.step \in {"dictionary", "provenance"} /\ job.step \in RecallSteps
      /\ UNCHANGED <<recordedSeq, supersededBy, edges>>
  BY DEF LoadCandidate, RecallSteps, vars, memoryVars, retirementVars
<1>3. /\ job \in Recalling /\ LoadedOnce /\ RecallAccounted
      /\ DOMAIN job.cands \in SUBSET Record /\ p[1] \in Record /\ p[2] \in 0..MaxHops
  BY <1>1, <1>2, RecallTypes DEF Distance
<1>4. /\ job'.step = job.step /\ job'.began = job.began /\ job'.retired = job.retired
      /\ job'.walked = job.walked /\ job'.pending = job.pending \ {p}
  BY <1>1, <1>3 DEF Recalling
<1>5. \A r : Admitted(r)' <=> Admitted(r)
  BY <1>2, <1>4 DEF Admitted, Live, Stored
<1>6. /\ DOMAIN job.cands \subseteq DOMAIN job'.cands
      /\ job.withheld \subseteq job'.withheld
      /\ DOMAIN job'.cands \cup job'.withheld = DOMAIN job.cands \cup job.withheld \cup {p[1]}
      /\ job'.seeds \subseteq job.seeds \cup {p[1]}
      /\ job'.seeds \subseteq job.seeds \cup DOMAIN job'.cands
      /\ \A r \in DOMAIN job'.cands :
           \/ r \in DOMAIN job.cands /\ job'.cands[r] = job.cands[r]
           \/ r = p[1] /\ job'.cands[r] = p[2] /\ Admitted(r)
  <2>1. CASE Admitted(p[1])
    <3>1. /\ job'.cands = With(job.cands, {p[1]}, p[2]) /\ job'.withheld = job.withheld
          /\ job'.seeds = IF p[2] = 0 THEN job.seeds \cup {p[1]} ELSE job.seeds
      BY <1>1, <1>3, <2>1 DEF Recalling
    <3>2. /\ DOMAIN job'.cands = DOMAIN job.cands \cup {p[1]}
          /\ \A r \in DOMAIN job'.cands : job'.cands[r] = IF r \in {p[1]} THEN p[2] ELSE job.cands[r]
      BY <3>1 DEF With
    <3>3. QED
      BY <2>1, <3>1, <3>2
  <2>2. CASE ~ Admitted(p[1])
    <3>1. /\ job'.cands = job.cands /\ job'.withheld = job.withheld \cup {p[1]}
          /\ job'.seeds = job.seeds
      BY <1>1, <1>3, <2>2 DEF Recalling
    <3>2. QED
      BY <3>1
  <2>3. QED
    BY <2>1, <2>2
<1>7. SearchAccounted'
  <2> DEFINE old == DOMAIN job.cands \cup job.withheld
             new == DOMAIN job'.cands \cup job'.withheld
  <2>1. old \subseteq new
    BY <1>6
  <2>2. \/ Matching \cap job.began.stored \subseteq old
        \/ Cardinality(Matching \cap old) >= Fetch
    BY <1>2, <1>3 DEF RecallAccounted, SearchAccounted
  <2> HIDE DEF old, new
  <2>3. CASE Matching \cap job.began.stored \subseteq old
    BY <1>4, <2>1, <2>3 DEF SearchAccounted, new
  <2>4. CASE Cardinality(Matching \cap old) >= Fetch
    <3> DEFINE M == Matching \cap new
               O == Matching \cap old
    <3>1. IsFiniteSet(M) /\ O \in SUBSET M
      BY <2>1, FS_Subset, BranchesAreOfRecords, RecordsAreFinite
    <3>2. Cardinality(O) <= Cardinality(M) /\ Cardinality(O) \in Nat /\ Cardinality(M) \in Nat
      BY <3>1, FS_Subset, FS_CardinalityType
    <3>3. Cardinality(M) >= Fetch
      BY <2>4, <3>2, RetrievalBounds
    <3>4. QED
      BY <3>3 DEF SearchAccounted, new
  <2>5. QED
    BY <2>2, <2>3, <2>4
<1>8. WalksAccounted'
  <2>1. {x[1] : x \in job.pending} \subseteq {p[1]} \cup {x[1] : x \in job'.pending}
    BY <1>4
  <2>2. QED
    BY <1>3, <1>4, <1>6, <2>1 DEF RecallAccounted, WalksAccounted
<1>9. DistancesReal'
  <2>1. DistancesReal
    BY <1>3 DEF RecallAccounted
  <2>2. ASSUME NEW r \in DOMAIN job'.cands, job'.cands[r] > 0
        PROVE  Real(edges, job.walked, r, job'.cands[r])
    BY <1>1, <1>6, <2>1, <2>2 DEF DistancesReal
  <2>3. \A q \in job'.pending : q[2] > 0 => Real(edges, job.walked, q[1], q[2])
    BY <1>4, <2>1 DEF DistancesReal
  <2>4. edges' = edges /\ job'.walked = job.walked
    BY <1>2, <1>4
  <2>5. QED
    BY <2>2, <2>3, <2>4 DEF DistancesReal
<1>10. DistancesLeast'
  <2>1. DistancesLeast
    BY <1>3 DEF RecallAccounted
  <2>2. ASSUME NEW r \in DOMAIN job'.cands
        PROVE  Least(job.began.edges, job.walked, r, job'.cands[r])
    BY <1>1, <1>6, <2>1, <2>2 DEF DistancesLeast
  <2>3. \A q \in job'.pending :
          Admitted(q[1]) => Least(job.began.edges, job.walked, q[1], q[2])
    BY <1>4, <2>1 DEF DistancesLeast
  <2>4. job'.began.edges = job.began.edges /\ job'.walked = job.walked
    BY <1>4
  <2>5. QED
    BY <1>5, <2>2, <2>3, <2>4 DEF DistancesLeast
<1>11. QED
  BY <1>7, <1>8, <1>9, <1>10 DEF RecallAccounted

\* A walk from one more seed.
LEMMA WalkAccounts ==
  ASSUME RecallInv, Walk
  PROVE  RecallAccounted'
<1> DEFINE reached(s) == Traverse(edges, s)
           others(s) == DOMAIN reached(s) \ {s}
<1>1. PICK s \in job.seeds :
        job' = [job EXCEPT
                  !.seeds = @ \ {s},
                  !.walked = @ \cup {s},
                  !.cands = [r \in DOMAIN @ |-> IF r \in others(s) THEN Nearer(@[r], reached(s)[r])
                                                ELSE @[r]],
                  !.pending = {<<r, reached(s)[r]>> : r \in others(s) \ DOMAIN job.cands}]
  BY DEF Walk
<1> DEFINE T == Traverse(edges, s)
           R == DOMAIN T \ {s}
<1>2. /\ job.step = "provenance" /\ job.step \in RecallSteps /\ job.pending = {}
      /\ UNCHANGED <<recordedSeq, supersededBy, edges>>
  BY DEF Walk, RecallSteps, vars, memoryVars, retirementVars
<1>3. /\ job \in Recalling /\ LoadedOnce /\ BeganBefore /\ RecallAccounted
      /\ job.walked \in SUBSET Record /\ s \in Record
      /\ job.began.edges \in SUBSET Edge /\ edges \in SUBSET Edge
      /\ \A r \in DOMAIN job.cands : job.cands[r] \in 0..MaxHops
  BY <1>1, <1>2, RecallTypes
<1>4. /\ job'.step = job.step /\ job'.began = job.began /\ job'.retired = job.retired
      /\ job'.withheld = job.withheld
      /\ job'.seeds = job.seeds \ {s}
      /\ job'.walked = job.walked \cup {s}
      /\ DOMAIN job'.cands = DOMAIN job.cands
      /\ \A r \in DOMAIN job.cands :
           job'.cands[r] = IF r \in R THEN Nearer(job.cands[r], T[r]) ELSE job.cands[r]
      /\ job'.pending = {<<r, T[r]>> : r \in R \ DOMAIN job.cands}
  BY <1>1, <1>3 DEF Recalling
<1>5. MaxHops \in Nat /\ MaxHops \in 0..MaxHops /\ \A n \in 1..MaxHops : n \in 0..MaxHops
  BY RetrievalBounds
<1>6. \A r \in R : Real(edges, job.walked \cup {s}, r, T[r])
  <2> SUFFICES ASSUME NEW r \in R
               PROVE  Real(edges, job.walked \cup {s}, r, T[r])
    OBVIOUS
  <2>1. T[r] \in 0..MaxHops /\ T[r] > 0 /\ r \in Within(edges, s)[T[r]]
    BY <1>3, TraverseShortest
  <2>2. T[r] \in 1..MaxHops
    BY <1>5, <2>1
  <2>3. QED
    BY <2>1, <2>2 DEF Real
<1>7. ASSUME NEW n \in 0..MaxHops, NEW r \in Within(job.began.edges, s)[n]
      PROVE  r \in DOMAIN T /\ T[r] <= n
  <2>1. r \in Within(edges, s)[n]
    BY <1>3, <1>7, WithinGrows DEF BeganBefore
  <2>2. QED
    BY <1>3, <2>1, TraverseShortest
<1>8. \A r \in R : T[r] \in 1..MaxHops
  BY <1>6 DEF Real
<1> HIDE DEF T, R
<1>9. SearchAccounted'
  BY <1>2, <1>3, <1>4 DEF RecallAccounted, SearchAccounted
<1>10. WalksAccounted'
  <2>1. job.seeds \cup job.walked \subseteq DOMAIN job.cands
    BY <1>3 DEF RecallAccounted, WalksAccounted
  <2>2. job'.seeds \cup job'.walked \subseteq DOMAIN job'.cands
    BY <1>1, <1>4, <2>1
  <2>3. DOMAIN T \subseteq DOMAIN job.cands \cup {p[1] : p \in job'.pending}
    <3> SUFFICES ASSUME NEW r \in DOMAIN T, r \notin DOMAIN job.cands
                 PROVE  r \in {p[1] : p \in job'.pending}
      OBVIOUS
    <3>1. r \in R
      BY <1>1, <2>1 DEF R
    <3>2. <<r, T[r]>> \in job'.pending
      BY <1>4, <3>1
    <3>3. QED
      BY <3>2
  <2>4. Within(job.began.edges, s)[MaxHops] \subseteq DOMAIN T
    BY <1>5, <1>7
  <2>5. \A t \in job.walked :
          Within(job.began.edges, t)[MaxHops] \subseteq DOMAIN job.cands \cup job.withheld
    BY <1>2, <1>3 DEF RecallAccounted, WalksAccounted
  <2>6. \A t \in job'.walked :
          Within(job'.began.edges, t)[MaxHops]
            \subseteq DOMAIN job'.cands \cup job'.withheld \cup {p[1] : p \in job'.pending}
    BY <1>4, <2>3, <2>4, <2>5
  <2>7. QED
    BY <1>2, <1>4, <2>2, <2>6 DEF WalksAccounted
<1>11. DistancesReal'
  <2>1. ASSUME NEW r \in DOMAIN job.cands, job'.cands[r] > 0
        PROVE  Real(edges, job.walked \cup {s}, r, job'.cands[r])
    <3>1. CASE job'.cands[r] = job.cands[r]
      <4>1. Real(edges, job.walked, r, job.cands[r])
        BY <1>3, <2>1, <3>1 DEF RecallAccounted, DistancesReal
      <4>2. QED
        BY <1>3, <3>1, <4>1, RealGrows
    <3>2. CASE r \in R /\ job'.cands[r] = T[r]
      BY <1>6, <3>2
    <3>3. QED
      BY <1>4, <3>1, <3>2 DEF Nearer
  <2>2. ASSUME NEW p \in job'.pending
        PROVE  Real(edges, job.walked \cup {s}, p[1], p[2])
    <3>1. PICK r \in R : p = <<r, T[r]>>
      BY <1>4
    <3>2. p[1] = r /\ p[2] = T[r]
      BY <3>1
    <3>3. QED
      BY <1>6, <3>2
  <2>3. QED
    BY <1>2, <1>4, <2>1, <2>2 DEF DistancesReal
<1>12. DistancesLeast'
  <2>1. ASSUME NEW r \in DOMAIN job.cands
        PROVE  Least(job.began.edges, job.walked \cup {s}, r, job'.cands[r])
    <3> SUFFICES ASSUME NEW n \in 1..MaxHops, NEW t \in (job.walked \cup {s}) \ {r},
                        r \in Within(job.began.edges, t)[n]
                 PROVE  job'.cands[r] \in 1..n
      BY DEF Least
    <3>1. job.cands[r] \in 0..MaxHops
      BY <1>3
    <3>2. job'.cands[r] = IF r \in R THEN Nearer(job.cands[r], T[r]) ELSE job.cands[r]
      BY <1>4
    <3>3. CASE t \in job.walked
      <4>1. job.cands[r] \in 1..n
        BY <1>3, <3>3 DEF RecallAccounted, DistancesLeast, Least
      <4>2. QED
        BY <1>8, <3>2, <4>1 DEF Nearer
    <3>4. CASE t = s
      <4>1. r \in DOMAIN T /\ T[r] <= n
        BY <1>5, <1>7, <3>4
      <4>2. r \in R /\ T[r] \in 1..MaxHops
        BY <1>8, <3>4, <4>1 DEF R
      <4>3. QED
        BY <3>1, <3>2, <4>1, <4>2 DEF Nearer
    <3>5. QED
      BY <3>3, <3>4
  <2>2. ASSUME NEW r \in R \ DOMAIN job.cands, Admitted(r)
        PROVE  Least(job.began.edges, job.walked \cup {s}, r, T[r])
    <3> SUFFICES ASSUME NEW n \in 1..MaxHops, NEW t \in (job.walked \cup {s}) \ {r},
                        r \in Within(job.began.edges, t)[n]
                 PROVE  T[r] \in 1..n
      BY DEF Least
    <3>1. CASE t \in job.walked
      <4>1. Within(job.began.edges, t)[n] \subseteq Within(job.began.edges, t)[MaxHops]
        BY <1>3, <1>5, <3>1, WithinGrows
      <4>2. r \in DOMAIN job.cands \cup job.withheld
        BY <1>2, <1>3, <3>1, <4>1 DEF RecallAccounted, WalksAccounted
      <4>3. r \in job.withheld
        BY <2>2, <4>2
      <4>4. ~ Admitted(r)
        BY <1>3, <4>3 DEF LoadedOnce, Admitted
      <4>5. QED
        BY <2>2, <4>4
    <3>2. CASE t = s
      <4>1. T[r] <= n
        BY <1>5, <1>7, <3>2
      <4>2. QED
        BY <1>8, <4>1
    <3>3. QED
      BY <3>1, <3>2
  <2>3. \A r : Admitted(r)' <=> Admitted(r)
    BY <1>2, <1>4 DEF Admitted, Live, Stored
  <2>4. \A p \in job'.pending : Admitted(p[1]) =>
          Least(job.began.edges, job.walked \cup {s}, p[1], p[2])
    BY <1>4, <2>2
  <2>5. QED
    BY <1>4, <2>1, <2>3, <2>4 DEF DistancesLeast
<1>13. QED
  BY <1>9, <1>10, <1>11, <1>12 DEF RecallAccounted

\* An answer, or a recall that is over, has nothing to account for.
LEMMA RecallEnds ==
  ASSUME RetrievalInv, ReadConflicts \/ Answering \/ Finish
  PROVE  job'.step \notin RecallSteps
<1>1. CASE ReadConflicts
  BY <1>1 DEF ReadConflicts, RecallSteps
<1>2. CASE Finish
  BY <1>2 DEF Finish, NoJob, RecallSteps
<1>3. ASSUME NEW cited \in Cited, NEW acked \in Acked, SubmitAnswer(cited, acked)
      PROVE  job'.step \notin RecallSteps
  BY <1>3 DEF SubmitAnswer, RecallSteps
<1>4. CASE LookUpCited
  <2>1. job.step = "lookup" /\ job \in Answer
    BY <1>4, AnswerType DEF LookUpCited, AnswerSteps, RetrievalInv, RetrievalTypeOK
  <2>2. PICK r \in job.left :
          job' = IF r \notin Stored THEN NoJob
                 ELSE IF job.left = {r} THEN [job EXCEPT !.step = "obligations", !.left = job.cited]
                 ELSE [job EXCEPT !.left = @ \ {r}]
    BY <1>4 DEF LookUpCited
  <2>3. job'.step \in {"idle", "obligations", "lookup"}
    BY <2>1, <2>2 DEF NoJob, Answer
  <2>4. QED
    BY <2>3 DEF RecallSteps
<1>5. CASE ReadObligations
  <2>1. job.step = "obligations" /\ job \in Answer
    BY <1>5, AnswerType DEF ReadObligations, AnswerSteps, RetrievalInv, RetrievalTypeOK
  <2> DEFINE owed(r) == job.owed \cup Obligations(r)
  <2>2. PICK r \in job.left :
          job' = [job EXCEPT !.left = @ \ {r},
                             !.owed = owed(r),
                             !.step = IF job.left # {r} THEN @
                                      ELSE IF Outstanding(owed(r)) = {} THEN "accepted"
                                      ELSE "refused"]
    BY <1>5 DEF ReadObligations
  <2> HIDE DEF owed
  <2>3. job'.step \in {"obligations", "accepted", "refused"}
    BY <2>1, <2>2 DEF Answer
  <2>4. QED
    BY <2>3 DEF RecallSteps
<1>6. QED
  BY <1>1, <1>2, <1>3, <1>4, <1>5 DEF Answering

\* Every step keeps the accounts of a recall.
LEMMA RecallStepInv == RecallInv /\ [RetrievalNext]_retrievalVars => RecallInv'
<1> SUFFICES ASSUME RecallInv, [RetrievalNext]_retrievalVars
             PROVE  RecallInv'
  OBVIOUS
<1>1. RetrievalInv' /\ [Next]_vars /\ RetrievalInv
  BY RetrievalStepInv, StoreStep DEF RecallInv
<1>2. CASE UNCHANGED job
  BY <1>1, <1>2, WritersKeepAccounts DEF RecallInv
<1>3. CASE Retrieving
  <2>1. RecallAccounted' \/ job'.step \notin RecallSteps
    BY <1>1, <1>3, RecallAccounts, SearchTextAccounts, BranchAccounts, LoadCandidateAccounts,
       WalkAccounts, RecallEnds DEF Retrieving
  <2>2. QED
    BY <1>1, <2>1 DEF RecallInv
<1>4. CASE Answering \/ Finish
  BY <1>1, <1>4, RecallEnds DEF RecallInv
<1>5. Retrieving \/ Answering \/ Finish \/ UNCHANGED job
  BY Zenon DEF RetrievalNext, Writing, IngestAndIndex, PutEmbedding, retrievalVars
<1>6. QED
  BY <1>2, <1>3, <1>4, <1>5

\* Whatever is written meanwhile, a recall accounts for what it has seen.
THEOREM RecallsAccount == RetrievalSpec => []RecallInv
<1>1. RetrievalInit => RecallInv
  <2> SUFFICES ASSUME RetrievalInit
               PROVE  RecallInv
    OBVIOUS
  <2>1. job = NoJob
    BY DEF RetrievalInit
  <2>2. QED
    BY <2>1, RetrievalInitInv DEF RecallInv, NoJob, RecallSteps
<1>2. QED
  BY <1>1, RecallStepInv, PTL DEF RetrievalSpec

\* recall and provenance: nothing that was there and matched, or was within
\* reach of what was found, disappears silently.
THEOREM NothingDisappears == RetrievalSpec => []AccountedFor
<1>1. RecallInv => AccountedFor
  <2> SUFFICES ASSUME RecallInv, Gathered
               PROVE  AccountedFor
    BY DEF AccountedFor
  <2>1. job.step = "provenance" /\ job.step \in RecallSteps /\ job.pending = {}
    BY DEF Gathered, RecallSteps
  <2>2. SearchAccounted /\ WalksAccounted
    BY <2>1, RecallTypes DEF RecallAccounted
  <2>3. {p[1] : p \in job.pending} = {}
    BY <2>1
  <2>4. QED
    BY <2>1, <2>2, <2>3 DEF AccountedFor, SearchAccounted, WalksAccounted
<1>2. QED
  BY <1>1, RecallsAccount, PTL

\* Store::traverse and the merging of its distances: a candidate's distance is
\* that of a way there is, and no way that was there is shorter.
THEOREM DistancesAreShortest == RetrievalSpec => []DistancesShortest
<1>1. RecallInv => DistancesShortest
  <2> SUFFICES ASSUME RecallInv, Gathered, NEW r \in DOMAIN job.cands
               PROVE  /\ job.cands[r] > 0 => job.cands[r] \in HopsTo(edges, r)
                      /\ \A n \in HopsTo(job.began.edges, r) : job.cands[r] \in 1..n
    BY DEF DistancesShortest
  <2>1. job.step \in RecallSteps
    BY DEF Gathered, RecallSteps
  <2>2. DistancesReal /\ DistancesLeast
    BY <2>1, RecallTypes DEF RecallAccounted
  <2>3. QED
    BY <2>2 DEF DistancesReal, DistancesLeast, Real, Least, HopsTo
<1>2. QED
  BY <1>1, RecallsAccount, PTL

---------------------------------------------------------------------------
(* The extractor.                                                          *)

(* The text of an occurrence, as it is compared.                          *)
Form(t, m) == SubSeq(Lowered(t), m.start + 1, m.end)

\* Texts of one length are strictly ordered, character by character.
LEMMA LexOrders ==
  ASSUME NEW n \in Nat, NEW s \in [1..n -> Nat], NEW u \in [1..n -> Nat]
  PROVE  /\ ~LexLess(s, s)
         /\ s = u \/ LexLess(s, u) \/ LexLess(u, s)
<1>1. ~LexLess(s, s)
  <2>1. \A k \in 1..n : ~(s[k] < s[k])
    OBVIOUS
  <2>2. QED
    BY <2>1 DEF LexLess
<1>2. ASSUME s # u
      PROVE  LexLess(s, u) \/ LexLess(u, s)
  <2> DEFINE apart == {k \in 1..n : s[k] # u[k]}
  <2>1. apart # {} /\ apart \subseteq Nat
    BY <1>2
  <2>2. PICK k \in apart : \A j \in apart : k <= j
    BY <2>1, LeastOfNats
  <2>3. \A j \in 1..k - 1 : s[j] = u[j]
    BY <2>2
  <2>4. k \in 1..n /\ (s[k] < u[k] \/ u[k] < s[k])
    <3>1. k \in 1..n /\ s[k] # u[k] /\ s[k] \in Nat /\ u[k] \in Nat
      BY <2>2
    <3>2. QED
      BY <3>1
  <2>5. QED
    BY <2>3, <2>4 DEF LexLess
<1>3. QED
  BY <1>1, <1>2

\* It is transitive.
LEMMA LexTransitive ==
  ASSUME NEW n \in Nat, NEW s \in [1..n -> Nat], NEW u \in [1..n -> Nat], NEW v \in [1..n -> Nat],
         LexLess(s, u), LexLess(u, v)
  PROVE  LexLess(s, v)
<1>1. PICK k \in 1..n : s[k] < u[k] /\ \A j \in 1..k - 1 : s[j] = u[j]
  BY DEF LexLess
<1>2. PICK l \in 1..n : u[l] < v[l] /\ \A j \in 1..l - 1 : u[j] = v[j]
  BY DEF LexLess
<1>3. CASE k <= l
  <2>1. s[k] < v[k]
    <3>1. s[k] \in Nat /\ u[k] \in Nat /\ v[k] \in Nat
      OBVIOUS
    <3>2. k = l \/ k \in 1..l - 1
      BY <1>3
    <3>3. u[k] <= v[k]
      BY <1>2, <3>1, <3>2
    <3>4. QED
      BY <1>1, <3>1, <3>3
  <2>2. ASSUME NEW j \in 1..k - 1
        PROVE  s[j] = v[j]
    <3>1. j \in 1..l - 1
      BY <1>3
    <3>2. QED
      BY <1>1, <1>2, <3>1
  <2>3. QED
    BY <2>1, <2>2 DEF LexLess
<1>4. CASE l < k
  <2>1. s[l] < v[l]
    <3>1. l \in 1..k - 1
      BY <1>4
    <3>2. QED
      BY <1>1, <1>2, <3>1
  <2>2. ASSUME NEW j \in 1..l - 1
        PROVE  s[j] = v[j]
    <3>1. j \in 1..k - 1
      BY <1>4
    <3>2. QED
      BY <1>1, <1>2, <3>1
  <2>3. QED
    BY <2>1, <2>2 DEF LexLess
<1>5. QED
  BY <1>3, <1>4

\* An occurrence is a nonempty part of its text.
LEMMA OccurrenceIsPart ==
  ASSUME NEW dict \in SUBSET Entity, NEW t \in Text, NEW m \in Occurrences(dict, t)
  PROVE  /\ m \in [entity : dict, start : 0..Len(t), end : 0..Len(t)]
         /\ m.start < m.end /\ Length(m) \in Nat
         /\ Form(t, m) \in [1..Length(m) -> Nat]
<1>0. PICK s \in Surfaces(dict) :
        /\ s.text # <<>>
        /\ \E i \in Starts(s.text, t) : m = [entity |-> s.entity, start |-> i, end |-> i + Len(s.text)]
  BY DEF Occurrences
<1>1. PICK i \in Starts(s.text, t) :
        m = [entity |-> s.entity, start |-> i, end |-> i + Len(s.text)]
  BY <1>0
<1>2. s.entity \in dict /\ s.text \in Seq(Char)
  <2>0. PICK e \in dict : s \in {[entity |-> e, text |-> Lowered(x)] : x \in {e.name} \cup e.aliases}
    BY DEF Surfaces
  <2>1. PICK x \in {e.name} \cup e.aliases : s = [entity |-> e, text |-> Lowered(x)]
    BY <2>0
  <2>2. e \in EntityTerms
    BY EntitiesAreSealed
  <2>3. x \in Seq(Char)
    BY <2>1, <2>2 DEF EntityTerms, Text
  <2>4. Lowered(x) \in Seq(Char)
    <3>1. x \in [1..Len(x) -> Char] /\ Len(x) \in Nat /\ DOMAIN x = 1..Len(x)
      BY <2>3
    <3>2. Lowered(x) \in [1..Len(x) -> Char]
      BY <3>1, LowerIsOneByte DEF Lowered
    <3>3. QED
      BY <3>1, <3>2
  <2>5. QED
    BY <2>1, <2>4
<1>3. Len(s.text) \in Nat \ {0} /\ Len(t) \in Nat
  BY <1>0, <1>2 DEF Text
<1>4. i \in 0..Len(t) /\ i + Len(s.text) <= Len(t)
  BY DEF Starts
<1>5. /\ m.entity \in dict /\ m.start = i /\ m.end = i + Len(s.text)
      /\ m = [entity |-> m.entity, start |-> m.start, end |-> m.end]
  BY <1>1, <1>2
<1>6. m.start \in 0..Len(t) /\ m.end \in 0..Len(t) /\ m.start < m.end /\ Length(m) \in Nat
  BY <1>3, <1>4, <1>5 DEF Length
<1>7. Form(t, m) \in [1..Length(m) -> Nat]
  <2>1. t \in [1..Len(t) -> Char] /\ DOMAIN t = 1..Len(t)
    BY DEF Text
  <2>2. Lowered(t) \in [1..Len(t) -> Char]
    BY <2>1, LowerIsOneByte DEF Lowered
  <2>3. \A j \in m.start + 1..m.end : Lowered(t)[j] \in Nat
    <3>1. \A j \in m.start + 1..m.end : j \in 1..Len(t)
      BY <1>3, <1>4, <1>5
    <3>2. QED
      BY <2>2, <3>1, CharsAreCodes
  <2>4. /\ Form(t, m) \in Seq(Nat)
        /\ Len(Form(t, m)) = IF m.start + 1 <= m.end THEN m.end - (m.start + 1) + 1 ELSE 0
    <3>1. m.start + 1 \in Int /\ m.end \in Int
      BY <1>6
    <3>2. QED
      BY <2>3, <3>1, SubSeqProperties DEF Form
  <2>5. Len(Form(t, m)) = Length(m)
    BY <1>6, <2>4 DEF Length
  <2>6. QED
    BY <2>4, <2>5
<1>8. QED
  BY <1>5, <1>6, <1>7

\* The occurrences in a text are finitely many.
LEMMA OccurrencesAreFinite ==
  ASSUME NEW dict \in SUBSET Entity, NEW t \in Text
  PROVE  IsFiniteSet(Occurrences(dict, t))
<1> DEFINE O == Occurrences(dict, t)
           spots == dict \X ((0..Len(t)) \X (0..Len(t)))
           f == [m \in O |-> <<m.entity, <<m.start, m.end>>>>]
<1>1. IsFiniteSet(spots)
  <2>1. IsFiniteSet(dict)
    BY EntitiesAreSealed, FS_Subset
  <2>2. IsFiniteSet(0..Len(t))
    BY FS_Interval DEF Text
  <2>3. QED
    BY <2>1, <2>2, FS_Product
<1>2. \A m \in O : m \in [entity : dict, start : 0..Len(t), end : 0..Len(t)]
  BY OccurrenceIsPart
<1>3. f \in Injection(O, spots)
  <2> HIDE DEF O
  <2>1. f \in [O -> spots]
    BY <1>2
  <2>2. ASSUME NEW m \in O, NEW n \in O, f[m] = f[n]
        PROVE  m = n
    BY <1>2, <2>2
  <2>3. QED
    BY <2>1, <2>2 DEF Injection, IsInjective
<1>4. QED
  BY <1>1, <1>3, FS_Injection

\* The order of scanning is a strict total order of the occurrences, so the
\* extractor does not depend on the order of its dictionary.
LEMMA ScanningOrders ==
  ASSUME NEW dict \in SUBSET Entity, NEW t \in Text,
         NEW m \in Occurrences(dict, t), NEW n \in Occurrences(dict, t)
  PROVE  /\ ~ScannedBefore(t, m, m)
         /\ m = n \/ ScannedBefore(t, m, n) \/ ScannedBefore(t, n, m)
         /\ ScannedBefore(t, m, n) => Length(n) <= Length(m)
<1>1. \A x \in {m, n} :
        /\ x \in [entity : dict, start : 0..Len(t), end : 0..Len(t)]
        /\ Length(x) \in Nat
        /\ Form(t, x) \in [1..Length(x) -> Nat]
        /\ DigestRank[x.entity] \in Nat
  <2> TAKE x \in {m, n}
  <2>1. x \in Occurrences(dict, t)
    OBVIOUS
  <2>2. /\ x \in [entity : dict, start : 0..Len(t), end : 0..Len(t)]
        /\ Length(x) \in Nat
        /\ Form(t, x) \in [1..Length(x) -> Nat]
    BY <2>1, OccurrenceIsPart
  <2>3. x.entity \in Entity
    BY <2>2
  <2>4. DigestRank[x.entity] \in Nat
    BY <2>3, EntitiesAreSealed
  <2>5. QED
    BY <2>2, <2>4
<1>2. \A x, y \in {m, n} : Form(t, x) = Form(t, y) => Length(x) = Length(y)
  <2>1. \A x \in {m, n} : Len(Form(t, x)) = Length(x)
    BY <1>1
  <2>2. QED
    BY <2>1
<1>3. ~LexLess(Form(t, m), Form(t, m))
  BY <1>1, LexOrders
<1>4. ASSUME Length(m) = Length(n)
      PROVE  \/ Form(t, m) = Form(t, n)
             \/ LexLess(Form(t, m), Form(t, n))
             \/ LexLess(Form(t, n), Form(t, m))
  <2>1. Form(t, n) \in [1..Length(m) -> Nat] /\ Form(t, m) \in [1..Length(m) -> Nat] /\ Length(m) \in Nat
    BY <1>1, <1>4
  <2>2. QED
    BY <2>1, LexOrders
<1>5. ASSUME Form(t, m) = Form(t, n), DigestRank[m.entity] = DigestRank[n.entity], m.start = n.start
      PROVE  m = n
  <2>1. m.entity = n.entity
    BY <1>1, <1>5, EntitiesAreSealed
  <2>2. m.end = n.end
    BY <1>1, <1>2, <1>5 DEF Length
  <2>3. QED
    BY <1>1, <1>5, <2>1, <2>2
<1>6. \A x, y \in {m, n} :
        ScannedBefore(t, x, y) <=>
          \/ Length(x) > Length(y)
          \/ Length(x) = Length(y) /\ LexLess(Form(t, x), Form(t, y))
          \/ /\ Form(t, x) = Form(t, y)
             /\ \/ DigestRank[x.entity] < DigestRank[y.entity]
                \/ x.entity = y.entity /\ x.start < y.start
  BY DEF ScannedBefore, Form
<1>7. ~ScannedBefore(t, m, m)
  BY <1>1, <1>3, <1>6
<1>8. m = n \/ ScannedBefore(t, m, n) \/ ScannedBefore(t, n, m)
  <2> SUFFICES ASSUME ~ScannedBefore(t, m, n), ~ScannedBefore(t, n, m)
               PROVE  m = n
    OBVIOUS
  <2>1. Length(m) = Length(n)
    BY <1>1, <1>6
  <2>2. Form(t, m) = Form(t, n)
    BY <1>4, <1>6, <2>1
  <2>3. DigestRank[m.entity] = DigestRank[n.entity]
    BY <1>1, <1>6, <2>2
  <2>4. m.entity = n.entity
    BY <1>1, <2>3, EntitiesAreSealed
  <2>5. m.start = n.start
    BY <1>1, <1>6, <2>2, <2>4
  <2>6. QED
    BY <1>5, <2>2, <2>3, <2>5
<1>9. ScannedBefore(t, m, n) => Length(n) <= Length(m)
  BY <1>1, <1>2, <1>6
<1>10. QED
  BY <1>7, <1>8, <1>9

\* What is scanned before the one before is scanned before.
LEMMA ScanningTransitive ==
  ASSUME NEW dict \in SUBSET Entity, NEW t \in Text,
         NEW m \in Occurrences(dict, t), NEW n \in Occurrences(dict, t), NEW k \in Occurrences(dict, t),
         ScannedBefore(t, m, n), ScannedBefore(t, n, k)
  PROVE  ScannedBefore(t, m, k)
<1>1. \A x \in {m, n, k} :
        /\ x \in [entity : dict, start : 0..Len(t), end : 0..Len(t)]
        /\ Length(x) \in Nat
        /\ Form(t, x) \in [1..Length(x) -> Nat]
        /\ DigestRank[x.entity] \in Nat
  <2> TAKE x \in {m, n, k}
  <2>1. x \in Occurrences(dict, t)
    OBVIOUS
  <2>2. /\ x \in [entity : dict, start : 0..Len(t), end : 0..Len(t)]
        /\ Length(x) \in Nat
        /\ Form(t, x) \in [1..Length(x) -> Nat]
    BY <2>1, OccurrenceIsPart
  <2>3. x.entity \in Entity
    BY <2>2
  <2>4. DigestRank[x.entity] \in Nat
    BY <2>3, EntitiesAreSealed
  <2>5. QED
    BY <2>2, <2>4
<1>2. \A x, y \in {m, n, k} : Form(t, x) = Form(t, y) => Length(x) = Length(y)
  <2>1. \A x \in {m, n, k} : Len(Form(t, x)) = Length(x)
    BY <1>1
  <2>2. QED
    BY <2>1
<1>3. \A x, y \in {m, n, k} :
        ScannedBefore(t, x, y) <=>
          \/ Length(x) > Length(y)
          \/ Length(x) = Length(y) /\ LexLess(Form(t, x), Form(t, y))
          \/ /\ Form(t, x) = Form(t, y)
             /\ \/ DigestRank[x.entity] < DigestRank[y.entity]
                \/ x.entity = y.entity /\ x.start < y.start
  BY DEF ScannedBefore, Form
<1>4. Length(m) >= Length(n) /\ Length(n) >= Length(k)
  BY <1>1, <1>2, <1>3
<1>5. CASE Length(m) > Length(k)
  BY <1>3, <1>5
<1>6. CASE Length(m) = Length(k)
  <2>1. Length(m) = Length(n) /\ Length(n) = Length(k)
    BY <1>1, <1>4, <1>6
  <2>2. /\ Form(t, m) \in [1..Length(m) -> Nat]
        /\ Form(t, n) \in [1..Length(m) -> Nat]
        /\ Form(t, k) \in [1..Length(m) -> Nat]
        /\ Length(m) \in Nat
    BY <1>1, <2>1
  <2>3. Form(t, m) = Form(t, n) \/ LexLess(Form(t, m), Form(t, n))
    BY <1>1, <1>3, <2>1
  <2>4. Form(t, n) = Form(t, k) \/ LexLess(Form(t, n), Form(t, k))
    BY <1>1, <1>3, <2>1
  <2>5. CASE Form(t, m) = Form(t, n) /\ Form(t, n) = Form(t, k)
    <3>1. /\ ~LexLess(Form(t, m), Form(t, n))
          /\ ~LexLess(Form(t, n), Form(t, k))
      BY <2>2, <2>5, LexOrders
    <3>2. /\ \/ DigestRank[m.entity] < DigestRank[n.entity]
             \/ m.entity = n.entity /\ m.start < n.start
          /\ \/ DigestRank[n.entity] < DigestRank[k.entity]
             \/ n.entity = k.entity /\ n.start < k.start
      BY <1>1, <1>3, <2>1, <3>1
    <3>3. \/ DigestRank[m.entity] < DigestRank[k.entity]
          \/ m.entity = k.entity /\ m.start < k.start
      BY <1>1, <3>2
    <3>4. QED
      BY <1>3, <2>5, <3>3
  <2>6. CASE Form(t, m) # Form(t, n) \/ Form(t, n) # Form(t, k)
    <3>1. LexLess(Form(t, m), Form(t, k))
      BY <2>2, <2>3, <2>4, <2>6, LexTransitive
    <3>2. QED
      BY <1>3, <1>6, <3>1
  <2>7. QED
    BY <2>5, <2>6
<1>7. QED
  BY <1>1, <1>4, <1>5, <1>6

\* Turns are one to one, follow the order of scanning and leave out none.
LEMMA TurnsFollow ==
  ASSUME NEW dict \in SUBSET Entity, NEW t \in Text,
         NEW m \in Occurrences(dict, t), NEW n \in Occurrences(dict, t)
  PROVE  LET found == Occurrences(dict, t)
             turn  == Turns(t, found)
         IN  /\ turn[m] \in 1..Cardinality(found)
             /\ ScannedBefore(t, m, n) => turn[m] < turn[n]
<1> DEFINE O == Occurrences(dict, t)
           upTo(x) == {y \in O : y = x \/ ScannedBefore(t, y, x)}
<1>1. IsFiniteSet(O)
  BY OccurrencesAreFinite
<1>2. \A x \in O : Turns(t, O)[x] = Cardinality(upTo(x))
  BY DEF Turns
<1>3. \A x \in O : /\ upTo(x) \subseteq O /\ x \in upTo(x)
                   /\ IsFiniteSet(upTo(x))
                   /\ Cardinality(upTo(x)) \in 1..Cardinality(O)
  <2> TAKE x \in O
  <2>1. upTo(x) \subseteq O /\ x \in upTo(x)
    OBVIOUS
  <2> HIDE DEF upTo
  <2>2. IsFiniteSet(upTo(x)) /\ Cardinality(upTo(x)) <= Cardinality(O)
    BY <1>1, <2>1, FS_Subset
  <2>3. Cardinality(upTo(x)) \in Nat /\ Cardinality(O) \in Nat /\ Cardinality(upTo(x)) # 0
    BY <1>1, <2>1, <2>2, FS_CardinalityType, FS_EmptySet
  <2>4. QED
    BY <2>1, <2>2, <2>3
<1>4. ASSUME ScannedBefore(t, m, n)
      PROVE  Cardinality(upTo(m)) < Cardinality(upTo(n))
  <2>1. upTo(m) \subseteq upTo(n)
    BY <1>4, ScanningTransitive
  <2>2. n \notin upTo(m)
    BY <1>4, ScanningTransitive, ScanningOrders
  <2>3. n \in upTo(n) /\ IsFiniteSet(upTo(n)) /\ Cardinality(upTo(n)) \in Nat /\ Cardinality(upTo(m)) \in Nat
    BY <1>3
  <2> HIDE DEF upTo
  <2>4. Cardinality(upTo(m)) <= Cardinality(upTo(n)) /\ Cardinality(upTo(m)) # Cardinality(upTo(n))
    BY <2>1, <2>2, <2>3, FS_Subset
  <2>5. QED
    BY <2>3, <2>4
<1>5. QED
  BY <1>2, <1>3, <1>4

\* The recursive definition of the extractor has a solution, so it reports turn
\* by turn what it seems to.
LEMMA ExtractionTurns ==
  ASSUME NEW dict \in SUBSET Entity, NEW t \in Text
  PROVE  LET found == Occurrences(dict, t)
         IN  \E taken :
               /\ ExtractMentions(dict, t) = taken[Cardinality(found)]
               /\ taken[0] = {}
               /\ \A k \in 1..Cardinality(found) :
                    taken[k] = Take(taken[k - 1], {m \in found : Turns(t, found)[m] = k})
<1> DEFINE O == Occurrences(dict, t)
           N == Cardinality(O)
           due(k) == {m \in O : Turns(t, O)[m] = k}
           step(n, g) == [k \in 0..n |-> IF k = 0 THEN {} ELSE Take(g[k - 1], due(k))]
           solved(n) == \E g : g = step(n, g)
           T == {n \in 0..N : solved(n)}
<1>1. ExtractMentions(dict, t) = (CHOOSE g : g = step(N, g))[N]
  BY DEF ExtractMentions
<1>2. N \in Nat
  BY OccurrencesAreFinite, FS_CardinalityType
<1> HIDE DEF O, N, due
<1>3. solved(0)
  <2> DEFINE g == [k \in 0..0 |-> {}]
  <2>1. g = step(0, g)
    OBVIOUS
  <2>2. QED
    BY <1>2, <2>1
<1>4. ASSUME NEW n \in 1..N, solved(n - 1)
      PROVE  solved(n)
  <2>1. PICK g : g = step(n - 1, g)
    BY <1>4
  <2> DEFINE h == [k \in 0..n |-> IF k = n THEN Take(g[n - 1], due(n)) ELSE g[k]]
  <2>2. \A k \in 0..n : h[k] = IF k = 0 THEN {} ELSE Take(h[k - 1], due(k))
    <3> TAKE k \in 0..n
    <3>1. CASE k = n
      <4>1. n # 0 /\ n - 1 \in 0..n /\ n - 1 # n /\ n \in 0..n
        BY <1>2
      <4>2. h[n - 1] = g[n - 1] /\ h[n] = Take(g[n - 1], due(n))
        BY <4>1
      <4> HIDE DEF h
      <4>3. QED
        BY <3>1, <4>1, <4>2
    <3>2. CASE k # n
      <4>1. k \in 0..n - 1 /\ k \in 0..n /\ (k # 0 => k - 1 \in 0..n /\ k - 1 # n)
        BY <1>2, <3>2
      <4>2. h[k] = g[k] /\ (k # 0 => h[k - 1] = g[k - 1])
        BY <3>2, <4>1
      <4>3. g[k] = IF k = 0 THEN {} ELSE Take(g[k - 1], due(k))
        BY <2>1, <4>1
      <4> HIDE DEF h
      <4>4. QED
        BY <4>2, <4>3
    <3>3. QED
      BY <3>1, <3>2
  <2>3. h = step(n, h)
    <3>1. h = [k \in 0..n |-> h[k]]
      OBVIOUS
    <3> HIDE DEF h
    <3>2. QED
      BY <2>2, <3>1
  <2>4. QED
    BY <2>3
<1>5. solved(N)
  <2> HIDE DEF solved
  <2>1. 0 \in T
    BY <1>2, <1>3
  <2>2. \A n \in 1..N : n - 1 \in T => n \in T
    BY <1>2, <1>4
  <2>3. T = 0..N
    BY <1>2, <2>1, <2>2, Climbs
  <2>4. N \in T
    BY <1>2, <2>3
  <2>5. QED
    BY <2>4
<1> DEFINE taken == CHOOSE g : g = step(N, g)
<1>6. taken = step(N, taken)
  BY <1>5
<1> HIDE DEF taken
<1>7. \A k \in 0..N : taken[k] = IF k = 0 THEN {} ELSE Take(taken[k - 1], due(k))
  BY <1>6, Zenon
<1>8. taken[0] = {} /\ \A k \in 1..N : taken[k] = Take(taken[k - 1], due(k))
  <2>1. 0 \in 0..N /\ \A k \in 1..N : k \in 0..N /\ k # 0
    BY <1>2
  <2>2. QED
    BY <1>7, <2>1
<1>9. ExtractMentions(dict, t) = taken[N]
  BY <1>1 DEF taken
<1>10. QED
  BY <1>8, <1>9, Zenon DEF O, N, due

\* Taking from left to right, longest form first, is to take the longest
\* matches, whatever the texts and the dictionary.
THEOREM ExtractorTakesLongest ==
  ASSUME NEW dict \in SUBSET Entity, NEW t \in Text
  PROVE  IsLongestMatch(dict, t, ExtractMentions(dict, t))
<1> DEFINE O == Occurrences(dict, t)
           N == Cardinality(O)
           turn == Turns(t, O)
<1>1. PICK taken : /\ ExtractMentions(dict, t) = taken[N]
                   /\ taken[0] = {}
                   /\ \A k \in 1..N : taken[k] = Take(taken[k - 1], {m \in O : turn[m] = k})
  BY ExtractionTurns
<1>2. N \in Nat
  BY OccurrencesAreFinite, FS_CardinalityType
<1>3. \A m, n \in O : /\ turn[m] \in 1..N
                      /\ ScannedBefore(t, m, n) => turn[m] < turn[n]
  BY TurnsFollow
<1>4. \A m, n \in O : /\ m = n \/ ScannedBefore(t, m, n) \/ ScannedBefore(t, n, m)
                      /\ ScannedBefore(t, m, n) => Length(n) <= Length(m)
  BY ScanningOrders
<1>5. \A m \in O : /\ m.start \in Nat /\ m.end \in Nat /\ m.start < m.end
                   /\ Length(m) \in Nat
  <2>1. \A m \in O : m \in [entity : dict, start : 0..Len(t), end : 0..Len(t)]
                     /\ m.start < m.end /\ Length(m) \in Nat
    BY OccurrenceIsPart
  <2>2. Len(t) \in Nat
    BY DEF Text
  <2> HIDE DEF O
  <2>3. QED
    BY <2>1, <2>2
<1> HIDE DEF O, N, turn
<1> DEFINE sound(k) ==
             /\ taken[k] \subseteq {m \in O : turn[m] <= k}
             /\ \A m, n \in taken[k] : m # n => ~Overlap(m, n)
             /\ \A m \in O : turn[m] <= k =>
                  \E n \in taken[k] : Overlap(m, n) /\ Length(n) >= Length(m)
           T == {k \in 0..N : sound(k)}
<1>6. sound(0)
  <2>1. \A m \in O : ~(turn[m] <= 0)
    BY <1>2, <1>3
  <2>2. QED
    BY <1>1, <2>1
<1>7. ASSUME NEW k \in 1..N, sound(k - 1)
      PROVE  sound(k)
  <2> DEFINE before == taken[k - 1]
             next == {m \in O : turn[m] = k}
  <2>1. taken[k] = before \cup {m \in next : \A n \in before : ~Overlap(m, n)}
    BY <1>1 DEF Take
  <2>2. /\ before \subseteq {m \in O : turn[m] <= k - 1}
        /\ \A m, n \in before : m # n => ~Overlap(m, n)
        /\ \A m \in O : turn[m] <= k - 1 =>
             \E n \in before : Overlap(m, n) /\ Length(n) >= Length(m)
    BY <1>7
  <2> HIDE DEF before
  <2>3. \A m, n \in next : m = n
    BY <1>3, <1>4
  <2>4. \A m, n \in O : Overlap(m, n) <=> Overlap(n, m)
    BY <1>5 DEF Overlap
  <2>5. taken[k] \subseteq {m \in O : turn[m] <= k}
    BY <1>2, <1>3, <2>1, <2>2
  <2>6. \A m, n \in taken[k] : m # n => ~Overlap(m, n)
    BY <2>1, <2>2, <2>3, <2>4
  <2>7. ASSUME NEW m \in O, turn[m] <= k
        PROVE  \E n \in taken[k] : Overlap(m, n) /\ Length(n) >= Length(m)
    <3>1. CASE turn[m] <= k - 1
      BY <2>1, <2>2, <3>1
    <3>2. CASE turn[m] = k /\ \A n \in before : ~Overlap(m, n)
      <4>1. m \in taken[k]
        BY <2>1, <3>2
      <4>2. Overlap(m, m) /\ Length(m) >= Length(m)
        BY <1>5 DEF Overlap
      <4>3. QED
        BY <4>1, <4>2
    <3>3. ASSUME turn[m] = k, NEW n \in before, Overlap(m, n)
          PROVE  n \in taken[k] /\ Length(n) >= Length(m)
      <4>1. n \in O /\ turn[n] <= k - 1 /\ n \in taken[k]
        BY <2>1, <2>2
      <4>2. ~ScannedBefore(t, m, n) /\ m # n
        BY <1>2, <1>3, <3>3, <4>1
      <4>3. QED
        BY <1>4, <1>5, <4>1, <4>2
    <3>4. turn[m] \in Nat
      BY <1>3
    <3>5. QED
      BY <1>2, <2>7, <3>1, <3>2, <3>3, <3>4
  <2>8. QED
    BY <2>5, <2>6, <2>7
<1>8. sound(N)
  <2> HIDE DEF sound
  <2>1. 0 \in T
    BY <1>2, <1>6
  <2>2. \A k \in 1..N : k - 1 \in T => k \in T
    BY <1>2, <1>7
  <2>3. T = 0..N
    BY <1>2, <2>1, <2>2, Climbs
  <2>4. N \in T
    BY <1>2, <2>3
  <2>5. QED
    BY <2>4
<1>9. \A m \in O : turn[m] <= N
  BY <1>2, <1>3
<1>10. QED
  BY <1>1, <1>8, <1>9 DEF IsLongestMatch, O

---------------------------------------------------------------------------
(* The index.                                                              *)

\* Every mention was found by an extractor with a dictionary: with none nothing
\* is indexed.
MentionsHaveExtractor == \A x \in mentions : x.extractor # {}

LEMMA MentionsHaveExtractorStep ==
  ASSUME MentionsHaveExtractor, [RetrievalNext]_retrievalVars
  PROVE  MentionsHaveExtractor'
<1>1. CASE UNCHANGED mentions
  BY <1>1 DEF MentionsHaveExtractor
<1>2. ASSUME NEW d \in Document, Reindex(d)
      PROVE  MentionsHaveExtractor'
  <2>1. \/ mentions' \subseteq mentions
        \/ /\ entities' # {}
           /\ \E R, kept : kept \subseteq mentions /\ mentions' = Indexed(R, entities', kept)
    BY <1>2 DEF Reindex, KeptMentions
  <2>2. ASSUME NEW R, NEW kept \in SUBSET mentions, NEW x \in Indexed(R, entities', kept)
        PROVE  x \in mentions \/ x.extractor = entities'
    BY <2>2 DEF Indexed, RowsOf
  <2>3. QED
    BY <2>1, <2>2 DEF MentionsHaveExtractor
<1>3. QED
  BY <1>1, <1>2
     DEF RetrievalNext, retrievalVars, indexVars, Writing, IngestAndIndex, PutEmbedding,
         Retrieving, Recall, SearchText, SearchVectors, ReadDictionary, SearchMentions,
         LoadCandidate, Walk, ReadConflicts, Answering, SubmitAnswer, LookUpCited,
         ReadObligations, Finish

\* What the index says of an indexed claim is what the extractor found in it,
\* whatever other extractors left there.
LEMMA IndexedSpans ==
  ASSUME NEW dict \in SUBSET Entity, NEW R \in SUBSET Record, NEW r \in R, NEW rows
  PROVE  Spans(Indexed(R, dict, rows), r, dict) = ExtractMentions(dict, Claim[r])
<1> DEFINE spot(x) == [entity |-> x.entity, start |-> x.start, end |-> x.end]
<1>1. Claim[r] \in Text
  BY TextsAreTexts
<1>2. \A m \in ExtractMentions(dict, Claim[r]) : m = spot(m)
  <2>1. \A m \in ExtractMentions(dict, Claim[r]) : m \in Occurrences(dict, Claim[r])
    BY <1>1, ExtractorTakesLongest DEF IsLongestMatch
  <2>2. \A m \in Occurrences(dict, Claim[r]) :
          m \in [entity : dict, start : 0..Len(Claim[r]), end : 0..Len(Claim[r])]
    BY <1>1, OccurrenceIsPart
  <2>3. QED
    BY <2>1, <2>2
<1>3. ASSUME NEW m \in ExtractMentions(dict, Claim[r])
      PROVE  m \in Spans(Indexed(R, dict, rows), r, dict)
  <2> DEFINE x == [record |-> r, entity |-> m.entity, start |-> m.start, end |-> m.end,
                   extractor |-> dict]
  <2>1. x \in RowsOf(r, dict)
    BY DEF RowsOf
  <2>2. x \in Indexed(R, dict, rows)
    BY <2>1 DEF Indexed
  <2>3. x.record = r /\ x.extractor = dict /\ spot(x) = spot(m)
    OBVIOUS
  <2> HIDE DEF x
  <2>4. spot(x) \in Spans(Indexed(R, dict, rows), r, dict)
    BY <2>2, <2>3 DEF Spans
  <2>5. QED
    BY <1>2, <2>3, <2>4
<1>4. ASSUME NEW x \in Indexed(R, dict, rows), x.record = r, x.extractor = dict
      PROVE  spot(x) \in ExtractMentions(dict, Claim[r])
  <2>1. PICK q \in R : x \in RowsOf(q, dict)
    BY <1>4 DEF Indexed
  <2>2. PICK m \in ExtractMentions(dict, Claim[q]) :
          x = [record |-> q, entity |-> m.entity, start |-> m.start, end |-> m.end,
               extractor |-> dict]
    BY <2>1 DEF RowsOf
  <2>3. q = r /\ spot(x) = spot(m)
    BY <1>4, <2>2
  <2>4. QED
    BY <1>2, <2>2, <2>3
<1>5. QED
  BY <1>3, <1>4 DEF Spans

\* With nothing declared nothing is found.
LEMMA NothingWithoutEntities ==
  ASSUME NEW t
  PROVE  IsLongestMatch({}, t, {})
BY DEF IsLongestMatch, Occurrences, Surfaces

\* Whatever was declared, indexed and left behind before, an ingestion leaves
\* every stored claim indexed with the longest matches of the dictionary as it
\* now is (ingest.rs, entity.rs reindex_mentions).
THEOREM IngestionIndexesAll == RetrievalSpec => IngestIndexesAll
<1>1. RetrievalInit => MentionsHaveExtractor
  BY DEF RetrievalInit, MentionsHaveExtractor
<1>2. RetrievalSpec => []MentionsHaveExtractor
  BY <1>1, MentionsHaveExtractorStep, PTL DEF RetrievalSpec
<1>3. ASSUME RetrievalTypeOK, MentionsHaveExtractor,
             NEW c \in Operator, NEW d \in Document, NEW t \in PassedInstants \ {0},
             IngestAndIndex(c, d, t), NEW r \in Record, recordedSeq'[r] > 0
      PROVE  IsLongestMatch(entities', Claim[r], Spans(mentions', r, entities'))
  <2> DEFINE kept == KeptMentions(d)
             stored == {q \in Record : recordedSeq'[q] > 0}
  <2>1. Reindex(d)
    BY <1>3 DEF IngestAndIndex
  <2>2. entities' \subseteq Entity
    BY <1>3, <2>1, ReindexType
  <2>3. CASE entities' = {}
    <3>1. mentions' = kept
      BY <2>1, <2>3 DEF Reindex
    <3>2. Spans(mentions', r, entities') = {}
      BY <1>3, <2>3, <3>1 DEF Spans, MentionsHaveExtractor, KeptMentions
    <3>3. QED
      BY <2>3, <3>2, NothingWithoutEntities
  <2>4. CASE entities' # {}
    <3>1. mentions' = Indexed(stored, entities', kept)
      BY <2>1, <2>4 DEF Reindex
    <3>2. r \in stored /\ stored \in SUBSET Record /\ Claim[r] \in Text
      BY <1>3, TextsAreTexts
    <3> HIDE DEF stored, kept
    <3>3. Spans(mentions', r, entities') = ExtractMentions(entities', Claim[r])
      BY <2>2, <3>1, <3>2, IndexedSpans
    <3>4. QED
      BY <2>2, <3>2, <3>3, ExtractorTakesLongest
  <2>5. QED
    BY <2>3, <2>4
<1>4. RetrievalTypeOK /\ MentionsHaveExtractor =>
        ((/\ retrievalVars' # retrievalVars
          /\ \E c \in Operator, d \in Document, t \in PassedInstants \ {0} : IngestAndIndex(c, d, t)) =>
           \A r \in Record :
             recordedSeq'[r] > 0 =>
               IsLongestMatch(entities', Claim[r], Spans(mentions', r, entities')))
  BY <1>3
<1>5. QED
  BY <1>2, <1>4, RetrievalTypeCorrect, PTL DEF IngestIndexesAll
=============================================================================
