------------------------- MODULE EvidenceRetrieval -------------------------
(***************************************************************************)
(* Retrieval from the evidence store while it is written: the index of     *)
(* entity mentions that ingestion keeps, the vectors, and an agent that    *)
(* recalls claims and submits answers that cite them.                      *)
(*                                                                         *)
(* Each branch of a recall, each candidate it loads and each of its walks  *)
(* is a read of its own, so writers come between any two.  The text index  *)
(* is kept by triggers and is never behind.  One agent recalls: readers do *)
(* not affect each other.  Scores are left out: what they order is         *)
(* cut off in any order.                                                   *)
(***************************************************************************)
EXTENDS EvidenceStore, EntityExtraction, SequencesExt

CONSTANTS
  Claim,      \* the text of every record
  Query,      \* the text the agent asks for
  Matching,   \* the records a text search for the query matches
  Embeddable, \* those the embedder has a vector for
  Fetch,      \* how many rows a branch reads; in the code four times Limit
  Limit,      \* how many hits are returned
  MaxHops,
  Asked,      \* what agents ask of recall: retired records too, semantics
  Cited,      \* the sets of records they cite
  Acked       \* the sets of conflicts they acknowledge, each in an order

ASSUME TextsAreTexts == Claim \in [Record -> Text] /\ Query \in Text
(* A record is named by its seal, of which there are finitely many.        *)
ASSUME RecordsAreFinite == IsFiniteSet(Record)
ASSUME BranchesAreOfRecords == Matching \subseteq Record /\ Embeddable \subseteq Record
ASSUME RequestsAreRequests ==
  /\ Asked \subseteq [retired : BOOLEAN, semantic : BOOLEAN]
  /\ Cited \subseteq SUBSET Record
  /\ Acked \subseteq SUBSET (Record \X Record)
ASSUME RetrievalBounds == {Fetch, Limit, MaxHops} \subseteq Nat /\ 0 < Limit /\ Limit <= Fetch

(* The entities a document declares.                                       *)
ASSUME DocumentsDeclareEntities == \A d \in Document : d.entities \subseteq Entity

VARIABLES
  entities, \* the declared entities: the dictionary
  mentions, \* rows of the table of the same name
  vectors,  \* records with a vector in the space of the embedder
  job       \* what the agent's server is in the middle of

indexVars == <<entities, mentions, vectors>>
retrievalVars == <<vars, indexVars, job>>

NoJob == [step |-> "idle"]

Distance    == 0..MaxHops
Candidates  == UNION {[R -> Distance] : R \in SUBSET Record}
RecallSteps == {"lexical", "semantic", "dictionary", "entity", "provenance"}
AnswerSteps == {"lookup", "obligations", "accepted", "refused"}

Recalling == [step : RecallSteps, retired : BOOLEAN, semantic : BOOLEAN,
              dict : SUBSET Entity, cands : Candidates,
              seeds : SUBSET Record, walked : SUBSET Record,
              pending : SUBSET (Record \X Distance), withheld : SUBSET Record,
              began : [stored : SUBSET Record, live : SUBSET Record, edges : SUBSET Edge]]

Recalled == [step : {"recalled"}, hits : SUBSET Record, conflicts : SUBSET (Record \X Record),
             known : SUBSET (Record \X Record)]

Answer == [step : AnswerSteps, cited : SUBSET Record, acked : SUBSET (Record \X Record),
           left : SUBSET Record, owed : SUBSET (Record \X Record),
           flagged : SUBSET (Record \X Record), told : SUBSET (Record \X Record)]

Job == {NoJob} \cup Recalling \cup Recalled \cup Answer

---------------------------------------------------------------------------
(* The index of mentions.                                                  *)

RowsOf(r, dict) ==
  {[record |-> r, entity |-> m.entity, start |-> m.start, end |-> m.end, extractor |-> dict] :
     m \in ExtractMentions(dict, Claim[r])}

SameKey(x, y) == x.record = y.record /\ x.entity = y.entity /\ x.start = y.start

(* Store::index_mentions of the records R: the rows of this extractor go,  *)
(* new ones replace those with their key, those of other extractors stay.  *)
Indexed(R, dict, rows) ==
  LET new == UNION {RowsOf(r, dict) : r \in R}
  IN  new \cup {x \in rows : /\ ~(x.record \in R /\ x.extractor = dict)
                             /\ \A y \in new : ~SameKey(x, y)}

(* Store::put_entity replaces the row of an entity, and the mentions of it *)
(* go with the row.                                                        *)
KeptMentions(d) == {x \in mentions : x.entity \notin d.entities}

(* Mutant: only the claims of the document are indexed again.              *)
ReindexDocument(d) ==
  LET kept == KeptMentions(d)
  IN  /\ entities' = entities \cup d.entities
      /\ mentions' = IF entities' = {} THEN kept ELSE Indexed(d.claims, entities', kept)

(* Then reindex_mentions looks at every claim.                             *)
Reindex(d) ==
  LET kept   == KeptMentions(d)
      stored == {r \in Record : recordedSeq'[r] > 0}
  IN  /\ entities' = entities \cup d.entities
      /\ mentions' = IF entities' = {} THEN kept ELSE Indexed(stored, entities', kept)

IngestAndIndex(c, d, t) ==
  /\ UNCHANGED <<vectors, job>>
  /\ Ingest(c, d, t)
  /\ Reindex(d)

(* The backfill embeds what had no vector when it began; the vector of a   *)
(* record is always the same.                                              *)
PutEmbedding(r) ==
  /\ r \in Stored \cap Embeddable
  /\ vectors' = vectors \cup {r}
  /\ UNCHANGED <<vars, entities, mentions, job>>

---------------------------------------------------------------------------
(* Recall.                                                                 *)

(* What a search with this option returns.                                 *)
Admitted(r) == r \in Live \/ job.retired

(* The rows of a branch, at most Fetch of them.                            *)
Fetched(R) ==
  {F \in SUBSET R : Cardinality(F) = Fetch \/ (Cardinality(F) < Fetch /\ F = R)}

(* What the store holds when a call begins, for the properties.            *)
Seen == [stored |-> Stored, live |-> Live, edges |-> edges]

Recall(asked) ==
  /\ job = NoJob
  /\ job' = [step |-> "lexical", retired |-> asked.retired, semantic |-> asked.semantic,
             dict |-> {}, cands |-> <<>>, seeds |-> {}, walked |-> {},
             pending |-> {}, withheld |-> {}, began |-> Seen]
  /\ UNCHANGED <<vars, indexVars>>

With(cands, R, d) == [x \in DOMAIN cands \cup R |-> IF x \in R THEN d ELSE cands[x]]

(* Mutant: a retired match is reported as withheld and kept.               *)
SearchTextKeepsRetired ==
  /\ job.step = "lexical"
  /\ \E F \in Fetched(Matching \cap Stored) :
       job' = [job EXCEPT !.step = IF job.semantic THEN "semantic" ELSE "dictionary",
                          !.cands = With(@, F, 0),
                          !.seeds = F,
                          !.withheld = F \ {r \in F : Admitted(r)}]
  /\ UNCHANGED <<vars, indexVars>>

(* The lexical branch reads the matches with their retirement.  A          *)
(* candidate has no distance, 0, until a walk reaches it.                  *)
SearchText ==
  /\ job.step = "lexical"
  /\ \E F \in Fetched(Matching \cap Stored) :
       LET hits == {r \in F : Admitted(r)}
       IN  job' = [job EXCEPT !.step = IF job.semantic THEN "semantic" ELSE "dictionary",
                              !.cands = With(@, hits, 0),
                              !.seeds = hits,
                              !.withheld = F \ hits]
  /\ UNCHANGED <<vars, indexVars>>

SearchVectors ==
  /\ job.step = "semantic"
  /\ \E F \in Fetched({r \in vectors : Admitted(r)}) :
       job' = [job EXCEPT !.step = "dictionary",
                          !.pending = (F \ DOMAIN job.cands) \X {0}]
  /\ UNCHANGED <<vars, indexVars>>

ReadDictionary ==
  /\ job.step = "dictionary"
  /\ job.pending = {}
  /\ job' = [job EXCEPT !.step = "entity", !.dict = entities]
  /\ UNCHANGED <<vars, indexVars>>

(* The records that mention what the query names, according to the         *)
(* dictionary just read; those that mention most of it come first.         *)
SearchMentions ==
  /\ job.step = "entity"
  /\ LET wanted    == {m.entity : m \in ExtractMentions(job.dict, Query)}
         shared(r) == {e \in wanted : \E x \in mentions : x.record = r /\ x.entity = e}
         found     == {r \in Stored : Admitted(r) /\ shared(r) # {}}
     IN  \E F \in Fetched(found) :
           /\ \A r \in F, s \in found \ F : Cardinality(shared(r)) >= Cardinality(shared(s))
           /\ job' = [job EXCEPT !.step = "provenance",
                                 !.dict = {},
                                 !.pending = (F \ DOMAIN job.cands) \X {0}]
  /\ UNCHANGED <<vars, indexVars>>

(* Mutant: the retirement is not looked at again.                          *)
LoadCandidateUnchecked ==
  /\ job.step \in {"dictionary", "provenance"}
  /\ \E p \in job.pending :
       job' = [job EXCEPT !.pending = @ \ {p},
                          !.cands = With(@, {p[1]}, p[2]),
                          !.seeds = IF p[2] = 0 THEN @ \cup {p[1]} ELSE @]
  /\ UNCHANGED <<vars, indexVars>>

(* Store::load_candidate of a record found: retired by now, it is withheld.*)
(* What a content branch found becomes a seed of the walks.                *)
LoadCandidate ==
  /\ job.step \in {"dictionary", "provenance"}
  /\ \E p \in job.pending :
       job' = IF Admitted(p[1])
              THEN [job EXCEPT !.pending = @ \ {p},
                               !.cands = With(@, {p[1]}, p[2]),
                               !.seeds = IF p[2] = 0 THEN @ \cup {p[1]} ELSE @]
              ELSE [job EXCEPT !.pending = @ \ {p}, !.withheld = @ \cup {p[1]}]
  /\ UNCHANGED <<vars, indexVars>>

---------------------------------------------------------------------------
(* Provenance.                                                             *)

(* Mutant: edges are followed from their source only.                      *)
AdjacentForward(E) == {<<e[1], e[2]>> : e \in E}

Adjacent(E) == {<<e[1], e[2]>> : e \in E} \cup {<<e[2], e[1]>> : e \in E}

(* The walks of the recursive query: none comes back to where it has been. *)
Walks(E, seed) ==
  UNION {{q \in [1..n + 1 -> Record] :
            /\ q[1] = seed
            /\ IsInjective(q)
            /\ \A i \in 1..n : <<q[i], q[i + 1]>> \in Adjacent(E)} : n \in 0..MaxHops}

(* Store::traverse: what is reached, and in how many hops at least.        *)
Traverse(E, seed) ==
  LET walks == Walks(E, seed)
      hops(r) == {Len(p) - 1 : p \in {q \in walks : Last(q) = r}}
  IN  [r \in {Last(p) : p \in walks} |-> Min(hops(r))]

(* Mutant: the last distance found.                                        *)
NearerLast(old, new) == new

(* The nearer of two distances; 0 is none.                                 *)
Nearer(old, new) == IF old = 0 \/ new < old THEN new ELSE old

(* One walk from a seed.  A candidate it reaches comes nearer; the others  *)
(* are loaded next.                                                        *)
Walk ==
  /\ job.step = "provenance"
  /\ job.pending = {}
  /\ MaxHops > 0
  /\ \E s \in job.seeds :
       LET reached == Traverse(edges, s)
           others  == DOMAIN reached \ {s}
       IN  job' = [job EXCEPT
                     !.seeds = @ \ {s},
                     !.walked = @ \cup {s},
                     !.cands = [r \in DOMAIN @ |-> IF r \in others THEN Nearer(@[r], reached[r])
                                                   ELSE @[r]],
                     !.pending = {<<r, reached[r]>> : r \in others \ DOMAIN job.cands}]
  /\ UNCHANGED <<vars, indexVars>>

ContradictionsIn(E) == {<<e[1], e[2]>> : e \in {x \in E : x[3] = "contradicts"}}

(* All branches have run.                                                  *)
Gathered ==
  /\ job.step = "provenance"
  /\ job.pending = {}
  /\ job.seeds = {} \/ MaxHops = 0

(* The conflicts are read last; then the hits are ranked and cut.          *)
ReadConflicts ==
  /\ Gathered
  /\ \E H \in SUBSET DOMAIN job.cands :
       /\ Cardinality(H) = Limit \/ (Cardinality(H) < Limit /\ H = DOMAIN job.cands)
       /\ job' = [step |-> "recalled", hits |-> H, conflicts |-> ContradictionsIn(edges),
                  known |-> ContradictionsIn(job.began.edges)]
  /\ UNCHANGED <<vars, indexVars>>

(* Mutant: a conflict is reported at the record it was flagged from.       *)
ConflictsWithForward(r) == {p[2] : p \in {q \in job.conflicts : q[1] = r}}

(* conflicts_with of a hit.                                                *)
ConflictsWith(r) ==
  {p[2] : p \in {q \in job.conflicts : q[1] = r}} \cup {p[1] : p \in {q \in job.conflicts : q[2] = r}}

---------------------------------------------------------------------------
(* Answers.                                                                *)

(* What a recall that began before has told the agent, when it cites hits  *)
(* of it and acknowledges every conflict reported with them.               *)
ToldOf(cited, acked) ==
  IF /\ job.step = "recalled"
     /\ cited \subseteq job.hits
     /\ \A r \in cited : \A s \in ConflictsWith(r) : {<<r, s>>, <<s, r>>} \cap acked # {}
  THEN job.known ELSE {}

(* The tool submit_answer, of an agent that has recalled or not.  It cites *)
(* records and acknowledges conflicts, each in either order.               *)
SubmitAnswer(cited, acked) ==
  /\ job.step \in {"idle", "recalled"}
  /\ cited # {}
  /\ job' = [step |-> "lookup", cited |-> cited, acked |-> acked, left |-> cited, owed |-> {},
             flagged |-> ContradictionsIn(edges), told |-> ToldOf(cited, acked)]
  /\ UNCHANGED <<vars, indexVars>>

(* Every cited record must exist.                                          *)
LookUpCited ==
  /\ job.step = "lookup"
  /\ \E r \in job.left :
       job' = IF r \notin Stored THEN NoJob
              ELSE IF job.left = {r} THEN [job EXCEPT !.step = "obligations", !.left = job.cited]
              ELSE [job EXCEPT !.left = @ \ {r}]
  /\ UNCHANGED <<vars, indexVars>>

(* Mutant: the conflicts flagged from the cited record.                    *)
ObligationsForward(r) ==
  {<<r, s>> : s \in {x \in Live : r \in Live /\ <<r, x>> \in ContradictionsIn(edges)}}

(* Store::conflict_obligations of one record: both sides are live.         *)
Obligations(r) ==
  {<<r, s>> : s \in {x \in Live : /\ r \in Live
                                  /\ {<<r, x>>, <<x, r>>} \cap ContradictionsIn(edges) # {}}}

Outstanding(owed) == {p \in owed : {p, <<p[2], p[1]>>} \cap job.acked = {}}

(* After the last of them the answer is accepted or refused.               *)
ReadObligations ==
  /\ job.step = "obligations"
  /\ \E r \in job.left :
       LET owed == job.owed \cup Obligations(r)
       IN  job' = [job EXCEPT !.left = @ \ {r},
                              !.owed = owed,
                              !.step = IF job.left # {r} THEN @
                                       ELSE IF Outstanding(owed) = {} THEN "accepted"
                                       ELSE "refused"]
  /\ UNCHANGED <<vars, indexVars>>

Finish ==
  /\ job.step \in {"recalled", "accepted", "refused"}
  /\ job' = NoJob
  /\ UNCHANGED <<vars, indexVars>>

---------------------------------------------------------------------------
RetrievalInit ==
  /\ Init
  /\ entities = {}
  /\ mentions = {}
  /\ vectors = {}
  /\ job = NoJob

Retrieving ==
  \/ \E asked \in Asked : Recall(asked)
  \/ SearchText
  \/ SearchVectors
  \/ ReadDictionary
  \/ SearchMentions
  \/ LoadCandidate
  \/ Walk
  \/ ReadConflicts

Answering ==
  \/ \E cited \in Cited, acked \in Acked : SubmitAnswer(cited, acked)
  \/ LookUpCited
  \/ ReadObligations

(* The statements of writers, without those that ingest documents.         *)
Writing ==
  /\ \/ \E c \in Connection : Remembering(c) \/ Die(c)
     \/ \E c \in Operator : Retire(c) \/ InsertSupersedesEdge(c)
     \/ \E c \in Operator : \E r, s \in Record : Supersede(c, r, s)
     \/ \E c \in Agent : \E p \in Contradictory : FlagContradiction(c, p[1], p[2])
     \/ \E o \in Observation : PutObservation(o)
     \/ Tick
  /\ UNCHANGED <<indexVars, job>>

RetrievalNext ==
  \/ Writing
  \/ \E c \in Operator, d \in Document, t \in PassedInstants \ {0} : IngestAndIndex(c, d, t)
  \/ \E r \in Record : PutEmbedding(r)
  \/ Retrieving
  \/ Answering
  \/ Finish

RetrievalSpec == RetrievalInit /\ [][RetrievalNext]_retrievalVars
---------------------------------------------------------------------------
(* Properties.                                                             *)

RetrievalTypeOK ==
  /\ entities \subseteq Entity
  /\ \A x \in mentions : x.record \in Record /\ x.extractor \subseteq Entity
  /\ vectors \subseteq Stored
  /\ job \in Job

(* What the index says of a record, of one extractor.                      *)
Spans(rows, r, dict) ==
  {[entity |-> x.entity, start |-> x.start, end |-> x.end] :
     x \in {y \in rows : y.record = r /\ y.extractor = dict}}

\* After every ingestion the mentions of the current extractor are, for every
\* stored claim and not only the document's, the longest matches of the
\* dictionary, although declaring an entity again deletes its mentions.
IngestIndexesAll ==
  [][(/\ retrievalVars' # retrievalVars
      /\ \E c \in Operator, d \in Document, t \in PassedInstants \ {0} : IngestAndIndex(c, d, t)) =>
       \A r \in Record :
         recordedSeq'[r] > 0 =>
           IsLongestMatch(entities', Claim[r], Spans(mentions', r, entities'))]_retrievalVars

\* By default no claim that was retired before a recall began is among what
\* it found, by whichever branch.
NoRetiredHits ==
  Gathered /\ ~job.retired =>
    DOMAIN job.cands \cap job.began.stored \subseteq job.began.live

\* What is reported as withheld is retired, and is not also a candidate,
\* although the branches read at different moments.
WithheldAreRetired ==
  Gathered =>
    /\ job.withheld \subseteq Stored \ Live
    /\ job.withheld \cap DOMAIN job.cands = {}

(* Reference: what is within n hops, edges in any direction.               *)
Within(E, s) ==
  LET ball[n \in 0..MaxHops] ==
        IF n = 0 THEN {s}
        ELSE ball[n - 1]
               \cup {x \in Record : \E e \in E, y \in ball[n - 1] : {x, y} = {e[1], e[2]}}
  IN  ball

\* Nothing that was there when the recall began disappears silently: a claim
\* whose text matches, or that was within reach of what a branch found, is a
\* candidate or withheld, unless the branch had its fill of others.
AccountedFor ==
  Gathered =>
    LET surfaced == DOMAIN job.cands \cup job.withheld
    IN  /\ \/ Matching \cap job.began.stored \subseteq surfaced
           \/ Cardinality(Matching \cap surfaced) >= Fetch
        /\ \A s \in job.walked : Within(job.began.edges, s)[MaxHops] \subseteq surfaced

(* The hops in which some other seed reaches r.                            *)
HopsTo(E, r) == {n \in 1..MaxHops : \E s \in job.walked \ {r} : r \in Within(E, s)[n]}

\* The distance of a candidate is the shortest from any other seed: no longer
\* than it was when the recall began, no shorter than it is now that the
\* edges have grown between the walks.
DistancesShortest ==
  Gathered =>
    \A r \in DOMAIN job.cands :
      LET d == job.cands[r]
      IN  /\ d > 0 => d \in HopsTo(edges, r)
          /\ \A n \in HopsTo(job.began.edges, r) : d \in 1..n

\* An accepted answer has acknowledged every conflict of the claims it cites
\* that was flagged before the answer was submitted and is still open.
AnswersAccountFor ==
  job.step = "accepted" =>
    \A p \in job.flagged :
      {p[1], p[2]} \subseteq Live /\ {p[1], p[2]} \cap job.cited # {}
        => {p, <<p[2], p[1]>>} \cap job.acked # {}

\* An agent that cites hits of a recall and acknowledges what the recall told
\* about them is refused only for conflicts flagged after it asked.
RefusalsAreNews ==
  job.step = "refused" =>
    \A p \in Outstanding(job.owed) : {p, <<p[2], p[1]>>} \cap job.told = {}
=============================================================================
