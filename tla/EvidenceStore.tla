--------------------------- MODULE EvidenceStore ---------------------------
(***************************************************************************)
(* The evidence store: claims in transaction order, the observations they  *)
(* rest on, their retirement, and what the store believed at a past        *)
(* sequence or instant.  Several processes hold the database open: the MCP *)
(* servers of agents and the command line tools of operators.  A statement *)
(* outside a transaction is a step of its own, so other processes, or the  *)
(* end of this one, come between the statements of one call.  An ingested  *)
(* document is one transaction.                                            *)
(*                                                                         *)
(* A record stands for its digest, which seals the claim, its class and    *)
(* the observations it names.  A call that is refused before it writes     *)
(* changes nothing and is no action.  Sequence 0 and instant 0 stand for   *)
(* NULL.  Nothing in the program writes the retraction columns.            *)
(***************************************************************************)
EXTENDS Naturals, FiniteSets

CONSTANTS
  Agent,         \* processes that serve an agent
  Operator,      \* processes an operator runs
  Mortal,        \* those that may end in the middle of a call
  Record,
  NoRecord,
  Observation,
  Support,       \* the observations a record names
  Document,      \* the documents operators ingest
  Contradictory, \* the pairs of records agents find to conflict
  MaxSeq,        \* bounds the sequences
  MaxTime,       \* bounds the clock
  MaxSupersedes, \* bounds the calls of the admin command supersede
  Backdating     \* whether callers pass instants of the past

Connection == Agent \cup Operator
EdgeKind   == {"supersedes", "derivedFrom", "contradicts"}
Edge       == {e \in Record \X Record \X EdgeKind : e[1] # e[2]}
Seq0       == 0..MaxSeq
Instant    == 1..MaxTime

ASSUME BoundsAreNaturals == {MaxSeq, MaxTime, MaxSupersedes} \subseteq Nat /\ MaxTime > 0
ASSUME NoRecordIsNone    == NoRecord \notin Record
ASSUME SupportIsSealed   == Support \in [Record -> SUBSET Observation]

ASSUME ContradictoryPairs == Contradictory \subseteq Record \X Record

(* A document declares what its claims rest on, wires only its own claims, *)
(* and retires none of them twice or in favour of itself.                  *)
ASSUME DocumentsAreClosed ==
  \A d \in Document :
    /\ d.claims \subseteq Record
    /\ d.observations \subseteq Observation
    /\ d.edges \subseteq {e \in Edge : e[1] \in d.claims /\ e[2] \in d.claims}
    /\ d.retires \subseteq d.claims \X d.claims
    /\ \A r \in d.claims : Support[r] \subseteq d.observations
    /\ \A p \in d.retires : p[1] # p[2]
    /\ \A p, q \in d.retires : p[1] = q[1] => p = q

VARIABLES
  \* memories, per record
  recordedSeq,     \* AUTOINCREMENT: larger than any before
  recordedAt,      \* the instant the caller passed
  supersededBy,
  supersededSeq,
  \* the other tables
  edges,           \* provenance_edges
  observations,
  linked,          \* memory_observations
  \* the processes and the world
  call,            \* what each process is in the middle of
  answered,        \* records whose write was answered with success
  now,
  supersedes       \* calls of the admin command supersede so far

retirementVars == <<supersededBy, supersededSeq>>
memoryVars     == <<recordedSeq, recordedAt, retirementVars>>
evidenceVars   == <<observations, linked>>
worldVars      == <<answered, now, supersedes>>
vars == <<memoryVars, edges, evidenceVars, call, worldVars>>

---------------------------------------------------------------------------
Idle == [step |-> "idle"]

Linking  == [step : {"linking"}, record : Record, left : SUBSET Observation]
Retiring == {q \in [step : {"retiring"}, retired : Record, replacement : Record, mark : Seq0] :
               q.retired # q.replacement}
Edging   == {q \in [step : {"edging"}, retired : Record, replacement : Record] :
               q.retired # q.replacement}
Call     == {Idle} \cup Linking \cup Retiring \cup Edging

Stored == {r \in Record : recordedSeq[r] > 0}
Live   == {r \in Stored : supersededBy[r] = NoRecord}

(* max(recorded_seq), or 0: n is the high watermark of the sequences f.    *)
IsWatermark(n, f) ==
  /\ n \in {0} \cup {f[r] : r \in Record}
  /\ \A r \in Record : f[r] <= n

Init ==
  /\ recordedSeq   = [r \in Record |-> 0]
  /\ recordedAt    = [r \in Record |-> 0]
  /\ supersededBy  = [r \in Record |-> NoRecord]
  /\ supersededSeq = [r \in Record |-> 0]
  /\ edges         = {}
  /\ observations  = {}
  /\ linked        = {}
  /\ call          = [c \in Connection |-> Idle]
  /\ answered      = {}
  /\ now           = 1
  /\ supersedes    = 0

---------------------------------------------------------------------------
(* Writing claims.                                                         *)

(* Sequences for the records R, each above all there are.                  *)
Fresh(R) ==
  {f \in [R -> Seq0] :
     /\ \A r \in R, s \in Record : f[r] > recordedSeq[s]
     /\ \A r, s \in R : r # s => f[r] # f[s]}

Renumbered(R, f) == [r \in Record |-> IF r \in R THEN f[r] ELSE recordedSeq[r]]

(* Mutant: INSERT OR REPLACE.                                              *)
NumberingsReplacing(R) == {Renumbered(R, f) : f \in Fresh(R)}

(* INSERT OR IGNORE INTO memories, of the records R: one already stored    *)
(* keeps its row, a new one gets a sequence above all others, next to the  *)
(* last or, when a failed statement burned some, further on.               *)
Numberings(R) == {Renumbered(R \ Stored, f) : f \in Fresh(R \ Stored)}

RecordedWhen(R, t) ==
  [r \in Record |-> IF r \in R \ Stored THEN t ELSE recordedAt[r]]

(* The instants a caller may pass: none, the present one or an old one.    *)
PassedInstants == IF Backdating THEN 0..now ELSE {now}

(* Mutant: a claim already present is answered at once.                    *)
LeftToLinkIfNew(r) == IF r \in Stored THEN {} ELSE Support[r]

(* The links are inserted whether or not the claim is new.                 *)
LeftToLink(r) == Support[r]

(* With its last statement done, the call is answered.                     *)
LinkNext(c, r, left) ==
  /\ call' = [call EXCEPT ![c] =
                IF left = {} THEN Idle
                ELSE [step |-> "linking", record |-> r, left |-> left]]
  /\ answered' = IF left = {} THEN answered \cup {r} ELSE answered

(* Store::put_memory, its first statement, for the tool remember or for    *)
(* record-decision.                                                        *)
PutMemory(c, r, t) ==
  /\ call[c] = Idle
  /\ recordedSeq' \in Numberings({r})
  /\ recordedAt' = RecordedWhen({r}, t)
  /\ LinkNext(c, r, LeftToLink(r))
  /\ UNCHANGED <<retirementVars, edges, evidenceVars, now, supersedes>>

LinkObservation(c, o) ==
  /\ call[c].step = "linking"
  /\ o \in call[c].left \cap observations
  /\ linked' = linked \cup {<<call[c].record, o>>}
  /\ LinkNext(c, call[c].record, call[c].left \ {o})
  /\ UNCHANGED <<memoryVars, edges, observations, now, supersedes>>

(* The foreign key refuses an observation that is not stored; the claim    *)
(* and the links before it stay.                                           *)
PutMemoryFails(c) ==
  /\ call[c].step = "linking"
  /\ call[c].left \ observations # {}
  /\ call' = [call EXCEPT ![c] = Idle]
  /\ UNCHANGED <<memoryVars, edges, evidenceVars, worldVars>>

(* Store::put_observation.                                                 *)
PutObservation(o) ==
  /\ observations' = observations \cup {o}
  /\ UNCHANGED <<memoryVars, edges, linked, call, worldVars>>

---------------------------------------------------------------------------
(* Retirement.                                                             *)

(* Mutants: the retirement takes the sequence after the watermark; the     *)
(* watermark is the number of claims.                                      *)
IsRetirementSeqNext(n, f) == n > 0 /\ IsWatermark(n - 1, f)

IsRetirementSeqDense(n, f) == n = Cardinality({r \in Record : f[r] > 0})

(* The sequence of a retirement is the high watermark.                     *)
IsRetirementSeq(n, f) == IsWatermark(n, f)

(* Mutant: the edge points from the retired record.                        *)
SupersedesEdgeReversed(retired, replacement) == <<retired, replacement, "supersedes">>

SupersedesEdge(retired, replacement) == <<replacement, retired, "supersedes">>

(* The admin command supersede has found both records when Store::supersede*)
(* reads the watermark.                                                    *)
Supersede(c, retired, replacement) ==
  /\ call[c] = Idle
  /\ supersedes < MaxSupersedes
  /\ supersedes' = supersedes + 1
  /\ {retired, replacement} \subseteq Stored
  /\ retired # replacement
  /\ \E n \in 0..MaxSeq + 1 :
       /\ IsRetirementSeq(n, recordedSeq)
       /\ call' = [call EXCEPT ![c] =
                     [step |-> "retiring", retired |-> retired,
                      replacement |-> replacement, mark |-> n]]
  /\ UNCHANGED <<memoryVars, edges, evidenceVars, answered, now>>

(* The UPDATE; a trigger refuses a sequence before the record's own.       *)
Retire(c) ==
  /\ call[c].step = "retiring"
  /\ recordedSeq[call[c].retired] <= call[c].mark
  /\ supersededBy'  = [supersededBy EXCEPT ![call[c].retired] = call[c].replacement]
  /\ supersededSeq' = [supersededSeq EXCEPT ![call[c].retired] = call[c].mark]
  /\ call' = [call EXCEPT ![c] =
                [step |-> "edging", retired |-> call[c].retired,
                 replacement |-> call[c].replacement]]
  /\ UNCHANGED <<recordedSeq, recordedAt, edges, evidenceVars, worldVars>>

InsertSupersedesEdge(c) ==
  /\ call[c].step = "edging"
  /\ edges' = edges \cup {SupersedesEdge(call[c].retired, call[c].replacement)}
  /\ call' = [call EXCEPT ![c] = Idle]
  /\ UNCHANGED <<memoryVars, evidenceVars, worldVars>>

---------------------------------------------------------------------------
(* ingest, when it commits.  What fails in it is rolled back as a whole.   *)

RetiredIn(d) == {p[1] : p \in d.retires}
ReplacementIn(d, r) == (CHOOSE p \in d.retires : p[1] = r)[2]

Ingest(c, d, t) ==
  /\ call[c] = Idle
  /\ recordedSeq' \in Numberings(d.claims)
  /\ recordedAt' = RecordedWhen(d.claims, t)
  /\ observations' = observations \cup d.observations
  /\ linked' = linked \cup UNION {{r} \X Support[r] : r \in d.claims}
  /\ supersededBy' = [r \in Record |-> IF r \in RetiredIn(d) THEN ReplacementIn(d, r)
                                       ELSE supersededBy[r]]
  /\ \E n \in 0..MaxSeq + 1 :
       /\ IsRetirementSeq(n, recordedSeq')
       /\ supersededSeq' = [r \in Record |-> IF r \in RetiredIn(d) THEN n
                                             ELSE supersededSeq[r]]
  /\ edges' = edges \cup d.edges \cup {SupersedesEdge(p[1], p[2]) : p \in d.retires}
  /\ answered' = answered \cup d.claims
  /\ UNCHANGED <<call, now, supersedes>>

---------------------------------------------------------------------------
(* Mutant: the records are not looked up; the edge table has no foreign    *)
(* key.                                                                    *)
FlagContradictionUnchecked(c, a, b) ==
  /\ call[c] = Idle
  /\ a # b
  /\ edges' = edges \cup {<<a, b, "contradicts">>}
  /\ UNCHANGED <<memoryVars, evidenceVars, call, worldVars>>

(* The tool flag_contradiction.  Records are never deleted, so what it has *)
(* looked up is still there when it writes.                                *)
FlagContradiction(c, a, b) ==
  /\ call[c] = Idle
  /\ a # b
  /\ {a, b} \subseteq Stored
  /\ edges' = edges \cup {<<a, b, "contradicts">>}
  /\ UNCHANGED <<memoryVars, evidenceVars, call, worldVars>>

(* A process ends in the middle of a call.                                 *)
Die(c) ==
  /\ c \in Mortal
  /\ call[c] # Idle
  /\ call' = [call EXCEPT ![c] = Idle]
  /\ UNCHANGED <<memoryVars, edges, evidenceVars, worldVars>>

Tick ==
  /\ now < MaxTime
  /\ now' = now + 1
  /\ UNCHANGED <<memoryVars, edges, evidenceVars, call, answered, supersedes>>

---------------------------------------------------------------------------
Remembering(c) ==
  \/ \E r \in Record, t \in PassedInstants : PutMemory(c, r, t)
  \/ \E o \in Observation : LinkObservation(c, o)
  \/ PutMemoryFails(c)

Operating(c) ==
  \/ \E r, s \in Record : Supersede(c, r, s)
  \/ Retire(c)
  \/ InsertSupersedesEdge(c)
  \/ \E d \in Document, t \in PassedInstants \ {0} : Ingest(c, d, t)

Next ==
  \/ \E c \in Connection : Remembering(c) \/ Die(c)
  \/ \E c \in Operator : Operating(c)
  \/ \E c \in Agent : \E p \in Contradictory : FlagContradiction(c, p[1], p[2])
  \/ \E o \in Observation : PutObservation(o)
  \/ Tick

Spec == Init /\ [][Next]_vars

---------------------------------------------------------------------------
(* Queries.                                                                *)

(* Store::current_as_of, and belief_at.                                    *)
AsOf(s) ==
  {r \in Stored : /\ recordedSeq[r] <= s
                  /\ supersededSeq[r] = 0 \/ supersededSeq[r] > s}

(* Store::seq_at: the last sequence recorded at or before an instant.      *)
SeqAt(t) ==
  LET early == {recordedSeq[r] : r \in {x \in Stored : recordedAt[x] \in 1..t}}
  IN  {s \in early : \A other \in early : other <= s}

(* The tool as_of.                                                         *)
BelievedAt(t) == UNION {AsOf(s) : s \in SeqAt(t)}

(* Mutant: a claim as old as the retirement is late.                       *)
CitedStaleAtOnce(r) ==
  {x \in Stored : /\ \E e \in edges : e[1] = r /\ e[2] = x
                  /\ supersededSeq[x] # 0
                  /\ supersededSeq[x] <= recordedSeq[r]}

(* Store::cited_stale_evidence: what r has an edge to, of any kind, and    *)
(* was retired before r was written.                                       *)
CitedStale(r) ==
  {x \in Stored : /\ \E e \in edges : e[1] = r /\ e[2] = x
                  /\ supersededSeq[x] # 0
                  /\ supersededSeq[x] < recordedSeq[r]}

---------------------------------------------------------------------------
(* Properties.                                                             *)

TypeOK ==
  /\ recordedSeq \in [Record -> Seq0]
  /\ recordedAt \in [Record -> 0..MaxTime]
  /\ supersededBy \in [Record -> Record \cup {NoRecord}]
  /\ supersededSeq \in [Record -> Seq0]
  /\ edges \subseteq Edge
  /\ observations \subseteq Observation
  /\ linked \subseteq Record \X Observation
  /\ call \in [Connection -> Call]
  /\ answered \subseteq Record
  /\ now \in 1..MaxTime
  /\ supersedes \in 0..MaxSupersedes

\* A retirement is never dated before the store held both the retired claim
\* and its replacement, whatever was written between the statements of a
\* supersede and whatever gaps the sequence has: no past belief shows a claim
\* as retired in favour of one not yet written.
RetirementsInOrder ==
  \A r \in Record : supersededBy[r] # NoRecord =>
    /\ {r, supersededBy[r]} \subseteq Stored
    /\ recordedSeq[r] <= supersededSeq[r]
    /\ recordedSeq[supersededBy[r]] <= supersededSeq[r]

\* The two ways to ask what is believed now agree: belief as of the high
\* watermark, which compares sequences, and default retrieval, which looks at
\* superseded_at.
ViewsAgree ==
  \A s \in Seq0 : IsWatermark(s, recordedSeq) => AsOf(s) = Live

\* Every edge joins two stored claims, although the edge table has no foreign
\* key.
EdgesResolve == \A e \in edges : {e[1], e[2]} \subseteq Stored

\* A claim whose write was answered with success has all its support linked,
\* also when an earlier attempt failed or died after the claim itself was
\* stored.
AnsweredLinked == \A r \in answered : {r} \X Support[r] \subseteq linked

\* Every retired claim has the edge from its replacement, or will when the
\* process that retired it goes on, however many retire the same claim at
\* once.  A process that ends between the two statements leaves none.
RetiredHaveEdge ==
  \A r \in Record : supersededBy[r] # NoRecord /\ Mortal \cap Operator = {} =>
    \/ <<supersededBy[r], r, "supersedes">> \in edges
    \/ \E c \in Operator :
         call[c] = [step |-> "edging", retired |-> r, replacement |-> supersededBy[r]]

Past(s) == \E r \in Record : recordedSeq[r] > s

(* A supersede of r has read the watermark, and a claim was written since.  *)
RetiringLate(r) ==
  \E c \in Operator : call[c].step = "retiring" /\ call[c].retired = r /\ Past(call[c].mark)

\* Once a later claim is stored, belief as of a sequence changes in two ways
\* only: a claim already retired is retired again, or a claim was written
\* between the statements of the supersede that retires it.  No new claim,
\* repeated claim, gap or document does it.
HistoryKept ==
  [][\A s \in Seq0, r \in Record :
       Past(s) /\ (r \in AsOf(s)) # (r \in AsOf(s))'
         => supersededBy[r] # NoRecord \/ RetiringLate(r)]_vars

\* Whether a claim rests on evidence that was stale when it was made is
\* decided when the edge between them is written.  Retiring the evidence later,
\* or again, never makes an older claim late, but in the race of HistoryKept.
StalenessIsOld ==
  [][\A r, x \in Record :
       x \in CitedStale(r)' /\ x \notin CitedStale(r)
         => (\E e \in edges' \ edges : e[1] = r /\ e[2] = x) \/ RetiringLate(x)]_vars

\* Retiring something today does not make it retired yesterday: what as_of
\* answers for a past instant keeps every claim, as long as the instant
\* resolves to the same sequence.
RetiredTodayNotYesterday ==
  [][\A t \in Instant :
       t < now /\ SeqAt(t)' = SeqAt(t) => BelievedAt(t) \subseteq BelievedAt(t)']_vars

=============================================================================
