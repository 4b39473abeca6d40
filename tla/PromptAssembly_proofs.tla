------------------------ MODULE PromptAssembly_proofs ------------------------
(***************************************************************************)
(* What a session of PromptAssembly shows and costs, for any records, any  *)
(* costs, any budget and sessions of any length.                           *)
(***************************************************************************)
EXTENDS PromptAssembly, FiniteSetTheorems, SequenceTheorems, TLAPS

---------------------------------------------------------------------------
(* Sums of token counts.                                                   *)

\* Some records have finitely many tokens: cost_of is a u32.
LEMMA TokensAreFinite ==
  ASSUME NEW R \in SUBSET Record
  PROVE  IsFiniteSet(TokensIn(R))
<1> DEFINE of == [r \in R |-> {r} \X (1..CostOf[r])]
           parts == {{r} \X (1..CostOf[r]) : r \in R}
<1>1. IsFiniteSet(R)
  BY FS_Subset, DigestsSort
<1>2. of \in Surjection(R, parts)
  BY DEF Surjection
<1>3. IsFiniteSet(parts)
  BY <1>1, <1>2, FS_Surjection
<1>4. ASSUME NEW T \in parts
      PROVE  IsFiniteSet(T)
  <2>1. PICK r \in R : T = {r} \X (1..CostOf[r])
    OBVIOUS
  <2>2. CostOf[r] \in Nat
    BY CostsAreCosts
  <2>3. IsFiniteSet(1..CostOf[r])
    BY <2>2, FS_Interval
  <2>4. QED
    BY <2>1, <2>3, FS_Singleton, FS_Product
<1>5. QED
  BY <1>3, <1>4, FS_UNION DEF TokensIn

\* More records have no fewer tokens, and none too many for a u32.
LEMMA SumGrows ==
  ASSUME NEW R \in SUBSET Record, NEW S \in SUBSET R
  PROVE  /\ Sum(S) \in Nat
         /\ Sum(R) \in Nat
         /\ Sum(S) <= Sum(R)
         /\ Sum(R) < Width
<1>1. TokensIn(S) \subseteq TokensIn(R) /\ TokensIn(R) \subseteq TokensIn(Record)
  BY DEF TokensIn
<1>2. IsFiniteSet(TokensIn(R)) /\ IsFiniteSet(TokensIn(Record))
  BY TokensAreFinite
<1>3. Sum(S) <= Sum(R)
  BY <1>1, <1>2, FS_Subset DEF Sum
<1>4. Sum(R) <= Sum(Record)
  BY <1>1, <1>2, FS_Subset DEF Sum
<1>5. Sum(S) \in Nat /\ Sum(R) \in Nat /\ Sum(Record) \in Nat
  BY <1>1, <1>2, FS_Subset, FS_CardinalityType DEF Sum
<1>6. QED
  BY <1>3, <1>4, <1>5, TokensAreFew, AssemblyBounds

\* Records that are not the same have no token in common.
LEMMA SumAdds ==
  ASSUME NEW R \in SUBSET Record, NEW S \in SUBSET Record, R \cap S = {}
  PROVE  Sum(R \cup S) = Sum(R) + Sum(S)
<1>1. TokensIn(R \cup S) = TokensIn(R) \cup TokensIn(S)
  BY DEF TokensIn
<1>2. TokensIn(R) \cap TokensIn(S) = {}
  BY DEF TokensIn
<1>3. IsFiniteSet(TokensIn(R)) /\ IsFiniteSet(TokensIn(S))
  BY TokensAreFinite
<1>4. Cardinality(TokensIn(R) \cap TokensIn(S)) = 0
  BY <1>2, FS_EmptySet
<1>5. Cardinality(TokensIn(R)) \in Nat /\ Cardinality(TokensIn(S)) \in Nat
  BY <1>3, FS_CardinalityType
<1>6. Cardinality(TokensIn(R) \cup TokensIn(S))
        = Cardinality(TokensIn(R)) + Cardinality(TokensIn(S))
  <2> DEFINE T == TokensIn(R)
             U == TokensIn(S)
  <2>1. IsFiniteSet(T) /\ IsFiniteSet(U) /\ Cardinality(T \cap U) = 0
    BY <1>3, <1>4
  <2>2. Cardinality(T) \in Nat /\ Cardinality(U) \in Nat
    BY <1>5
  <2> HIDE DEF T, U
  <2>3. Cardinality(T \cup U) = Cardinality(T) + Cardinality(U) - Cardinality(T \cap U)
    BY <2>1, FS_Union
  <2>4. Cardinality(T \cup U) = Cardinality(T) + Cardinality(U)
    BY <2>1, <2>2, <2>3
  <2>5. QED
    BY <2>4 DEF T, U
<1>7. QED
  BY <1>1, <1>6 DEF Sum

\* An empty prompt has no tokens.
LEMMA SumOfNone == Sum({}) = 0
<1>1. TokensIn({}) = {}
  BY DEF TokensIn
<1>2. QED
  BY <1>1, FS_EmptySet DEF Sum

\* What a u32 can hold it holds.
LEMMA NoWrap ==
  ASSUME NEW n \in Nat, n < Width
  PROVE  n % Width = n
BY AssemblyBounds

\* The sum of a plan's costs is what the plan really costs.
LEMMA TokensCounted ==
  ASSUME NEW R \in SUBSET Record
  PROVE  Tokens(R) = Sum(R)
BY SumGrows, NoWrap DEF Tokens

---------------------------------------------------------------------------
(* plan_append.                                                            *)

\* Sorted, records have places from one on, each its own.
LEMMA PlacesDiffer ==
  ASSUME NEW R \in SUBSET Record
  PROVE  /\ IsFiniteSet(R)
         /\ Cardinality(R) \in Nat
         /\ \A r \in R : Place(r, R) \in 1..Cardinality(R)
         /\ \A r, s \in R : Place(r, R) = Place(s, R) => r = s
<1>1. IsFiniteSet(R) /\ R \subseteq Int
  BY FS_Subset, DigestsSort
<1>2. Cardinality(R) \in Nat
  BY <1>1, FS_CardinalityType
<1>3. ASSUME NEW r \in R
      PROVE  /\ IsFiniteSet({x \in R : x <= r})
             /\ Place(r, R) \in 1..Cardinality(R)
  <2> DEFINE upto == {x \in R : x <= r}
  <2>1. upto \subseteq R /\ upto # {}
    BY <1>1
  <2>2. IsFiniteSet(upto) /\ Cardinality(upto) <= Cardinality(R)
    BY <1>1, <2>1, FS_Subset
  <2>3. Cardinality(upto) \in Nat /\ Cardinality(upto) # 0
    BY <2>1, <2>2, FS_CardinalityType, FS_EmptySet
  <2>4. QED
    BY <1>2, <2>2, <2>3 DEF Place
<1>4. ASSUME NEW r \in R, NEW s \in R, r < s
      PROVE  Place(r, R) # Place(s, R)
  <2> DEFINE upto(t) == {x \in R : x <= t}
  <2>0. r \in Int /\ s \in Int /\ \A x \in R : x \in Int
    BY <1>1
  <2>1. /\ \A x \in R : x <= r => x <= s
        /\ s <= s
        /\ ~ (s <= r)
    BY <1>4, <2>0
  <2>2. upto(r) \subseteq upto(s) /\ s \in upto(s) /\ s \notin upto(r)
    BY <2>1
  <2>3. IsFiniteSet(upto(s))
    BY <1>3
  <2>4. Cardinality(upto(r)) = Cardinality(upto(s)) => upto(s) = upto(r)
    BY <2>2, <2>3, FS_Subset
  <2>5. QED
    BY <2>2, <2>4 DEF Place
<1>5. ASSUME NEW r \in R, NEW s \in R, Place(r, R) = Place(s, R)
      PROVE  r = s
  <2>1. r \in Int /\ s \in Int
    BY <1>1
  <2>2. ~ (r < s) /\ ~ (s < r)
    BY <1>4, <1>5
  <2>3. QED
    BY <2>1, <2>2
<1>6. QED
  BY <1>1, <1>2, <1>3, <1>5

\* No place is left empty.
LEMMA PlacesFilled ==
  ASSUME NEW R \in SUBSET Record, NEW i \in 1..Cardinality(R)
  PROVE  \E r \in R : Place(r, R) = i
<1> DEFINE n == Cardinality(R)
           place == [r \in R |-> Place(r, R)]
<1>1. IsFiniteSet(R) /\ n \in Nat
  BY PlacesDiffer
<1>2. place \in Injection(R, 1..n)
  BY PlacesDiffer DEF Injection, IsInjective
<1>3. IsFiniteSet(1..n) /\ Cardinality(1..n) = n
  BY <1>1, FS_Interval
<1>4. place \in Surjection(R, 1..n)
  BY <1>2, <1>3, FS_Injection
<1>5. QED
  BY <1>4 DEF Surjection

\* A plan appends what was retrieved and not shown, each record once.
LEMMA PlanIsNew ==
  ASSUME NEW shown, NEW n, NEW retrieved \in [1..n -> Record]
  PROVE  LET append == PlanAppend(shown, retrieved)
         IN  /\ append \in Seq(Record)
             /\ ToSet(append) = ToSet(retrieved) \ ToSet(shown)
             /\ IsInjective(append)
<1> DEFINE new == ToSet(retrieved) \ ToSet(shown)
           append == PlanAppend(shown, retrieved)
<1>1. new \in SUBSET Record
  BY DEF ToSet
<1>2. append = [i \in 1..Cardinality(new) |-> CHOOSE r \in new : Place(r, new) = i]
  BY DEF PlanAppend
<1> HIDE DEF new, append
<1>3. Cardinality(new) \in Nat
  BY <1>1, PlacesDiffer
<1>4. ASSUME NEW i \in 1..Cardinality(new)
      PROVE  append[i] \in new /\ Place(append[i], new) = i
  BY <1>1, <1>2, PlacesFilled
<1>5. append \in [1..Cardinality(new) -> new]
  BY <1>2, <1>4
<1>6. append \in Seq(Record)
  BY <1>1, <1>3, <1>5
<1>7. ASSUME NEW r \in new
      PROVE  \E i \in 1..Cardinality(new) : r = append[i]
  <2>1. Place(r, new) \in 1..Cardinality(new)
    BY <1>1, PlacesDiffer
  <2>2. append[Place(r, new)] = r
    BY <1>1, <1>4, <2>1, PlacesDiffer
  <2>3. QED
    BY <2>1, <2>2
<1>8. ToSet(append) = new
  BY <1>5, <1>7 DEF ToSet
<1>9. IsInjective(append)
  <2> SUFFICES ASSUME NEW i \in DOMAIN append, NEW j \in DOMAIN append, append[i] = append[j]
               PROVE  i = j
    BY DEF IsInjective
  <2>1. i \in 1..Cardinality(new) /\ j \in 1..Cardinality(new)
    BY <1>5
  <2>2. QED
    BY <1>4, <2>1
<1>10. QED
  BY <1>6, <1>8, <1>9 DEF new, append

---------------------------------------------------------------------------
(* A turn.                                                                 *)

Cost == [prefill : Nat, invalidations : Nat, peak : Nat, turns : Nat]

TypeOK ==
  /\ emitted \in Seq(Record)
  /\ held \in Nat
  /\ cost \in Cost
  /\ rebuilt \in Cost
  /\ last \in SUBSET Record

\* What is in a sequence is of what the sequence is over.
LEMMA SeqElements ==
  ASSUME NEW s \in Seq(Record)
  PROVE  ToSet(s) \in SUBSET Record
BY DEF ToSet

\* A longer prompt holds what it held and what came.
LEMMA AppendHolds ==
  ASSUME NEW s \in Seq(Record), NEW t \in Seq(Record)
  PROVE  /\ s \o t \in Seq(Record)
         /\ ToSet(s \o t) = ToSet(s) \cup ToSet(t)
         /\ IsPrefix(s, s \o t)
         /\ (IsInjective(s) /\ IsInjective(t) /\ ToSet(s) \cap ToSet(t) = {})
              => IsInjective(s \o t)
<1> DEFINE u == s \o t
<1>1. /\ u \in Seq(Record)
      /\ Len(u) = Len(s) + Len(t)
      /\ DOMAIN u = 1..(Len(s) + Len(t))
      /\ \A i \in 1..Len(s) : u[i] = s[i]
      /\ \A i \in (Len(s)+1)..(Len(s) + Len(t)) : u[i] = t[i - Len(s)]
  OBVIOUS
<1>2. /\ Len(s) \in Nat
      /\ Len(t) \in Nat
      /\ DOMAIN s = 1..Len(s)
      /\ DOMAIN t = 1..Len(t)
  OBVIOUS
<1> HIDE DEF u
<1>3. ToSet(u) \subseteq ToSet(s) \cup ToSet(t)
  <2> SUFFICES ASSUME NEW i \in 1..(Len(s) + Len(t))
               PROVE  u[i] \in ToSet(s) \cup ToSet(t)
    BY <1>1 DEF ToSet
  <2>1. CASE i <= Len(s)
    BY <1>1, <1>2, <2>1 DEF ToSet
  <2>2. CASE i > Len(s)
    <3>1. i - Len(s) \in 1..Len(t) /\ u[i] = t[i - Len(s)]
      BY <1>1, <1>2, <2>2
    <3>2. QED
      BY <1>2, <3>1 DEF ToSet
  <2>3. QED
    BY <1>2, <2>1, <2>2
<1>4. ToSet(s) \subseteq ToSet(u)
  BY <1>1, <1>2 DEF ToSet
<1>5. ToSet(t) \subseteq ToSet(u)
  <2> SUFFICES ASSUME NEW i \in 1..Len(t)
               PROVE  t[i] \in ToSet(u)
    BY <1>2 DEF ToSet
  <2> DEFINE k == Len(s) + i
  <2>1. k \in (Len(s)+1)..(Len(s) + Len(t)) /\ k \in DOMAIN u /\ k - Len(s) = i
    BY <1>1, <1>2
  <2> HIDE DEF k
  <2>2. u[k] = t[i]
    BY <1>1, <2>1
  <2>3. QED
    BY <2>1, <2>2 DEF ToSet
<1>6. IsPrefix(s, u)
  <2>1. SubSeq(s, 1, Len(s)) = s
    BY <1>2, SubSeqProperties, SeqEqual
  <2>2. SubSeq(u, 1, Len(s)) = s
    BY <1>1, <1>2, SubSeqProperties, SeqEqual
  <2>3. QED
    BY <1>1, <1>2, <2>1, <2>2 DEF IsPrefix
<1>7. ASSUME IsInjective(s), IsInjective(t), ToSet(s) \cap ToSet(t) = {}
      PROVE  IsInjective(u)
  <2>1. ASSUME NEW i \in DOMAIN u, NEW j \in DOMAIN u, i < j
        PROVE  u[i] # u[j]
    <3>1. i \in 1..(Len(s) + Len(t)) /\ j \in 1..(Len(s) + Len(t))
      BY <1>1
    <3>2. CASE j <= Len(s)
      <4>1. i \in DOMAIN s /\ j \in DOMAIN s /\ u[i] = s[i] /\ u[j] = s[j]
        BY <1>1, <1>2, <2>1, <3>1, <3>2
      <4>2. QED
        BY <1>7, <2>1, <3>1, <4>1 DEF IsInjective
    <3>3. CASE i > Len(s)
      <4>1. /\ i - Len(s) \in DOMAIN t
            /\ j - Len(s) \in DOMAIN t
            /\ u[i] = t[i - Len(s)]
            /\ u[j] = t[j - Len(s)]
        BY <1>1, <1>2, <2>1, <3>1, <3>3
      <4>2. i - Len(s) # j - Len(s)
        BY <1>2, <2>1, <3>1
      <4>3. QED
        BY <1>7, <4>1, <4>2 DEF IsInjective
    <3>4. CASE i <= Len(s) /\ j > Len(s)
      <4>1. /\ i \in DOMAIN s
            /\ j - Len(s) \in DOMAIN t
            /\ u[i] = s[i]
            /\ u[j] = t[j - Len(s)]
        BY <1>1, <1>2, <3>1, <3>4
      <4>2. u[i] \in ToSet(s) /\ u[j] \in ToSet(t)
        BY <4>1 DEF ToSet
      <4>3. QED
        BY <1>7, <4>2
    <3>5. QED
      BY <1>2, <3>1, <3>2, <3>3, <3>4
  <2>2. \A i, j \in DOMAIN u : i \in Int /\ j \in Int
    BY <1>1
  <2>3. QED
    BY <2>1, <2>2 DEF IsInjective
<1>8. QED
  BY <1>1, <1>3, <1>4, <1>5, <1>6, <1>7 DEF u

\* The records of a turn that fits join those shown; those of a turn that does
\* not take their place.
Joins(R) ==
  /\ Sum(ToSet(emitted) \cup R) <= Budget
  /\ IsPrefix(emitted, emitted')
  /\ ToSet(emitted') = ToSet(emitted) \cup R
  /\ held' = Sum(ToSet(emitted) \cup R)
  /\ cost' = Charged(cost, Sum(R \ ToSet(emitted)), Sum(ToSet(emitted) \cup R), 0)

Replaces(R) ==
  /\ Sum(ToSet(emitted) \cup R) > Budget
  /\ ToSet(emitted') = R
  /\ held' = Sum(R)
  /\ cost' = Charged(cost, Sum(R), Sum(R), 1)

\* What is held and what comes is what a prompt with both would hold, so the
\* test for eviction is of real tokens: no sum wraps.
LEMMA IncomingAddsUp ==
  ASSUME TypeOK, HeldIsShown, NEW R \in SUBSET Record
  PROVE  /\ Tokens(R \ ToSet(emitted)) = Sum(R \ ToSet(emitted))
         /\ held + Sum(R \ ToSet(emitted)) = Sum(ToSet(emitted) \cup R)
         /\ Over(Sum(R \ ToSet(emitted))) <=> Sum(ToSet(emitted) \cup R) > Budget
         /\ (held + Sum(R \ ToSet(emitted))) % Width = Sum(ToSet(emitted) \cup R)
<1> DEFINE E == ToSet(emitted)
           N == R \ E
<1>1. E \in SUBSET Record /\ N \in SUBSET Record /\ E \cup N = E \cup R /\ E \cap N = {}
  BY SeqElements DEF TypeOK
<1>2. held = Sum(E)
  BY DEF HeldIsShown
<1> HIDE DEF E, N
<1>3. Tokens(N) = Sum(N)
  BY <1>1, TokensCounted
<1>4. held + Sum(N) = Sum(E \cup R)
  BY <1>1, <1>2, SumAdds
<1>5. Sum(E \cup R) \in Nat /\ Sum(E \cup R) < Width
  BY <1>1, SumGrows
<1>6. Sum(E \cup R) % Width = Sum(E \cup R)
  BY <1>5, NoWrap
<1>7. QED
  BY <1>3, <1>4, <1>6 DEF Over, E, N

\* What a turn does: simulate_append_only beside simulate_rebuild_per_turn.
LEMMA TurnEffect ==
  ASSUME TypeOK, HeldIsShown,
         NEW n, NEW retrieved \in [1..n -> Record], Turn(retrieved)
  PROVE  /\ last' = ToSet(retrieved)
         /\ last' \in SUBSET Record
         /\ emitted' \in Seq(Record)
         /\ IsInjective(emitted')
         /\ Joins(last') \/ Replaces(last')
         /\ rebuilt' = Charged(rebuilt, Sum(last'), Sum(last'), 1)
<1> DEFINE R == ToSet(retrieved)
           E == ToSet(emitted)
<1>1. last' = R /\ R \in SUBSET Record
  BY DEF Turn, ToSet
<1>2. emitted \in Seq(Record) /\ E \in SUBSET Record /\ IsInjective(emitted)
  BY SeqElements DEF TypeOK, HeldIsShown
<1>3. rebuilt' = Charged(rebuilt, Sum(R), Sum(R), 1)
  BY <1>1, TokensCounted DEF Turn, Rebuild
<1>4. /\ PlanAppend(emitted, retrieved) \in Seq(Record)
      /\ ToSet(PlanAppend(emitted, retrieved)) = R \ E
      /\ IsInjective(PlanAppend(emitted, retrieved))
  BY PlanIsNew
<1>5. /\ Tokens(R \ E) = Sum(R \ E)
      /\ Over(Sum(R \ E)) <=> Sum(E \cup R) > Budget
      /\ (held + Sum(R \ E)) % Width = Sum(E \cup R)
  BY <1>1, IncomingAddsUp
<1>6. Sum(E \cup R) \in Nat /\ Budget \in Nat
  BY <1>1, <1>2, SumGrows, AssemblyBounds
<1>7. CASE Extend(retrieved)
  <2> DEFINE append == PlanAppend(emitted, retrieved)
  <2>1. /\ append \in Seq(Record)
        /\ ToSet(append) = R \ E
        /\ IsInjective(append)
    BY <1>4
  <2>2. /\ ~ Over(Tokens(ToSet(append)))
        /\ emitted' = emitted \o append
        /\ held' = (held + Tokens(ToSet(append))) % Width
        /\ cost' = Charged(cost, Tokens(ToSet(append)), held', 0)
    BY <1>7 DEF Extend, Apply
  <2> HIDE DEF append, R, E
  <2>3. /\ Sum(E \cup R) <= Budget
        /\ held' = Sum(E \cup R)
        /\ cost' = Charged(cost, Sum(R \ E), Sum(E \cup R), 0)
    BY <1>5, <1>6, <2>1, <2>2
  <2>4. /\ emitted' \in Seq(Record)
        /\ ToSet(emitted') = ToSet(emitted) \cup ToSet(append)
        /\ IsPrefix(emitted, emitted')
        /\ ToSet(emitted) \cap ToSet(append) = {} => IsInjective(emitted')
    BY <1>2, <2>1, <2>2, AppendHolds
  <2>5. ToSet(emitted) \cap ToSet(append) = {} /\ ToSet(emitted') = E \cup R
    BY <2>1, <2>4 DEF E
  <2>6. Joins(R)
    BY <2>3, <2>4, <2>5 DEF Joins, E
  <2>7. QED
    BY <1>1, <1>3, <2>4, <2>5, <2>6 DEF R
<1>8. CASE Evict(retrieved)
  <2> DEFINE append == PlanAppend(<<>>, retrieved)
  <2>1. /\ append \in Seq(Record)
        /\ ToSet(append) = R \ ToSet(<<>>)
        /\ IsInjective(append)
    BY PlanIsNew
  <2> HIDE DEF append, R
  <2>0. ToSet(<<>>) = {}
    BY DEF ToSet
  <2>2. ToSet(append) = R
    BY <2>0, <2>1
  <2>3. /\ Over(Tokens(ToSet(PlanAppend(emitted, retrieved))))
        /\ emitted' = append
        /\ held' = Tokens(ToSet(append))
        /\ cost' = Charged(cost, Tokens(ToSet(append)), Tokens(ToSet(append)), 1)
    BY <1>8 DEF Evict, append
  <2> HIDE DEF E
  <2>4. Tokens(R) = Sum(R)
    BY <1>1, TokensCounted
  <2>5. Sum(E \cup R) > Budget
    BY <1>4, <1>5, <2>3
  <2>6. Replaces(R)
    BY <2>2, <2>3, <2>4, <2>5 DEF Replaces, E
  <2>7. QED
    BY <1>1, <1>3, <2>1, <2>3, <2>6 DEF R
<1>9. QED
  BY <1>7, <1>8 DEF Turn

---------------------------------------------------------------------------
(* Theorems.                                                               *)

\* What is charged for is counted.
LEMMA ChargedIsCost ==
  ASSUME NEW c \in Cost, NEW prefill \in Nat, NEW size \in Nat, NEW i \in Nat
  PROVE  Charged(c, prefill, size, i) \in Cost
BY DEF Cost, Charged

\* The inductive invariant: what both sessions were charged for is comparable
\* only because the count of held tokens is right.
Accounted == TypeOK /\ HeldIsShown /\ NeverDearer

\* A new session has shown nothing and cost nothing.
LEMMA SessionStarts == Init => Accounted
<1> SUFFICES ASSUME Init
             PROVE  Accounted
  OBVIOUS
<1>1. TypeOK
  BY DEF Init, TypeOK, Cost, Free
<1>2. ToSet(<<>>) = {} /\ IsInjective(<<>>)
  BY DEF ToSet, IsInjective
<1>3. HeldIsShown
  BY <1>2, SumOfNone, AssemblyBounds DEF Init, HeldIsShown
<1>4. NeverDearer
  BY DEF Init, NeverDearer, Free
<1>5. QED
  BY <1>1, <1>3, <1>4 DEF Accounted

\* A turn keeps the accounts.
LEMMA TurnsAccounted == Accounted /\ [Next]_vars => Accounted'
<1> SUFFICES ASSUME Accounted, [Next]_vars
             PROVE  Accounted'
  OBVIOUS
<1>1. CASE UNCHANGED vars
  BY <1>1 DEF Accounted, TypeOK, HeldIsShown, NeverDearer, vars
<1>2. CASE Next
  <2>1. PICK n \in 0..MaxRetrieved : \E retrieved \in [1..n -> Record] : Turn(retrieved)
    BY <1>2 DEF Next
  <2>2. PICK retrieved \in [1..n -> Record] : Turn(retrieved)
    BY <2>1
  <2>3. /\ last' \in SUBSET Record
        /\ emitted' \in Seq(Record)
        /\ IsInjective(emitted')
        /\ Joins(last') \/ Replaces(last')
        /\ rebuilt' = Charged(rebuilt, Sum(last'), Sum(last'), 1)
    BY <2>2, TurnEffect DEF Accounted
  <2> DEFINE R == last'
             E == ToSet(emitted)
  <2>4. E \in SUBSET Record
    BY SeqElements DEF Accounted, TypeOK
  <2>5. /\ Sum(R) \in Nat
        /\ Sum(R \ E) \in Nat
        /\ Sum(E \cup R) \in Nat
        /\ Sum(R \ E) <= Sum(R)
        /\ Sum(R) <= Sum(E \cup R)
    BY <2>3, <2>4, SumGrows
  <2>6. cost \in Cost /\ rebuilt \in Cost
    BY DEF Accounted, TypeOK
  <2>7. TypeOK'
    <3>1. held' \in Nat
      BY <2>3, <2>5 DEF Joins, Replaces
    <3>2. cost' \in Cost /\ rebuilt' \in Cost
      BY <2>3, <2>5, <2>6, ChargedIsCost DEF Joins, Replaces
    <3>3. QED
      BY <2>3, <3>1, <3>2 DEF TypeOK
  <2>8. HeldIsShown'
    BY <2>3 DEF HeldIsShown, Joins, Replaces
  <2>9. NeverDearer'
    <3>1. /\ cost.prefill <= rebuilt.prefill
          /\ cost.invalidations <= rebuilt.invalidations
          /\ cost.peak >= rebuilt.peak
      BY DEF Accounted, NeverDearer
    <3>2. PICK p \in Nat, size \in Nat, i \in {0, 1} :
             /\ cost' = Charged(cost, p, size, i)
             /\ p <= Sum(R)
             /\ size >= Sum(R)
      BY <2>3, <2>5 DEF Joins, Replaces
    <3> HIDE DEF R, E
    <3>3. rebuilt' = Charged(rebuilt, Sum(R), Sum(R), 1)
      BY <2>3 DEF R
    <3>4. /\ {cost.prefill, cost.invalidations, cost.peak} \subseteq Nat
          /\ {rebuilt.prefill, rebuilt.invalidations, rebuilt.peak} \subseteq Nat
      BY <2>6 DEF Cost
    <3>5. /\ cost'.prefill = cost.prefill + p
          /\ cost'.invalidations = cost.invalidations + i
          /\ cost'.peak = IF size > cost.peak THEN size ELSE cost.peak
      BY <3>2 DEF Charged
    <3>6. /\ rebuilt'.prefill = rebuilt.prefill + Sum(R)
          /\ rebuilt'.invalidations = rebuilt.invalidations + 1
          /\ rebuilt'.peak = IF Sum(R) > rebuilt.peak THEN Sum(R) ELSE rebuilt.peak
      BY <3>3 DEF Charged
    <3>7. Sum(R) \in Nat
      BY <2>5
    <3>8. cost'.prefill <= rebuilt'.prefill
      BY <3>1, <3>2, <3>4, <3>5, <3>6, <3>7
    <3>9. cost'.invalidations <= rebuilt'.invalidations
      BY <3>1, <3>2, <3>4, <3>5, <3>6
    <3>10. cost'.peak >= rebuilt'.peak
      <4>1. CASE Sum(R) > rebuilt.peak
        <5>1. rebuilt'.peak = Sum(R)
          BY <3>6, <4>1
        <5>2. cost'.peak >= size
          BY <3>2, <3>4, <3>5
        <5>3. cost'.peak \in Nat
          BY <3>2, <3>4, <3>5
        <5>4. QED
          BY <3>2, <3>7, <5>1, <5>2, <5>3
      <4>2. CASE ~(Sum(R) > rebuilt.peak)
        <5>1. rebuilt'.peak = rebuilt.peak
          BY <3>6, <4>2
        <5>2. cost'.peak >= cost.peak
          BY <3>2, <3>4, <3>5
        <5>3. cost'.peak \in Nat
          BY <3>2, <3>4, <3>5
        <5>4. QED
          BY <3>1, <3>4, <5>1, <5>2, <5>3
      <4>3. QED
        BY <4>1, <4>2
    <3>11. QED
      BY <3>8, <3>9, <3>10 DEF NeverDearer
  <2>10. QED
    BY <2>7, <2>8, <2>9 DEF Accounted
<1>3. QED
  BY <1>1, <1>2

\* The accounts of a session are always right.
THEOREM SessionsAccounted == Spec => []Accounted
BY SessionStarts, TurnsAccounted, PTL DEF Spec

\* The running count of simulate_append_only is what the prompt holds, no record
\* is in it twice, and only a turn too large by itself exceeds the budget.
THEOREM HeldIsWhatIsShown == Spec => []HeldIsShown
BY SessionsAccounted, PTL DEF Accounted

\* Over any session, simulate_append_only processes no more tokens than
\* simulate_rebuild_per_turn and never has the smaller context.
THEOREM AppendingIsNeverDearer == Spec => []NeverDearer
BY SessionsAccounted, PTL DEF Accounted

\* plan_append and the test for eviction: what was shown stays, in its order,
\* unless there is no room, and then its loss is counted once.
THEOREM PrefixIsKept == Spec => PrefixKept
<1> DEFINE Kept == IF Sum(ToSet(emitted) \cup last') > Budget
                   THEN cost'.invalidations = cost.invalidations + 1
                   ELSE IsPrefix(emitted, emitted') /\ cost'.invalidations = cost.invalidations
<1>1. Accounted /\ [Next]_vars => [Kept]_vars
  <2> SUFFICES ASSUME Accounted, Next
               PROVE  Kept
    BY DEF Accounted
  <2>1. PICK n \in 0..MaxRetrieved : \E retrieved \in [1..n -> Record] : Turn(retrieved)
    BY DEF Next
  <2>2. PICK retrieved \in [1..n -> Record] : Turn(retrieved)
    BY <2>1
  <2>3. /\ last' \in SUBSET Record
        /\ Joins(last') \/ Replaces(last')
    BY <2>2, TurnEffect DEF Accounted
  <2>4. ToSet(emitted) \in SUBSET Record
    BY SeqElements DEF Accounted, TypeOK
  <2>5. Sum(ToSet(emitted) \cup last') \in Nat /\ Budget \in Nat
    BY <2>3, <2>4, SumGrows, AssemblyBounds
  <2>6. cost \in Cost
    BY DEF Accounted, TypeOK
  <2>7. QED
    BY <2>3, <2>5, <2>6 DEF Joins, Replaces, Charged, Cost
<1>2. QED
  BY <1>1, SessionsAccounted, PTL DEF Spec, PrefixKept
=============================================================================
