--------------------------- MODULE PromptAssembly ---------------------------
(***************************************************************************)
(* Append-only prompt assembly: what a session has shown the model, what a *)
(* turn appends to it, when it is thrown away, and what that costs next to *)
(* a session that builds its context anew every turn.  Token counts are    *)
(* u32 and wrap, as in a release build; TokensAreFew keeps them from it,   *)
(* so what is checked is the boundary of the budget.                       *)
(*                                                                         *)
(* A record stands for its digest: an integer, as digests are ordered.     *)
(***************************************************************************)
EXTENDS Integers, SequencesExt

CONSTANTS
  Record,
  CostOf,       \* the tokens of each record
  Budget,       \* context_budget_tokens
  Width,        \* 2^32 in the code
  MaxRetrieved, \* bounds what one turn retrieves
  MaxTurns      \* bounds the turns of a session

(* Tokens are counted one by one: each has its record and its place there. *)
TokensIn(R) == UNION {{r} \X (1..CostOf[r]) : r \in R}

Sum(R) == Cardinality(TokensIn(R))

ASSUME DigestsSort    == Record \subseteq Int /\ IsFiniteSet(Record)
ASSUME CostsAreCosts  == CostOf \in [Record -> Nat]
ASSUME AssemblyBounds == {Budget, Width, MaxRetrieved, MaxTurns} \subseteq Nat

(* All records together have fewer tokens than a u32 counts.               *)
ASSUME TokensAreFew == Sum(Record) < Width

VARIABLES
  emitted, \* SessionPrefix, in the order shown
  held,    \* the tokens it is thought to occupy
  cost,    \* SessionCost of the append-only session
  rebuilt, \* that of the session that rebuilds every turn
  last     \* the records of the last turn, for the properties

vars == <<emitted, held, cost, rebuilt, last>>

Free == [prefill |-> 0, invalidations |-> 0, peak |-> 0, turns |-> 0]

Init ==
  /\ emitted = <<>>
  /\ held = 0
  /\ cost = Free
  /\ rebuilt = Free
  /\ last = {}

Tokens(R) == Sum(R) % Width

(* Where a record comes among others, sorted by digest.                    *)
Place(r, R) == Cardinality({s \in R : s <= r})

(* plan_append: of what was retrieved, in whatever order and however often,*)
(* what has not been shown, sorted.                                        *)
PlanAppend(shown, retrieved) ==
  LET new == ToSet(retrieved) \ ToSet(shown)
  IN  [i \in 1..Cardinality(new) |-> CHOOSE r \in new : Place(r, new) = i]

(* SessionPrefix::apply: what was shown stays where it was.                *)
Apply(shown, append) == shown \o append

(* Mutant: a turn is charged for the whole context.                        *)
ChargedWhole(c, prefill, size, invalidations) ==
  [prefill       |-> c.prefill + size,
   invalidations |-> c.invalidations + invalidations,
   peak          |-> IF size > c.peak THEN size ELSE c.peak,
   turns         |-> c.turns + 1]

(* A turn processes tokens and leaves a context of a size.                 *)
Charged(c, prefill, size, invalidations) ==
  [prefill       |-> c.prefill + prefill,
   invalidations |-> c.invalidations + invalidations,
   peak          |-> IF size > c.peak THEN size ELSE c.peak,
   turns         |-> c.turns + 1]

(* Mutants: what is to come is not counted; a full context is over it.     *)
OverHeld(incoming) == held > Budget

OverWhenFull(incoming) == (held + incoming) % Width >= Budget

(* The test for eviction.                                                  *)
Over(incoming) == (held + incoming) % Width > Budget

(* One turn of simulate_append_only that fits.                             *)
Extend(retrieved) ==
  LET append   == PlanAppend(emitted, retrieved)
      incoming == Tokens(ToSet(append))
  IN  /\ ~Over(incoming)
      /\ emitted' = Apply(emitted, append)
      /\ held' = (held + incoming) % Width
      /\ cost' = Charged(cost, incoming, held', 0)

(* One that does not: the prefix is gone, and the turn is all there is.    *)
Evict(retrieved) ==
  LET append   == PlanAppend(<<>>, retrieved)
      incoming == Tokens(ToSet(append))
  IN  /\ Over(Tokens(ToSet(PlanAppend(emitted, retrieved))))
      /\ emitted' = append
      /\ held' = incoming
      /\ cost' = Charged(cost, incoming, incoming, 1)

(* The same turn of simulate_rebuild_per_turn.                             *)
Rebuild(retrieved) ==
  rebuilt' = Charged(rebuilt, Tokens(ToSet(retrieved)), Tokens(ToSet(retrieved)), 1)

Turn(retrieved) ==
  /\ cost.turns < MaxTurns
  /\ Extend(retrieved) \/ Evict(retrieved)
  /\ Rebuild(retrieved)
  /\ last' = ToSet(retrieved)

Next == \E n \in 0..MaxRetrieved : \E retrieved \in [1..n -> Record] : Turn(retrieved)

Spec == Init /\ [][Next]_vars

---------------------------------------------------------------------------
(* Properties.                                                             *)

\* The running count is what the prefix really costs, no record is in it
\* twice, and it stays in the budget but for a turn that alone exceeds it,
\* which is then all the prefix holds.
HeldIsShown ==
  /\ IsInjective(emitted)
  /\ held = Sum(ToSet(emitted))
  /\ held <= Budget \/ ToSet(emitted) = last

\* What was shown stays as it was, in its order, as long as there is room for
\* it and for what the turn adds; otherwise it goes, and is counted.
PrefixKept ==
  [][IF Sum(ToSet(emitted) \cup last') > Budget
     THEN cost'.invalidations = cost.invalidations + 1
     ELSE IsPrefix(emitted, emitted') /\ cost'.invalidations = cost.invalidations]_vars

\* Appending never processes more tokens than rebuilding, over any session,
\* evictions and turns too large for the budget included; its context is never
\* the smaller one.
NeverDearer ==
  /\ cost.prefill <= rebuilt.prefill
  /\ cost.invalidations <= rebuilt.invalidations
  /\ cost.peak >= rebuilt.peak
=============================================================================
