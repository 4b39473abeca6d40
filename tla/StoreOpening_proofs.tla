------------------------ MODULE StoreOpening_proofs ------------------------
(***************************************************************************)
(* Theorems about StoreOpening, for every number of processes and builds,  *)
(* every bound on attempts and deaths.                                     *)
(***************************************************************************)
EXTENDS StoreOpening, TLAPS

InLock    == {"switching", "recheck", "run", "commit"}
Migrating == {"check", "begin", "recheck", "run", "commit"}

LockInOrder == \A p \in Process : lock = p <=> opener[p].step \in InLock

(* How far a process has come is true of the file.                         *)
ProgressIsReal ==
  \A p \in Process :
    /\ opener[p].step \in Migrating \cup {"table", "open"} => mode = "wal"
    /\ opener[p].step \in Migrating \cup {"open"} => table
    /\ opener[p].step \in Migrating =>
         opener[p].version > 0 /\ 1..opener[p].version - 1 \subseteq recorded
    /\ opener[p].step \in {"run", "commit"} => opener[p].version \notin recorded
    /\ opener[p].step = "open" => 1..Latest[p] \subseteq recorded

SteadyIsDone ==
  \A p \in steady : mode = "wal" /\ table /\ 1..Latest[p] \subseteq recorded

Inv ==
  /\ TypeOK
  /\ LockInOrder
  /\ ProgressIsReal
  /\ AppliedOnce
  /\ SteadyIsDone
  /\ SteadyTakesNoLock

\* A store nobody has opened yet satisfies the invariant.
LEMMA InitInv == Init => Inv
<1> SUFFICES ASSUME Init PROVE Inv
  OBVIOUS
<1> USE DEF Init, At
<1>1. TypeOK
  <2>1. At("closed") \in [step : Steps, version : Nat, tries : Nat]
    BY DEF Steps
  <2>2. opener \in [Process -> [step : Steps, version : Nat, tries : Nat]]
    BY <2>1
  <2>3. deaths \in 0..MaxDeaths
    BY OpeningBounds
  <2>4. QED
    BY <2>2, <2>3 DEF TypeOK
<1>2. LockInOrder /\ ProgressIsReal
  BY NoProcessIsNone DEF LockInOrder, ProgressIsReal, InLock, Migrating
<1>3. AppliedOnce /\ SteadyIsDone /\ SteadyTakesNoLock
  BY DEF AppliedOnce, SteadyIsDone, SteadyTakesNoLock
<1>4. QED
  BY <1>1, <1>2, <1>3 DEF Inv

\* The versions up to the next one, and those up to an earlier one.
LEMMA Versions ==
  ASSUME NEW v \in Nat, v > 0
  PROVE  /\ 1..v + 1 - 1 = (1..v - 1) \cup {v}
         /\ \A n \in Nat : v > n => 1..n \subseteq 1..v - 1
  OBVIOUS

USE DEF At, Trying, On, After, Moves, fileVars, Steps, InLock, Migrating, Ended

\* Moving one process keeps the type of all.
LEMMA MovesType ==
  ASSUME NEW S, opener \in [Process -> S], NEW p \in Process, NEW to \in S, Moves(p, to)
  PROVE  opener' \in [Process -> S]
  OBVIOUS

\* A process that starts claims nothing, and is steady only if all is done.
LEMMA StartInv ==
  ASSUME Inv, NEW p \in Process, Start(p)
  PROVE  Inv'
<1> USE DEF Inv, TypeOK, Start
<1>1. TypeOK'
  BY BuildsKnowAll, NoProcessIsNone
<1>2. LockInOrder'
  BY BuildsKnowAll, NoProcessIsNone DEF LockInOrder
<1>3. ProgressIsReal'
  BY BuildsKnowAll, NoProcessIsNone DEF ProgressIsReal
<1>4. AppliedOnce'
  BY BuildsKnowAll, NoProcessIsNone DEF AppliedOnce, ProgressIsReal
<1>5. SteadyIsDone'
  BY BuildsKnowAll, NoProcessIsNone DEF SteadyIsDone
<1>6. SteadyTakesNoLock'
  BY BuildsKnowAll, NoProcessIsNone DEF SteadyTakesNoLock, SteadyIsDone, ProgressIsReal, LockInOrder
<1>7. QED
  BY <1>1, <1>2, <1>3, <1>4, <1>5, <1>6

\* Who finds WAL goes on under what the invariant says of WAL.
LEMMA ReadModeInv ==
  ASSUME Inv, NEW p \in Process, ReadMode(p)
  PROVE  Inv'
  BY NoProcessIsNone
  DEF Inv, ReadMode, TypeOK, LockInOrder, ProgressIsReal, AppliedOnce, SteadyIsDone, SteadyTakesNoLock

\* The switch takes the lock or finds the work done.
LEMMA SwitchInv ==
  ASSUME Inv, NEW p \in Process, Switch(p)
  PROVE  Inv'
  BY NoProcessIsNone
  DEF Inv, Switch, TypeOK, LockInOrder, ProgressIsReal, AppliedOnce, SteadyIsDone, SteadyTakesNoLock

\* The switch makes true what its owner claims from then on.
LEMMA SwitchedInv ==
  ASSUME Inv, NEW p \in Process, Switched(p)
  PROVE  Inv'
  BY NoProcessIsNone
  DEF Inv, Switched, TypeOK, LockInOrder, ProgressIsReal, AppliedOnce, SteadyIsDone, SteadyTakesNoLock

\* A try that finds the lock taken claims nothing.
LEMMA SwitchBusyInv ==
  ASSUME Inv, NEW p \in Process, SwitchBusy(p)
  PROVE  Inv'
  BY NoProcessIsNone
  DEF Inv, SwitchBusy, TypeOK, LockInOrder, ProgressIsReal, AppliedOnce, SteadyIsDone, SteadyTakesNoLock

\* The table exists for whoever has passed its creation.
LEMMA CreateTableInv ==
  ASSUME Inv, NEW p \in Process, CreateTable(p)
  PROVE  Inv'
  BY NoProcessIsNone
  DEF Inv, CreateTable, TypeOK, LockInOrder, ProgressIsReal, AppliedOnce, SteadyIsDone, SteadyTakesNoLock

\* The check outside the lock believes only what can no longer change:
\* versions are recorded and never removed.
LEMMA CheckInv ==
  ASSUME Inv, NEW p \in Process, Check(p)
  PROVE  Inv'
<1> DEFINE v == opener[p].version
<1> USE DEF Inv, TypeOK, Check
<1>1. v \in Nat /\ v > 0 /\ Latest[p] \in Nat
  BY BuildsKnowAll DEF ProgressIsReal
<1>2. 1..v - 1 \subseteq recorded /\ mode = "wal" /\ table
  BY DEF ProgressIsReal
<1>3. CASE v > Latest[p]
  <2>1. 1..Latest[p] \subseteq recorded
    BY <1>1, <1>2, <1>3, Versions
  <2>2. QED
    BY <1>1, <1>2, <1>3, <2>1
    DEF LockInOrder, ProgressIsReal, AppliedOnce, SteadyIsDone, SteadyTakesNoLock
<1>4. CASE v <= Latest[p] /\ v \in recorded
  <2>1. 1..v + 1 - 1 \subseteq recorded
    BY <1>1, <1>2, <1>4, Versions
  <2>2. QED
    BY <1>1, <1>2, <1>4, <2>1
    DEF LockInOrder, ProgressIsReal, AppliedOnce, SteadyIsDone, SteadyTakesNoLock
<1>5. CASE v <= Latest[p] /\ v \notin recorded
  <2>1. p \notin steady
    BY <1>1, <1>5 DEF SteadyIsDone
  <2>2. QED
    BY <1>1, <1>2, <1>5, <2>1
    DEF LockInOrder, ProgressIsReal, AppliedOnce, SteadyIsDone, SteadyTakesNoLock
<1>6. QED
  BY <1>1, <1>3, <1>4, <1>5

\* The lock is free when it is taken.
LEMMA BeginInv ==
  ASSUME Inv, NEW p \in Process, Begin(p)
  PROVE  Inv'
  BY NoProcessIsNone
  DEF Inv, Begin, TypeOK, LockInOrder, ProgressIsReal, AppliedOnce, SteadyIsDone, SteadyTakesNoLock

\* Who gives up has not taken the lock.
LEMMA GiveUpInv ==
  ASSUME Inv, NEW p \in Process, GiveUp(p)
  PROVE  Inv'
  BY NoProcessIsNone
  DEF Inv, GiveUp, TypeOK, LockInOrder, ProgressIsReal, AppliedOnce, SteadyIsDone, SteadyTakesNoLock

\* In the lock the check is true until the commit.
LEMMA RecheckInv ==
  ASSUME Inv, NEW p \in Process, Recheck(p)
  PROVE  Inv'
  BY NoProcessIsNone
  DEF Inv, Recheck, TypeOK, LockInOrder, ProgressIsReal, AppliedOnce, SteadyIsDone, SteadyTakesNoLock

\* The SQL finds what it needs and nothing of its own, as nobody else has
\* committed since the check in the lock.
LEMMA RunInv ==
  ASSUME Inv, NEW p \in Process, Run(p)
  PROVE  Inv'
  BY NoProcessIsNone
  DEF Inv, Run, Runs, TypeOK, LockInOrder, ProgressIsReal, AppliedOnce, SteadyIsDone, SteadyTakesNoLock

\* The commit adds the next version to both, and to no other opener's run.
LEMMA CommitInv ==
  ASSUME Inv, NEW p \in Process, Commit(p)
  PROVE  Inv'
<1> DEFINE v == opener[p].version
<1> USE DEF Inv, TypeOK, Commit
<1>1. v \in Nat /\ v > 0 /\ 1..v - 1 \subseteq recorded
  BY DEF ProgressIsReal
<1>2. 1..v + 1 - 1 \subseteq recorded' /\ 1..v \subseteq recorded'
  BY <1>1, Versions
<1>3. TypeOK'
  <2>1. On("check", v + 1) \in [step : Steps, version : Nat, tries : Nat]
    BY <1>1
  <2>2. opener' \in [Process -> [step : Steps, version : Nat, tries : Nat]]
    BY <2>1, MovesType
  <2>3. recorded' \subseteq Nat \ {0} /\ schema' \subseteq Nat \ {0}
    <3>1. v \in Nat \ {0}
      BY <1>1
    <3>2. recorded' = recorded \cup {v} /\ schema' = schema \cup {v}
      OBVIOUS
    <3>3. QED
      BY <3>1, <3>2
  <2>4. UNCHANGED <<mode, table, steady, deaths>> /\ lock' = NoProcess
    OBVIOUS
  <2>5. QED
    BY <2>2, <2>3, <2>4
<1>4. LockInOrder'
  BY NoProcessIsNone DEF LockInOrder
\* Nobody else is between the check in the lock and the commit.
<1>5. \A q \in Process \ {p} : opener[q].step \notin InLock /\ opener'[q] = opener[q]
  BY DEF LockInOrder
<1>6. opener'[p] = On("check", v + 1)
  OBVIOUS
<1>7. ProgressIsReal'
  BY <1>1, <1>2, <1>5, <1>6 DEF ProgressIsReal
<1>8. AppliedOnce'
  BY <1>1, <1>2, <1>5, <1>6 DEF AppliedOnce
<1>9. SteadyIsDone' /\ SteadyTakesNoLock'
  BY NoProcessIsNone DEF SteadyIsDone, SteadyTakesNoLock
<1>10. QED
  BY <1>3, <1>4, <1>7, <1>8, <1>9

\* Closing the store takes nothing from the file.
LEMMA CloseInv ==
  ASSUME Inv, NEW p \in Process, Close(p)
  PROVE  Inv'
  BY NoProcessIsNone
  DEF Inv, Close, TypeOK, LockInOrder, ProgressIsReal, AppliedOnce, SteadyIsDone, SteadyTakesNoLock

\* A death frees the lock and undoes what was not committed.
LEMMA DieInv ==
  ASSUME Inv, NEW p \in Process, Die(p)
  PROVE  Inv'
  BY NoProcessIsNone, OpeningBounds
  DEF Inv, Die, TypeOK, LockInOrder, ProgressIsReal, AppliedOnce, SteadyIsDone, SteadyTakesNoLock

\* The inductive invariant: the lock and the steps that hold it match, and
\* how far an opener has come is true of the file.
THEOREM InvInvariant == Spec => []Inv
<1>1. Inv /\ [Next]_vars => Inv'
  <2>1. SUFFICES ASSUME Inv, [Next]_vars PROVE Inv'
    OBVIOUS
  <2>2. CASE UNCHANGED vars
    BY <2>1, <2>2
    DEF Inv, vars, TypeOK, LockInOrder, ProgressIsReal, AppliedOnce, SteadyIsDone, SteadyTakesNoLock
  <2>3. CASE Next
    BY <2>1, <2>3, StartInv, ReadModeInv, SwitchInv, SwitchedInv, SwitchBusyInv, CreateTableInv,
       CheckInv, BeginInv, GiveUpInv, RecheckInv, RunInv, CommitInv, CloseInv, DieInv
    DEF Next, Opening
  <2>4. QED
    BY <2>1, <2>2, <2>3
<1>2. QED
  BY InitInv, <1>1, PTL DEF Spec

\* The state of the file, the lock and the openers is well formed.
THEOREM TypeCorrect == Spec => []TypeOK
BY InvInvariant, PTL DEF Inv

\* Every migration runs once, in order and whole, whoever races or dies.
THEOREM MigrationsAppliedOnce == Spec => []AppliedOnce
BY InvInvariant, PTL DEF Inv

\* Who has the store open has every migration its build knows.
THEOREM OpenersAreMigrated == Spec => []OpenedIsMigrated
<1>1. Inv => OpenedIsMigrated
  BY DEF Inv, ProgressIsReal, AppliedOnce, OpenedIsMigrated
<1>2. QED
  BY <1>1, InvInvariant, PTL

\* An opener that finds everything done neither takes a lock nor fails.
THEOREM SteadyStateIsLockFree == Spec => []SteadyTakesNoLock
BY InvInvariant, PTL DEF Inv
=============================================================================
