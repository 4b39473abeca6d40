---------------------------- MODULE StoreOpening ----------------------------
(***************************************************************************)
(* Opening the evidence store: every session start switches the file to    *)
(* WAL and brings its schema up to date, several processes at once and of  *)
(* several builds, each of which may die at any point.                     *)
(*                                                                         *)
(* What SQLite does is taken from how the code relies on it: one process   *)
(* at a time holds the lock that a switch or a write needs, a transaction  *)
(* is seen by others when it commits, and its owner's death undoes it.     *)
(***************************************************************************)
EXTENDS Naturals

CONSTANTS
  Process,
  NoProcess,
  Latest,    \* the newest migration each process's build knows
  Attempts,  \* how often the switch to WAL is tried
  MaxDeaths  \* bounds the processes that die while opening

ASSUME NoProcessIsNone   == NoProcess \notin Process
ASSUME BuildsKnowAll     == Latest \in [Process -> Nat]
ASSUME OpeningBounds     == Attempts \in Nat \ {0} /\ MaxDeaths \in Nat

VARIABLES
  mode,     \* the journal mode, a property of the file
  table,    \* whether schema_migrations exists
  schema,   \* the migrations whose SQL has been committed
  recorded, \* the versions in schema_migrations
  lock,     \* who holds the lock
  opener,   \* how far each process is
  steady,   \* processes that began when there was nothing left to do
  deaths

fileVars == <<mode, table, schema, recorded>>
vars == <<fileVars, lock, opener, steady, deaths>>

At(step)        == [step |-> step, version |-> 0, tries |-> 0]
Trying(step, n) == [step |-> step, version |-> 0, tries |-> n]
On(step, v)     == [step |-> step, version |-> v, tries |-> 0]

Steps == {"closed", "mode", "switch", "switching", "table", "check", "begin", "recheck",
          "run", "commit", "open", "locked", "duplicate"}

Ended == {"closed", "open", "locked", "duplicate"}

Moves(p, to) == opener' = [opener EXCEPT ![p] = to]

Init ==
  /\ mode = "delete"
  /\ table = FALSE
  /\ schema = {}
  /\ recorded = {}
  /\ lock = NoProcess
  /\ opener = [p \in Process |-> At("closed")]
  /\ steady = {}
  /\ deaths = 0

---------------------------------------------------------------------------
(* A session starts, for the first time, or again after it failed.         *)
Start(p) ==
  /\ opener[p].step \in Ended \ {"open"}
  /\ Moves(p, At("mode"))
  /\ steady' = IF mode = "wal" /\ table /\ 1..Latest[p] \subseteq recorded
               THEN steady \cup {p} ELSE steady \ {p}
  /\ UNCHANGED <<fileVars, lock, deaths>>

(* enable_wal reads the mode: once it is WAL there is nothing to switch.   *)
ReadMode(p) ==
  /\ opener[p].step = "mode"
  /\ Moves(p, IF mode = "wal" THEN At("table") ELSE Trying("switch", opener[p].tries))
  /\ UNCHANGED <<fileVars, lock, steady, deaths>>

(* The pragma takes the lock, or finds the file switched since.            *)
Switch(p) ==
  /\ opener[p].step = "switch"
  /\ IF mode = "wal"
     THEN Moves(p, At("table")) /\ UNCHANGED lock
     ELSE lock = NoProcess /\ lock' = p /\ Moves(p, At("switching"))
  /\ UNCHANGED <<fileVars, steady, deaths>>

Switched(p) ==
  /\ opener[p].step = "switching"
  /\ mode' = "wal"
  /\ lock' = NoProcess
  /\ Moves(p, At("table"))
  /\ UNCHANGED <<table, schema, recorded, steady, deaths>>

(* It does not wait for the lock: it fails at once, and is tried again a   *)
(* number of times.                                                        *)
SwitchBusy(p) ==
  /\ opener[p].step = "switch"
  /\ mode # "wal"
  /\ lock # NoProcess
  /\ Moves(p, IF opener[p].tries + 1 < Attempts THEN Trying("mode", opener[p].tries + 1)
              ELSE At("locked"))
  /\ UNCHANGED <<fileVars, lock, steady, deaths>>

(* CREATE TABLE IF NOT EXISTS waits for the lock when there is something   *)
(* to create.                                                              *)
CreateTable(p) ==
  /\ opener[p].step = "table"
  /\ table \/ lock = NoProcess
  /\ table' = TRUE
  /\ Moves(p, On("check", 1))
  /\ UNCHANGED <<mode, schema, recorded, lock, steady, deaths>>

(* Mutant: a migration already there ends the loop.                        *)
AfterStops(v) == At("open")

(* What comes after migration v.                                           *)
After(v) == On("check", v + 1)

---------------------------------------------------------------------------
(* apply_all, one migration after the other.                               *)

(* Mutant: the lock is taken to find out.                                  *)
CheckInLock(p) ==
  /\ opener[p].step = "check"
  /\ LET v == opener[p].version
     IN  Moves(p, IF v > Latest[p] THEN At("open") ELSE On("begin", v))
  /\ UNCHANGED <<fileVars, lock, steady, deaths>>

(* The check outside the lock.                                             *)
Check(p) ==
  /\ opener[p].step = "check"
  /\ LET v == opener[p].version
     IN  Moves(p, IF v > Latest[p] THEN At("open")
                  ELSE IF v \in recorded THEN After(v) ELSE On("begin", v))
  /\ UNCHANGED <<fileVars, lock, steady, deaths>>

(* BEGIN IMMEDIATE waits for the lock.                                     *)
Begin(p) ==
  /\ opener[p].step = "begin"
  /\ lock = NoProcess
  /\ lock' = p
  /\ Moves(p, On("recheck", opener[p].version))
  /\ UNCHANGED <<fileVars, steady, deaths>>

(* The busy timeout ends the wait for it.                                  *)
GiveUp(p) ==
  /\ \/ opener[p].step = "begin"
     \/ opener[p].step = "table" /\ ~table
  /\ lock # NoProcess
  /\ Moves(p, At("locked"))
  /\ UNCHANGED <<fileVars, lock, steady, deaths>>

(* Mutant: the check before BEGIN is trusted.                              *)
RecheckTrusting(p) ==
  /\ opener[p].step = "recheck"
  /\ Moves(p, On("run", opener[p].version))
  /\ UNCHANGED <<fileVars, lock, steady, deaths>>

(* Mutant: it goes on in the transaction.                                  *)
RecheckKeepsLock(p) ==
  /\ opener[p].step = "recheck"
  /\ LET v == opener[p].version
     IN  Moves(p, IF v \in recorded THEN After(v) ELSE On("run", v))
  /\ UNCHANGED <<fileVars, lock, steady, deaths>>

(* The check again, in the lock; somebody else's migration is left alone.  *)
Recheck(p) ==
  /\ opener[p].step = "recheck"
  /\ LET v == opener[p].version
     IN  IF v \in recorded
         THEN Moves(p, After(v)) /\ lock' = NoProcess
         ELSE Moves(p, On("run", v)) /\ UNCHANGED lock
  /\ UNCHANGED <<fileVars, steady, deaths>>

(* The SQL fails on what exists and on what it needs and does not.         *)
Runs(v) == v \notin schema /\ 1..v - 1 \subseteq schema

(* Mutant: the statements commit by themselves.                            *)
RunAutocommit(p) ==
  /\ opener[p].step = "run"
  /\ LET v == opener[p].version
     IN  IF Runs(v)
         THEN schema' = schema \cup {v} /\ Moves(p, On("commit", v)) /\ UNCHANGED lock
         ELSE Moves(p, At("duplicate")) /\ lock' = NoProcess /\ UNCHANGED schema
  /\ UNCHANGED <<mode, table, recorded, steady, deaths>>

(* The SQL of the migration, in the transaction.                           *)
Run(p) ==
  /\ opener[p].step = "run"
  /\ LET v == opener[p].version
     IN  IF Runs(v)
         THEN Moves(p, On("commit", v)) /\ UNCHANGED lock
         ELSE Moves(p, At("duplicate")) /\ lock' = NoProcess
  /\ UNCHANGED <<fileVars, steady, deaths>>

(* Its row, and the commit of both.                                        *)
Commit(p) ==
  /\ opener[p].step = "commit"
  /\ LET v == opener[p].version
     IN  /\ schema' = schema \cup {v}
         /\ recorded' = recorded \cup {v}
         /\ Moves(p, After(v))
  /\ lock' = NoProcess
  /\ UNCHANGED <<mode, table, steady, deaths>>

---------------------------------------------------------------------------
(* The session ends.                                                       *)
Close(p) ==
  /\ opener[p].step = "open"
  /\ Moves(p, At("closed"))
  /\ UNCHANGED <<fileVars, lock, steady, deaths>>

(* The process dies while opening.                                         *)
Die(p) ==
  /\ deaths < MaxDeaths
  /\ opener[p].step \notin Ended
  /\ deaths' = deaths + 1
  /\ Moves(p, At("closed"))
  /\ lock' = IF lock = p THEN NoProcess ELSE lock
  /\ UNCHANGED <<fileVars, steady>>

Opening(p) ==
  \/ ReadMode(p)
  \/ Switch(p)
  \/ Switched(p)
  \/ SwitchBusy(p)
  \/ CreateTable(p)
  \/ Check(p)
  \/ Begin(p)
  \/ GiveUp(p)
  \/ Recheck(p)
  \/ Run(p)
  \/ Commit(p)

Next == \E p \in Process : Start(p) \/ Opening(p) \/ Close(p) \/ Die(p)

Spec == Init /\ [][Next]_vars

(* Sessions are started again and again, and a process goes on.            *)
FairSpec == Spec /\ \A p \in Process : WF_vars(Start(p)) /\ WF_vars(Opening(p))

---------------------------------------------------------------------------
(* Properties.                                                             *)

TypeOK ==
  /\ mode \in {"delete", "wal"}
  /\ table \in BOOLEAN
  /\ schema \subseteq Nat \ {0}
  /\ recorded \subseteq Nat \ {0}
  /\ lock \in Process \cup {NoProcess}
  /\ opener \in [Process -> [step : Steps, version : Nat, tries : Nat]]
  /\ steady \subseteq Process
  /\ deaths \in 0..MaxDeaths

\* Every migration is applied once and as a whole: what has run is what is
\* recorded, nothing is missing below it, and no opener ever runs the SQL of a
\* migration a second time or before its turn, whoever dies between the two
\* statements and whatever the check outside the lock saw.
AppliedOnce ==
  /\ recorded = schema
  /\ \A v \in schema : 1..v \subseteq schema
  /\ \A p \in Process : opener[p].step # "duplicate"

\* Who has the store open has it in WAL mode and with every migration its
\* build knows, whoever applied them and whatever newer builds added.
OpenedIsMigrated ==
  \A p \in Process : opener[p].step = "open" =>
    /\ mode = "wal"
    /\ table
    /\ 1..Latest[p] \subseteq schema

\* The steady state needs no lock: an opener that finds everything done when
\* it begins takes none, waits for none and cannot fail, whatever a newer
\* build does meanwhile.
SteadyTakesNoLock ==
  \A p \in steady :
    lock # p /\ opener[p].step \in {"closed", "mode", "table", "check", "open"}

\* Openers do not stop each other for good: however they contend, give up and
\* die, every process that keeps starting has the store open again and again.
EveryoneOpens == \A p \in Process : []<>(opener[p].step = "open")
=============================================================================
