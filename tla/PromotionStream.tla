-------------------------- MODULE PromotionStream --------------------------
(***************************************************************************)
(* What one direction of the synchronisation promises, whatever the        *)
(* transport does: the rows a store promotes reach its peer in order, none *)
(* is skipped, an epoch is finished before the next one is begun, and a    *)
(* row is marked promoted only after the peer has committed it.  A peer    *)
(* that is enrolled again starts its epoch over.  Loss, repetition, delay  *)
(* and reordering of bundles must not show here.                           *)
(***************************************************************************)
EXTENDS SyncCursor

VARIABLES
  sent,       \* the rows promoted so far
  epoch,      \* the epoch the peer is in
  received,   \* the rows of that epoch the peer holds
  answered,   \* the rows the peer has ever committed
  confirmed   \* the rows marked promoted

vars == <<sent, epoch, received, answered, confirmed>>

RowsOf(e) == {row \in sent : row.cursor.epoch = e}

(* R is what a reader of the rows S has after reading some of them in      *)
(* order.                                                                  *)
Prefix(R, S) ==
  /\ R \subseteq S
  /\ \A row \in R, other \in S : Before(other.cursor, row.cursor) => other \in R

Init ==
  /\ sent = {}
  /\ epoch = 0
  /\ received = {}
  /\ answered = {}
  /\ confirmed = {}

(* The store promotes rows, after every row it promoted before.            *)
Send ==
  /\ sent \subseteq sent'
  /\ \A old \in sent, new \in sent' \ sent : Before(old.cursor, new.cursor)
  /\ UNCHANGED <<epoch, received, answered, confirmed>>

(* The peer commits the next rows of its epoch.                            *)
Deliver ==
  /\ received \subseteq received'
  /\ Prefix(received', RowsOf(epoch))
  /\ answered' = answered \cup received'
  /\ UNCHANGED <<sent, epoch, confirmed>>

(* The peer, done with its epoch, commits the first rows of the next one.  *)
DeliverNextEpoch ==
  /\ received = RowsOf(epoch)
  /\ epoch' = epoch + 1
  /\ Prefix(received', RowsOf(epoch'))
  /\ answered' = answered \cup received'
  /\ UNCHANGED <<sent, confirmed>>

(* The store learns of some rows the peer has committed.                   *)
Confirm ==
  /\ confirmed \subseteq confirmed'
  /\ confirmed' \subseteq answered
  /\ UNCHANGED <<sent, epoch, received, answered>>

(* The peer drops its replica and starts its epoch over.                   *)
Restart ==
  /\ received' = {}
  /\ UNCHANGED <<sent, epoch, answered, confirmed>>

Next == Send \/ Deliver \/ DeliverNextEpoch \/ Confirm \/ Restart

Spec == Init /\ [][Next]_vars
=============================================================================
