----------------------------- MODULE SyncCursor -----------------------------
(***************************************************************************)
(* A position in a promotion stream: (epoch, sequence), ordered            *)
(* lexicographically, as the derived Ord of sync.rs's SyncCursor orders it *)
(* and as the SQL of the store compares it.                                *)
(***************************************************************************)
EXTENDS Integers

Cursor == [epoch : Nat, sequence : Nat]

Start == [epoch |-> 0, sequence |-> 0]

Before(a, b) == \/ a.epoch < b.epoch
                \/ a.epoch = b.epoch /\ a.sequence < b.sequence

AtMost(a, b) == Before(a, b) \/ a = b
=============================================================================
