-------------------------- MODULE MCPersonalSync --------------------------
(* TLC instances of PersonalSync and of its refinement. *)
EXTENDS PersonalSyncStream, TLC

CONSTANTS gpd, mac, o1, o2

(* Only the GPD's callers capture.                                         *)
GpdCaptures == [d \in Device |-> IF d = gpd THEN Origin ELSE {}]

(* Both stores' callers do, and share an origin.                           *)
BothCapture == [d \in Device |-> IF d = gpd THEN Origin ELSE {o2}]

(* Nothing orders origins.  Used for safety only, where one store captures.*)
OriginSymmetry == Permutations(Origin)
===========================================================================
