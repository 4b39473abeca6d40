-------------------------- MODULE MCEvidenceStore --------------------------
(* TLC instances of EvidenceStore.                                         *)
EXTENDS EvidenceStore, TLC

CONSTANTS a, b, x, o

(* The last claim rests on a measurement.                                  *)
MCSupport == [r \in Record |-> IF r = x THEN {o} ELSE {}]

MCContradictory == {<<a, x>>}

(* One document replaces a claim of its own, one derives a measured claim. *)
MCDocument ==
  {[claims |-> {a, b}, observations |-> {}, edges |-> {}, retires |-> {<<a, b>>}],
   [claims |-> {a, x}, observations |-> {o}, edges |-> {<<x, a, "derivedFrom">>},
    retires |-> {}]}
OperatorSymmetry == Permutations(Operator)
=============================================================================
