--------------------------- MODULE MCStoreOpening ---------------------------
(* TLC instances of StoreOpening: two builds of today and an older one.    *)
EXTENDS StoreOpening

CONSTANTS p, q, old

MCLatest == [x \in Process |-> IF x = old THEN 1 ELSE 3]
=============================================================================
