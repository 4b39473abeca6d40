------------------------ MODULE MCEvidenceRetrieval ------------------------
(* TLC instances of EvidenceRetrieval.  Characters: 0 a space, 1 and 2     *)
(* letters, 3 the upper case of 1.                                         *)
EXTENDS EvidenceRetrieval

CONSTANTS a, b, c

MCLower    == [x \in 0..3 |-> IF x = 3 THEN 1 ELSE x]
MCWordChar == {1, 2, 3}

One   == [name |-> <<1>>, aliases |-> {}]
Two   == [name |-> <<3, 0, 2>>, aliases |-> {<<2, 2>>}]
MCDigestRank == [e \in {One, Two} |-> IF e = One THEN 1 ELSE 2]

MCClaim == [r \in Record |-> IF r = a THEN <<1, 0, 2, 0, 3>> ELSE IF r = b THEN <<3, 2>> ELSE <<1, 0, 2>>]
MCQuery == <<2, 2, 0, 1>>

MCSupport == [r \in Record |-> {}]
MCContradictory == {<<a, c>>}
MCAsked == {[retired |-> FALSE, semantic |-> TRUE], [retired |-> TRUE, semantic |-> FALSE]}
MCCited == {{c}, {a, c}}
MCAcked == {{}, {<<c, a>>}}
MCDocument ==
  {[claims |-> {a, b}, observations |-> {}, edges |-> {<<b, a, "derivedFrom">>},
    retires |-> {}, entities |-> {One, Two}]}

(* The extractor on every short text and every dictionary of the two.      *)
ASSUME ExtractionIsLongestMatch ==
  \A n \in 0..4 : \A t \in [1..n -> 0..3], dict \in SUBSET {One, Two} :
    IsLongestMatch(dict, t, ExtractMentions(dict, t))

(* Indexing over the rows any other dictionary left.                       *)
ASSUME IndexIsOfTheNewDictionary ==
  \A old, new \in SUBSET {One, Two} :
    LET rows == Indexed(Record, new, Indexed(Record, old, {}))
    IN  \A r \in Record : IsLongestMatch(new, Claim[r], Spans(rows, r, new))
=============================================================================
