-------------------------- MODULE EntityExtraction --------------------------
(***************************************************************************)
(* The dictionary extractor: which spans of a text name which declared     *)
(* entities.  A character is the code of one byte, so the texts and the    *)
(* names are ASCII; outside of it the code skips some spans and stops the  *)
(* program on others.  A seal is what it seals, so an entity and its       *)
(* identity are one value, and so are a dictionary and its extractor.      *)
(***************************************************************************)
EXTENDS Naturals, Sequences, FiniteSets

CONSTANTS
  Lower,      \* the lower case of every character
  WordChar,   \* the characters that are alphanumeric
  DigestRank  \* the order of the entities' identities

Char == DOMAIN Lower

ASSUME CharsAreCodes  == Char \subseteq Nat
ASSUME LowerIsOneByte == Lower \in [Char -> Char]
ASSUME WordCharsAreChars == WordChar \subseteq Char

Text == Seq(Char)

(* An entity: its canonical name and its aliases.                          *)
EntityTerms == [name : Text, aliases : SUBSET Text]

(* The entities there can be; identities tell them apart.                  *)
Entity == DOMAIN DigestRank

ASSUME EntitiesAreSealed ==
  /\ Entity \subseteq EntityTerms /\ IsFiniteSet(Entity)
  /\ DigestRank \in [Entity -> Nat]
  /\ \A e, f \in Entity : DigestRank[e] = DigestRank[f] => e = f

Lowered(t) == [i \in DOMAIN t |-> Lower[t[i]]]

(* The surface forms of a dictionary.                                      *)
Surfaces(dict) ==
  UNION {{[entity |-> e, text |-> Lowered(s)] : s \in {e.name} \cup e.aliases} : e \in dict}

(* A word starts or ends after at characters of the text.                  *)
IsBoundary(t, at) ==
  \/ at = 0
  \/ at >= Len(t)
  \/ t[at + 1] \notin WordChar
  \/ t[at] \notin WordChar

(* Where a surface form stands in a text as whole words.                   *)
Starts(surface, t) ==
  {i \in 0..Len(t) :
     /\ i + Len(surface) <= Len(t)
     /\ SubSeq(Lowered(t), i + 1, i + Len(surface)) = surface
     /\ IsBoundary(t, i)
     /\ IsBoundary(t, i + Len(surface))}

Occurrences(dict, t) ==
  UNION {{[entity |-> s.entity, start |-> i, end |-> i + Len(s.text)] : i \in Starts(s.text, t)} :
           s \in {x \in Surfaces(dict) : x.text # <<>>}}

Length(m) == m.end - m.start

Overlap(m, n) == m.start < n.end /\ m.end > n.start

LexLess(s, t) ==
  \E k \in DOMAIN s : s[k] < t[k] /\ \A j \in 1..k - 1 : s[j] = t[j]

(* The longest surface form is looked for first, then by its text, then by *)
(* the entity, each from left to right.                                    *)
ScannedBefore(t, m, n) ==
  LET form(x) == SubSeq(Lowered(t), x.start + 1, x.end)
  IN  \/ Length(m) > Length(n)
      \/ Length(m) = Length(n) /\ LexLess(form(m), form(n))
      \/ /\ form(m) = form(n)
         /\ \/ DigestRank[m.entity] < DigestRank[n.entity]
            \/ m.entity = n.entity /\ m.start < n.start

(* The place of each occurrence among all of them, in the order of         *)
(* scanning.                                                               *)
Turns(t, found) ==
  [m \in found |-> Cardinality({n \in found : n = m \/ ScannedBefore(t, n, m)})]

(* A span is reported unless one reported before overlaps it.              *)
Take(taken, next) == taken \cup {m \in next : \A k \in taken : ~Overlap(m, k)}

(* extract_mentions: what is reported after each turn, and at last.        *)
ExtractMentions(dict, t) ==
  LET found == Occurrences(dict, t)
      turn  == Turns(t, found)
      taken[k \in 0..Cardinality(found)] ==
        IF k = 0 THEN {} ELSE Take(taken[k - 1], {m \in found : turn[m] = k})
  IN  taken[Cardinality(found)]

---------------------------------------------------------------------------
(* What the extraction promises: its spans are occurrences, do not         *)
(* overlap, and every occurrence it leaves out loses to one that overlaps  *)
(* it and is as long.                                                      *)
IsLongestMatch(dict, t, found) ==
  /\ found \subseteq Occurrences(dict, t)
  /\ \A m, n \in found : m # n => ~Overlap(m, n)
  /\ \A m \in Occurrences(dict, t) : \E k \in found : Overlap(m, k) /\ Length(k) >= Length(m)
=============================================================================
