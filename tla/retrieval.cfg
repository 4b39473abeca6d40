SPECIFICATION RetrievalSpec
CONSTANTS
  a = a
  b = b
  c = c
  Agent = {agent}
  Operator = {admin}
  Mortal = {}
  Record = {a, b, c}
  NoRecord = none
  Observation = {}
  Support <- MCSupport
  Document <- MCDocument
  Contradictory <- MCContradictory
  MaxSeq = 3
  MaxTime = 1
  MaxSupersedes = 1
  Backdating = FALSE
  Lower <- MCLower
  WordChar <- MCWordChar
  DigestRank <- MCDigestRank
  Claim <- MCClaim
  Query <- MCQuery
  Matching = {a, c}
  Embeddable = {b}
  Fetch = 2
  Limit = 2
  MaxHops = 2
  Asked <- MCAsked
  Cited <- MCCited
  Acked <- MCAcked
INVARIANTS NoRetiredHits WithheldAreRetired AccountedFor DistancesShortest AnswersAccountFor RefusalsAreNews
PROPERTIES IngestIndexesAll
