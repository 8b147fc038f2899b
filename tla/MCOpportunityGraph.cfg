CONSTANTS
  oA = oA
  oB = oB
  oC = oC
  Opportunities = {oA, oB, oC}
  Raws = {r1, r2, r3}
  Times = {1, 2}
  Contents <- MCContents
  Stage <- MCStage
  References <- MCReferences
  Identifiers <- MCIdentifiers
  Fingerprint <- MCFingerprint
  None = None
SPECIFICATION FairSpec
INVARIANTS
  CurrentIsLatest
  ProvenanceHolds
  LinksAreSound
PROPERTIES
  HistoryOnlyGrows
  GraphSettles
