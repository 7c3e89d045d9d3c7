SPECIFICATION MCSpec
CONSTANTS
  VertexKey = VertexKey
  FacetKey = FacetKey
  VertexKeys <- OneVertex
  FacetKeys <- OneFacet
  SigmaUnits <- SingleUnit
  PointUnits = 1
  BlockLength = 2
  MaxUnits = 10
  Threads = {t1, t2}
  Callers = {t1, t2}
  FailingAllocations = {"outer"}
  Signatures <- PushedSignatures
  Engines <- EngineKinds
  NodeCount <- Cells
  Capacity <- Ranges
  LocalSigma <- LocalSignatures
  Offsets = {0, 2}
  MaxIndex = 7
  MaxRecords = 2
  MaxEngines = 2
  MaxOrphans = 2
  MaxAddress = 5
INVARIANTS
  AddressesAreFaithful
  HashIsExact
  RangeFits
  ReadsAreFaithful
PROPERTIES
  ImplementsSignatureStore
  UsesTheFairLock
  CallsEnd
