CONSTANTS
  Clients = {c1, c2}
  NoClient = NoClient
  Traces <- MCTraces
  EventIds <- MCEventIds
  Revisions <- MCRevisions
  Hashes <- MCHashes
  Genesis <- MCGenesis
  Digest <- MCDigest
  Events <- MCEvents
  MaxDamage = 1
SPECIFICATION FairSpec
INVARIANTS
  StreamsAreChains
  AcknowledgedDurable
PROPERTIES
  AppendOnly
  ReadsAreCurrent
  DuplicateMeansStored
  LockReleased
