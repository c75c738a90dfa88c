CONSTANTS
  Clients = {c1, c2}
  NoClient = NoClient
  Traces <- MCTraces
  EventIds <- MCEventIds
  Revisions <- MCRevisions
  Hashes <- MCHashes
  Genesis <- MCGenesis
  Digest <- MCDigest
  Events <- MCEvents
  MaxDamage = 0
SPECIFICATION FairSpec
PROPERTY ReadsRefuseOnlyDamage
