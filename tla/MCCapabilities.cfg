SPECIFICATION FairSpec
CONSTANTS
  a = "a"
  b = "b"
  Hosts = {"h1", "h2"}
  Writers = {"h1", "h2"}
  Versions <- MCVersions
  Adopted <- MCAdopted
  Bundles <- MCBundles
  MaxAttempts = 2
  MaxJobs = 2
  MaxFaults = 1
INVARIANTS CapabilitiesInv RollbacksAreMeant SessionsOnAdopted LedgerKeepsRecords
PROPERTIES JobsEnd
CHECK_DEADLOCK FALSE
