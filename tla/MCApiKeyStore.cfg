CONSTANTS
  ada = ada
  bob = bob
  acme = acme
  beta = beta
  Actors = {ada, bob}
  Orgs = {acme, beta}
  UserOrgs <- MCUserOrgs
  Keys <- MCKeys
  Workloads = {"lifecycle", "index"}
  Requests <- MCRequests
  Tasks = {t1, t2}
  MAX_CAS_RETRIES = 2
  MAX_VERSION = 4
  MaxOrphans = 1
  None = none
  Nobody = nobody
SYMMETRY Symmetric
SPECIFICATION Spec
INVARIANT TypeOK
INVARIANT VersionNamesSecret
INVARIANT RevocationHolds
INVARIANT DisclosedIsIndexed
INVARIANT ValidIsListed
INVARIANT ListingComplete
PROPERTY RecordEvolves
