CONSTANTS
  ada = ada
  bob = bob
  acme = acme
  beta = beta
  Actors = {ada, bob}
  Orgs = {acme, beta}
  UserOrgs <- MCUserOrgs
  Keys <- MCKeys
  Workloads = {"lifecycle"}
  Requests <- MCRequests
  Tasks = {t1, t2}
  MAX_CAS_RETRIES = 2
  MAX_VERSION = 4
  MaxOrphans = 0
  None = none
  Nobody = nobody
SYMMETRY Symmetric
SPECIFICATION Spec
INVARIANT ReplacedSecretStaysReplaced
