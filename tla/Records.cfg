SPECIFICATION RecordsSpec
CONSTANTS
  p1 = p1
  m1 = m1
  v1 = v1
  k1 = k1
  Policies <- MCPolicies
  Requests <- MCRequests
  Grain = 6
  MaxDraws = 3
  Gateways = {g1}
  SampleKeys = {s1, s2}
  MaxCount = 3
  MaxFlushFaults = 2
  Refreshers = {g1}
  Probers = {w1, w2}
  QuotaProbers = {w1}
  Listers = {w2}
  Tabs = {t1}
  MaxTokens = 2
  Providers = {p1}
  Models = {m1}
  OwnerOf <- OneOwner
  Statements <- ListedOnly
  Overridable = {m1}
  Priced = {m1}
  VirtualModels = {v1}
  ApiKeys = {k1}
  Clients = {c1, c2}
  IdsOf <- OneId
  MaxAttempts = 1
  MaxIncidents = 1
  Readers = {w1}
  Offers <- MCOffers
  Aliases <- MCAliases
  Trusted <- MCTrusted
  HostPrefixes <- MCHostPrefixes
  Lists <- MCLists
  LocalContext = 3
  SlugContext = 10
  TTL = 1
  MaxReleases = 1
  MaxFetchFaults = 2
SYMMETRY ClientSymmetry
CHECK_DEADLOCK FALSE
INVARIANTS
  TypesOK
  StrategiesHold
  AcceptedFits
  SamplesKept
  CredentialsKept
  CatalogSound
  RecordsAreTrue
  CatalogsAreHeeded
PROPERTIES
  RoutesChangePublicly
