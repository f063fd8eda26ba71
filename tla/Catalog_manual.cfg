SPECIFICATION CatalogSpec
CONSTANTS
  p1 = p1
  m1 = m1
  v1 = v1
  k1 = k1
  Providers = {p1}
  Models = {m1}
  OwnerOf <- OneOwner
  Statements <- ListedOnly
  Overridable = {m1}
  Priced = {m1}
  VirtualModels = {v1}
  ApiKeys = {k1}
CHECK_DEADLOCK FALSE
INVARIANTS
  ManualTakesPrecedence
