SPECIFICATION OAuthSpec
CONSTANTS
  Refreshers = {g1}
  Probers = {w1}
  QuotaProbers = {}
  Listers = {}
  Tabs = {t1}
  MaxTokens = 3
CHECK_DEADLOCK FALSE
PROPERTIES
  KeepsResourceUrl
