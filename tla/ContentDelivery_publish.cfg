SPECIFICATION DeliverySpec
CONSTANTS
  Docs = {"d"}
  MaxVersions = 1
  MaxFetches = 1
INVARIANT ReadsRefreshOnPublish
CHECK_DEADLOCK FALSE
