SPECIFICATION Spec
CONSTANTS
  Ids <- MCIds
  Addresses <- MCAddresses
  BadAddress = "bad"
  Missing = "missing"
  None = "none"
  Documents <- MCDocuments
INVARIANT
  ZeroIdIsRejected
