CONSTANTS
  TableSize = 1
  Handles = {1}
  MaxOps = 1
  FreshHandles = TRUE
  CryptoErrors = {"VERIFICATION_FAILED"}
  Algorithms = {"HMAC", "AES"}
  KeyFactories = {"HMAC"}
  Queries = {"algorithms", "version"}
  Purposes = {"SIGN", "ENCRYPT"}
  OperationFactories <- MCOperationFactories
SPECIFICATION Spec
INVARIANT
  VersionNegotiates
