CONSTANTS
  TableSize = 2
  Handles = {1, 2, 3}
  MaxOps = 3
  FreshHandles = TRUE
  CryptoErrors = {"VERIFICATION_FAILED"}
  Algorithms = {"HMAC", "AES", "RSA"}
  KeyFactories = {"HMAC", "AES"}
  Queries = {"algorithms", "version", "import_formats", "digests"}
  Purposes = {"SIGN", "ENCRYPT"}
  OperationFactories <- MCOperationFactories
SPECIFICATION Spec
INVARIANTS
  TypeOK
  OperationsFreedOnce
PROPERTIES
  FailedBeginLeavesTable
  Refinement
