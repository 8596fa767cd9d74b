CONSTANTS
  Algorithms = {"RSA", "EC"}
  Descriptions <- MCDescriptions
  AppIds = {"a1", "a2"}
  AppDatas = {"d1"}
  FactoryErrors = {"UNSUPPORTED_KEY_SIZE"}
  EnforcedTags <- MCEnforcedTags
  RootOfTrust <- root_of_trust
  GenerateOrigin = "SOFTWARE"
  ExportFormats = {"X509"}
  Formats = {"X509", "PKCS8"}
  Times = {"t1", "t2"}
  MaxKeys = 2

SPECIFICATION Spec

INVARIANTS
  NoncesUnique
