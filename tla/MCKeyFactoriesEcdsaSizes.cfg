CONSTANTS
  Descriptions <- MCEcdsaDescriptions
  ImportKeys <- MCImportKeys
  KeyFormats = {"PKCS8"}
  Registry = {1, 2, 3}
  MaxKeyOps = 2
  EcdsaBuilds = {"EcdsaKeyFactory"}

SPECIFICATION Spec

INVARIANTS
  EcdsaNamedCurveSizes
