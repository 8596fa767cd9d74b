CONSTANTS
  Descriptions <- MCDescriptions
  ImportKeys <- MCImportKeys
  KeyFormats = {"PKCS8", "X509"}
  Registry = {1, 2, 3}
  MaxKeyOps = 2
  EcdsaBuilds = {"EcdsaKeyFactory", "EcdsaKey"}

SPECIFICATION Spec

INVARIANTS
  TypeOK
  KeyCharacterised
  KeyHandleSingleOwner
