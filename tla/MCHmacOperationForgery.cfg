CONSTANTS
  Clients = {c1, c2}
  KeyDigests = {"SHA1", "MD5", "absent"}
  MacLengths = {12, 128, 256}
  Chunks = {"x", "y"}
  SigLengths = {0, 16, 21}
  MaxChunks = 1
  MaxSigns = 2

SYMMETRY ClientSymmetry

SPECIFICATION Spec

INVARIANTS
  VerifyNeedsIssuedMac
