SPECIFICATION Spec
CONSTANTS
  TagSize = 1
  HashSize = 6
  PackageSizes = {1, 3}
  ReadSizes = {0, 1, 2, 4}
  Subtypes = {"credentials"}
  MaxBytes = 18
  MaxPackage = 6
  MaxTransfer = 7
  CredentialSizes <- MCCredentialSizes
  WriteSizes = {2, 8}
  MaxWrites = 2
INVARIANTS
  NothingLost
  WritesArrive
PROPERTIES
  ReadCompletes
CHECK_DEADLOCK FALSE
