SPECIFICATION Spec
CONSTANTS
  TagSize = 16
  HashSize = 32
  PackageSizes = {1}
  ReadSizes = {1}
  Subtypes = {"none"}
  MaxBytes = 37
  MaxPackage = 65535
  MaxTransfer = 65536
  CredentialSizes <- MCCredentialSizes
  WriteSizes = {1}
  MaxWrites = 1
PROPERTIES
  LoginCompletes
CHECK_DEADLOCK FALSE
