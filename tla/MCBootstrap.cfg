CONSTANTS
  Checker = {c1}
  Server = {s1}
  Environments <- MCEnvironments
  InitialFiles <- MCInitialFiles
  FileStates <- MCFileStates
  InitialIdp <- MCInitialIdp
  IdpStates <- MCIdpStates
  Paths <- MCPaths
  MaxEdits = 1
SPECIFICATION Spec
INVARIANTS
  TypeOK
  SignerAsSelected
  MintedVerifiable
  TrustedFilesProtected
  CheckPredictsServe
  DiscoveryCloses
PROPERTY StartSettles
