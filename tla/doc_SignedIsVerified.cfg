SPECIFICATION Spec
CONSTANTS
  Words <- MCWords
  Names <- MCNames
  Files <- MCFiles
  Users = {"www-data"}
  ConfigKeys = {"port", "Port", "PORT", "tags", "TAGS"}
  Upper <- MCUpper
  Values = {"on", "2^53", "2^53+1", "list"}
  Scalars = {"on", "2^53", "2^53+1"}
  Decoded <- MCDecoded
  Configs <- MCConfigs
  Environs <- MCEnvirons
  MaxRestarts = 1
  MaxEdits = 2
INVARIANTS
  SignedIsVerified
