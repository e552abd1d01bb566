SPECIFICATION Spec
CONSTANTS
  None = None
  Settings <- MCSettings
  Modules <- MCModules
  Registrations <- MCRegistrations
  Files <- MCFiles
  CommandLines <- MCCommandLines
  ExistingPaths <- MCExistingPaths
  NumberOf <- MCNumberOf
  MaxLines = 3
  MaxArguments = 3
INVARIANTS TypeOK ConfiguredAsWritten ServesIfConfigured
