CONSTANTS
  Directories <- MCDirectories
  Modules <- MCModules
  MaxImports = 3
  Base = 100
  Addresses <- MCAddresses
SPECIFICATION Spec
INVARIANTS
  StubsFound
  ImportsNamed
