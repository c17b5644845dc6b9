SPECIFICATION Spec
CONSTANTS
  Names <- TwoNames
  Paths <- SomePaths
  Kinds <- SomeKinds
  MaxNodes = 3
  MaxDrivers = 2
  MaxWritten = 3
  Junk = Junk
INVARIANT RegisteredNodesHaveTheirDriver
