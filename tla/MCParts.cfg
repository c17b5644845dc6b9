SPECIFICATION PartsSpec
SYMMETRY BlockSymmetry
CONSTANTS
  Cells = 6
  Words <- ShortWords
  IntBits = 8
  WordBits = 16
  Formats <- SomeFormats
  Sizes = {1, 2, 4, 6, 20}
  Programs <- SomePrograms
  Origins = {0, 3, 16}
  ImageBits = 6
  AddressBits = 4
  MaxExe = 600
  Card = 3
  DeckLengths = {0, 1, 2, 3, 4, 5, 6, 7, 8, 9, 14, 15, 16, 17, 20, 24}
  DeckBits = 4
  ELF_MAGIC <- Magic
  ElfFiles <- SomeElfFiles
  Separators = {9}
  Names <- SomeNames
  Paths <- SomePaths
  Leftovers <- SomeLeftovers
  MaxPath = 6
  MaxName = 3
  MaxMembers = 3
  MaxUsers = 3
  MaxGroups = 2
  UserNames <- ShortNames
  Blocks = {b1, b2, b3, b4, b5}
  Shapes <- SomeShapes
  MaxRanges = 2
  MaxHolders = 2
  KernelCallers = {kernel}
  MvsCallers = {mvs}
  MaxLost = 1
  MaxAsked = 2
INVARIANTS CopiesKeepTheBytes MatchesLengthAndSum NumbersReadBack PrintsABeginning AcceptsWholePrograms DeckLoadsTheFile ElfSectionsAreInPlace StorageIsItsOwners  ProgramsLeakTheirStorage
PROPERTIES ResizesNeedTwoGaps  NumbersKeepTheirNames
