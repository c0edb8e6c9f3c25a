SPECIFICATION Spec
CONSTANTS
  Char <- MCChar
  Quote = 12
  Plus = 10
  Blank = 11
  None = None
  MaxNumber = 5
  MemKeys = {"mem1", "mem2"}
  StoreValues <- MCStoreValues
  JunkKey = "junk"
  Files <- MCFiles
  Locals <- MCLocals
  Countries <- MCCountries
  MaxLosses = 1
INVARIANTS TypeOK SavedKept NothingOlder CallerHasOneNumber
PROPERTY ImplementsSettings
CHECK_DEADLOCK FALSE
