SPECIFICATION Spec
CONSTANTS
  MaxRecords = 3
  MaxSize = 7
  Scope <- MCScope
  LogRecord <- MCLogRecord
  Inputs <- MCInputs
  Sizes <- MCSizes
INVARIANTS SplitsAtSize NothingLost NoEmptiedScope
