\* Every prefix of every response of MCOmmCsv.
SPECIFICATION Spec
CONSTANTS
  Headers <- MCHeaders
  Tables <- MCTables
  LineEnds <- MCLineEnds
  Required <- MCRequired
  Numeric = {"ID"}
  Letters = {"NAME", "ID", "NOTE", "A", "0", "1", "2"}
  Digits = {"0", "1", "2"}
  MaxLength = 2
  MaxDigits = 3
  Refused = Refused
  Uncaught = Uncaught
INVARIANTS
  TypeOK
  WholeIsRead
  CutFailsClosed
CHECK_DEADLOCK FALSE
