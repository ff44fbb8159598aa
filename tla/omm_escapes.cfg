\* A number of more digits than int() takes.
SPECIFICATION Spec
CONSTANTS
  Headers <- MCHeaders
  Tables <- MCTables
  LineEnds <- MCLineEnds
  Required <- MCRequired
  Numeric = {"ID"}
  Letters = {"NAME", "ID", "NOTE", "A", "0", "1", "2"}
  Digits = {"0", "1", "2"}
  MaxLength = 2
  MaxDigits = 3
  Refused = Refused
  Uncaught = Uncaught
INVARIANTS
  RecordsOrRefused
CHECK_DEADLOCK FALSE
