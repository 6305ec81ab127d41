SPECIFICATION MCSpec
CONSTANTS
  Languages <- MCLanguages
  Lines <- MCLines
  MaxLines = 5
  Formats <- MCFormats
  Units <- MCUnits
  MaxUnits = 6
  Callers = {worker, auditor}
  Sources <- MCSources
  Databases <- MCDatabases
  Contents = {x, y}
  Missing = missing
  MaxChanges = 2
SYMMETRY MCSymmetry
INVARIANTS Nested FunctionsWhole NoneLost TextCut PositionsDistinct NoFalseAlarm SameIsSame
CHECK_DEADLOCK FALSE
