CONSTANTS
  x = x
  y = y
  X = X
  Y = Y
  p1 = p1
  p2 = p2
  Callers = {p1}
  Sources = {x, y}
  Contents = {X, Y}
  NoFile = NoFile
  Partial = Partial
  None = None
  InitContent <- MCInitContent
  Args <- MCArgs
  MaxFaults <- OnlyCancel
SPECIFICATION Spec
INVARIANT AllStored
