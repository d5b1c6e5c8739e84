SPECIFICATION Spec
CONSTANTS
  c1 = c1
  c2 = c2
  A = A
  Right = 1
  Calls = {c1, c2}
  Buttons = {A}
  HardwareCranks <- MCCranks
  NoInject <- MCNoInject
  MaxCommands = 8
  Scripts <- MCTurns
PROPERTY RotatesTheCrank
CHECK_DEADLOCK FALSE
