SPECIFICATION Spec
CONSTANTS
  Buttons = {A}
  Cranks = {NoInject}
  NoInject = NoInject
  MaxCommands = 3
PROPERTY HardwarePassesThrough
