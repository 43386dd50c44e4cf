SPECIFICATION Spec
CONSTANTS
  None = None
  Configs = {a, b, c, d}
  Fallback = a
  Handlers = {h1, h2}
  MaxFaults = 2
CHECK_DEADLOCK FALSE
PROPERTY ReplacesExpected
