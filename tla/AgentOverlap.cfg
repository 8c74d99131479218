SPECIFICATION Spec
CONSTANTS
  MaxCalls = 2
  MaxTools = 2
  MaxMessages = 4
INVARIANT InOrder
