SPECIFICATION Spec
CONSTANTS
  N = 2
  Lanes = 2
  Byte = {0, 1}
  Writers = {app, highlight}
  Calls <- AllCalls
  Loads <- AllLoads
PROPERTY ImplementsArray
