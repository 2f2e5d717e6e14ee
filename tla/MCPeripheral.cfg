SPECIFICATION PartsSpec
CONSTANTS
  N = 4
  Lanes = 2
  Byte = {0, 1}
  Writers = {app}
  Calls <- SmallCalls
  Loads <- SmallLoads
  LastAddress = 2
  W = 2
  Bytes <- TwoBits
  IDLE_TIME = 1
  BREAK_TIME = 10
  MAB_TIME = 1
  BIT_TIME = 2
  Bits = {0, 1}
INVARIANTS ShadowMatchesHardware BulkPrefixLoaded SlotsFaithful OwedPending
PROPERTIES
  ImplementsArray PacketComplete PacketsFlow OwedAcknowledged
