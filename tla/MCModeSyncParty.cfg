SPECIFICATION SyncSpec
CONSTANTS
  ActionRoom = 1
  PollRoom = 1
PROPERTY PartyFromIdle
