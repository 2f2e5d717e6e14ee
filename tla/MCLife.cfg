SPECIFICATION PartsSpec
CONSTANTS
  LoopBack = TRUE
  Patient = TRUE
  Room = 2
  Scenes = {red, blue}
  Damaged = damaged
  MaxScenes = 3
  SIZE = 2
  Files = {default}
  Default = default
  MaxFixtures = 2
  Units = 3
  StopAfterBegin = TRUE
  MaxLights = 20
  ActionRoom = 1
  PollRoom = 2
CHECK_DEADLOCK FALSE
INVARIANTS
  StoppedIsOver
  NothingUnsaved
  NeverPartial
  JoinIsPrompt NoRepaint
  DimmerFits
PROPERTIES
  StopReturns RestartKeeps SavedSetLoads
  RedrumReturns
  ModesConverge Reconnects
