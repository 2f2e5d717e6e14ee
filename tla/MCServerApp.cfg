SPECIFICATION Spec
CONSTANTS
  NumLights = 3
  NumChannels <- MCNumChannels
  NumPresets = 2
  ChaseSteps = 1
  MaxScenes = 2
  KonamiAnywhere = FALSE
INVARIANTS
  TypeOK VisualsMatchState LoopSurvives ChannelInRange MirrorFresh ScenesClean
PROPERTY ImplementsModes
