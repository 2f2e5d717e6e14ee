SPECIFICATION StopSpec
CONSTANTS
  NumLights = 2
  NumChannels <- MCNumChannels
  NumPresets = 1
  ChaseSteps = 0
  MaxScenes = 2
  KonamiAnywhere = FALSE
  InitialChaseStep = 0
INVARIANT LoopSurvives
