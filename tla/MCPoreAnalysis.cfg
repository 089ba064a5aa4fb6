SPECIFICATION MCSpec
CONSTANTS
  Nodes = {1, 2, 3, 4}
  Axes = {1, 2}
  Inputs <- MCInputs
  Tessellations <- MCTessellations
  RoundOff <- MCRoundOff
  Side = 64
  Quantum = 4
  SampleCount = 3
  Probe = 3
  SamplePoints <- MCSamplePoints
  VolumeSamples = 1
CHECK_DEADLOCK FALSE
INVARIANTS
  PoreTypeOK
  PldIsThatOfTheCrystal
  AnswersAgree
  OffsetsAreTrue
  ThresholdIsRight
  AccessibleIsRight
