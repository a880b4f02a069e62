CONSTANTS
  NFrames = 31
  W = 10
  BaseEnd = 4
  ExtStart = 5
  KernelEnd = 15
  ArrayHalves = 3
  EnvsHalves = 3
  Envs = {e1, e2}
  StackPage = 19
  SegmentPages <- MCSegmentPages
  OtherPages = {9, 10}
  ActiveListSize = 2
  SecondListSize = 1
  PowerOn <- MCPowerOn
  MaxSteps = 6
  e1 = e1
  e2 = e2
SYMMETRY EnvSymmetry
SPECIFICATION Spec
INVARIANTS
  FramesAccounted
  KernelMapped
  TranslationsAgree
PROPERTY LossesAreKnown
CHECK_DEADLOCK FALSE
