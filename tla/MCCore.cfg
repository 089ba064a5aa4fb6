SPECIFICATION CoreSpec
CONSTANTS
  Widths <- MCWidths
  Positions <- MCPositions
  Dist <- Distance
  Offered <- Visits
  HalfWidth = 4
  Skin = 3
  Cutoffs = {1, 2, 4, 5}
  MaxParticles = 3
  Matrices <- MCMatrices
  Displacements <- MCDisplacements
  MaxIterations = 6
  SearchRadius = 2
  TrueRadius = 5
  Generators = {1, 2}
  Seeds = {1, 5}
  Streams = {0, 6}
  Width = 2
  Rounds = 10
  Mul0 = 3
  Mul1 = 3
  Weyl0 = 1
  Weyl1 = 1
  WordXor <- MCXor
  MaxCalls = 5
  MaxSeedings = 1
  Capacity = 24
  Alignment = 4
  SizeRange = 64
  Requests = {0, 1, 3, 4, 5, 9, 24, 30}
CHECK_DEADLOCK FALSE
INVARIANTS
  CoreTypeOK
  PairsExact
  ShortestImageFound
  DrawsApart
  BlocksApart
