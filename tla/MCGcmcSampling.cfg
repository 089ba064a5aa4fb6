SPECIFICATION Spec
CONSTANTS
  Kinds <- MCKinds
  Species <- MCSpecies
  Template <- CentredTemplate
  Framework <- MCFramework
  L = 5
  Radius = 1
  Positions <- MCPositions
  Shifts <- MCShifts
  Activity <- MCActivity
  SiteEnergy <- MCSiteEnergy
  MaxMolecules = 2
INVARIANTS
  MoveBalance
  SwapBalance
