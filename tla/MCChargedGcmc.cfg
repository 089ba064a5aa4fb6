SPECIFICATION ChargedSpec
CONSTANTS
  Kinds <- MCKinds
  Species <- MCSpecies
  Template <- MCTemplate
  Framework <- MCFramework
  L = 4
  Radius = 1
  Positions <- MCPositions
  Shifts <- MCShifts
  MaxMolecules = 2
  Charge <- MCCharge
  Strength <- MCStrength
  Terms <- MCTerms
  Weight <- MCWeight
  CosTable <- MCCos
  SinTable <- MCSin
  ErfOverR <- MCErfOverR
  SelfFactor = 2
  PairTable <- MCPairTable
  RealTable <- MCRealTable
  ResyncInterval = 3
INVARIANTS
  ChargedTypeOK
  CacheMatchesMolecules
  LedgerMatchesEnergy
