SPECIFICATION Spec
CONSTANTS
  Kinds <- MCKinds
  Species <- MCSpecies
  Template <- MCTemplate
  Framework <- MCFramework
  L = 4
  Radius = 1
  Positions <- MCPositions
  Shifts <- MCShifts
  MaxMolecules = 3
INVARIANTS
  TypeOK
  GuestsOwnedOnce
  FrameworkFixed
  TrialSeesOthers
  MoleculesRigid
PROPERTIES
  ImplementsMoleculeList
