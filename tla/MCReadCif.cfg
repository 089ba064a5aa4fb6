SPECIFICATION ReadCifSpec
CONSTANTS
  Lines <- MCLines
  Names <- MCNames
  Unfinished = "'1"
  EndOfFile = EndOfFile
  NoBlock = NoBlock
  FieldText = FieldText
  MaxLines = 6
  Fine = 30
  Coarse = 3
  Tolerance = 30
  ElementOf <- MCElementOf
  Mass <- MCMass
  Unknown = Unknown
  Garbage = Garbage
  Absent = Absent
  Documents <- MCDocuments
CHECK_DEADLOCK FALSE
INVARIANTS
  ReadCifTypeOK
  ReadsWhatIsWritten
  RejectsOnlyMalformed
  AcceptsOnlyWellFormed
  SitesFilledOnce
  AtomsKeepTheirElement
