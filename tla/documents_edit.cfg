CONSTANTS
  a1 = a1
  a2 = a2
  None = None
  Apps = {a1, a2}
  Kinds <- AllKinds
  References <- MCReferences
  Samples <- MCSamples
  Words <- MCWords
  Contains <- MCContains
  ForeignSaves = {"new_field", "raw_notes"}
  MaxSaves = 2
SPECIFICATION Spec
INVARIANTS TypeOK BuiltinsNotShadowed SelectorsFailClosed
PROPERTY EditsOneField
CHECK_DEADLOCK FALSE
