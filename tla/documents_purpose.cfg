CONSTANTS
  a1 = a1
  a2 = a2
  None = None
  Apps = {a1}
  Kinds = {"login"}
  References <- MCReferences
  Samples <- MCSamples
  Words <- MCWords
  Contains <- MCContains
  ForeignSaves = {"new_purpose"}
  MaxSaves = 2
SPECIFICATION Spec
INVARIANT UnknownPurposeIgnored
CHECK_DEADLOCK FALSE
