SPECIFICATION Spec
CONSTANTS
  Names = {a, b}
  Inodes = {i1, i2}
  Blocks = {x}
  Session = s
  Pool = {p}
  None = None
SYMMETRY Symmetry
CHECK_DEADLOCK FALSE
INVARIANT AckedContentOnDisk
PROPERTY CreateLosesNothing
