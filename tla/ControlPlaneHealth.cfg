CONSTANTS
  Boot = {1, 2}
  MaxGen = 3
  NoFile = NoFile
SPECIFICATION Spec
INVARIANT OldReportsRefused
