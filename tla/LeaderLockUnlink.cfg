SPECIFICATION Spec
CONSTANTS
  Daemons = {d1, d2}
  Doctors = {doc}
  MaxUnlinks = 1
INVARIANT MutualExclusion
