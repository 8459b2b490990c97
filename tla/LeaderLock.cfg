SPECIFICATION Spec
CONSTANTS
  Daemons = {d1, d2, d3}
  Doctors = {doc1, doc2}
  MaxUnlinks = 1
SYMMETRY Symmetry
INVARIANTS TypeOK LeadersBoundedByUnlinks PidNamesHolder
