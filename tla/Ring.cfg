CONSTANTS
  a = a
  b = b
  c = c
  d = d
  none = none
  r1 = r1
  r2 = r2
  Socket = {a, b, c, d}
  NoSocket = none
  Rumor = {r1, r2}
  Federating = {a}
  MaxUpserts = 4
SPECIFICATION Spec
SYMMETRY Symmetry
INVARIANTS NeverBack ToldOnce CycleTellsThoseThere
CHECK_DEADLOCK FALSE
