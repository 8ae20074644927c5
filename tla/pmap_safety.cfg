SPECIFICATION Spec
CONSTANTS
  Envs = {e1, e2}
  Boot = e1
  Cpus = {c1, c2}
  Pages = {p1, p2, p3, p4, p5}
  Pdx = {d1, d2}
  Ptx = {t1}
  REFMOD = 5
  Null = Null
SYMMETRY PageSymmetry
INVARIANTS PagesCounted FreeIsUnreachable TlbCoherent TablesPrivate
CHECK_DEADLOCK FALSE
