SPECIFICATION Spec
CONSTANTS
  Procs = {shell, p1, p2, p3, p4}
  Shell = shell
  Pipes = {k1, k2, k3}
  Tty = Tty
  Reaper = Reaper
INVARIANTS TypeOK Foreground PipesArePrivate
PROPERTIES LineEnds ProgramsEnd
CHECK_DEADLOCK FALSE
