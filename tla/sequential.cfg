SPECIFICATION Spec
CONSTANTS
  PGWORDS = 28
  UserEsp = {1, 28}
  PGSIZE = 4
  NADDR = 64
  ULIM = 32
  MMIOBASE = 32
  MMIOLIM = 48
  SECTSIZE = 4
  ELFHDR = 0
  WORD = 2
  UINT = 256
  BUFSIZE = 4
  NCPUS = 2
  MAXARGS = 4
INVARIANTS BootFindsMachine RangesHold LibraryExact MonitorUnderstands
PROPERTIES ReturnsToTrapState FrameIsMapped
CHECK_DEADLOCK FALSE
