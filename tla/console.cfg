SPECIFICATION FairSpec
CONSTANTS
  Printable = {"x"}
  CONSBUFSIZE = 3
  BUFLEN = 4
  CRT_ROWS = 2
  CRT_COLS = 2
INVARIANTS TypeOK ScreenShowsLine
PROPERTIES InputIsQueued LinesReturn
