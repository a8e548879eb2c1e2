SPECIFICATION MCSpec
CONSTANTS
  file1 = file1
  file2 = file2
  folder = folder
  a = a
  b = b
  d1 = d1
  d2 = d2
  d3 = d3
  Top = Top
  Nothing = Nothing
  None = None
  Movers = {file1, file2}
  Names = {Top, a, b}
  Entry <- MCEntry
  Rivals = FALSE
  Blind = TRUE
  Dirs = {d1, d2, d3}
  Base = d1
  Above <- MCAbove
PROPERTIES NothingOverwritten
CHECK_DEADLOCK FALSE
