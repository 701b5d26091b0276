SPECIFICATION Spec
CONSTANTS
  Threads = {t1, t2, t3}
  Blocks = {p1}
  Primary = {p1}
  p1 = p1
  p2 = p2
  s1 = s1
  Places <- MCPlacesFixed
  None = None
  Misuse = TRUE
SYMMETRY Symmetry
CHECK_DEADLOCK FALSE
INVARIANT FreedOnce
