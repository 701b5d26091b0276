SPECIFICATION Spec
CONSTANTS
  Threads = {t1, t2}
  Blocks = {p1, s1}
  Primary = {p1}
  p1 = p1
  p2 = p2
  s1 = s1
  Places <- MCPlaces
  None = None
  Misuse = FALSE
INVARIANTS
  EachBlockOnce
  LegalCallsPass
  LookupSound
  ShadowTellsLife
