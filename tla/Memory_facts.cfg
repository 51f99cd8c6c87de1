\* Two preferences of one topic, another fact, a consolidation and an editor.
SPECIFICATION MemorySpec
CONSTANTS
  p1 = p1
  p2 = p2
  e1 = e1
  e2 = e2
  u1 = u1
  l1 = l1
  l2 = l2
  NoFact = NoFact
  Prefs = {p1, p2}
  Others = {e1, e2}
  Flushable = {p1, e2}
  Lanes = {l1, l2}
  Edits = {u1}
  MinUses = 0
  MaxTurns = 3
  MaxDreams = 1
  MaxDecisions = 2
  MaxMishaps = 1
CHECK_DEADLOCK FALSE
SYMMETRY SameLanes
PROPERTIES
  PreferencesAreKept
  FactsAreKept
