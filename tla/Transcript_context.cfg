\* Two compactions may overlap; the history is never longer than MaxHistory.
SPECIFICATION Spec
CONSTANTS
  t1 = t1
  t2 = t2
  Tasks = {t1, t2}
  KeepRecent = 1
  MaxHistory = 20
  MaxEntries = 6
SYMMETRY TasksSym
INVARIANTS
  TranscriptInv
  PromptIsWellFormed
