SPECIFICATION Spec
CONSTANTS
  w1 = w1
  w2 = w2
  home = home
  work = work
  Handlers = {w1, w2}
  UniqueLabels = {home, work}
  NoLabel = NoLabel
  MaxSaves = 4
SYMMETRY Alike
INVARIANTS NothingStale LabelsUnique LabelKept
PROPERTIES NothingLost
