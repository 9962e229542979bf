\* Two runs over two versions while main and the branches move.
SPECIFICATION Spec
CONSTANTS
  Runs = {r1, r2}
  MaxVersion = 2
  MaxEdits = 2
  MaxCommits = 6
  MaxOthers = 4
SYMMETRY Symmetry
INVARIANTS OwnTopicAccepted
PROPERTIES NothingUndone
