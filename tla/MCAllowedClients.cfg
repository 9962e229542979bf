\* Two overlapping requests; listings of three clients in pages of up to three, read two at a time.
SPECIFICATION MCSpec
CONSTANTS
  AdminRequests = {r1, r2}
  MaxId = 3
  PageSize = 3
  Concurrency = 2
  Turns = 2
SYMMETRY Symmetry
INVARIANTS AnswersHold ListingComplete
