\* Three requests compete for two places.
SPECIFICATION FairSpec
CONSTANTS
  Requests = {r1, r2, r3}
  Concurrent = 2
INVARIANTS PlacesAccounted DecisionsHold
PROPERTIES PlacesComeBack
