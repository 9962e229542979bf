\* Two attempts to publish one tag, three interferences by others, any reply lost.
SPECIFICATION Spec
CONSTANTS
  Assets = {"package", "manifest"}
  Extra = "extra"
  ScopeVerified = FALSE
  MaxReleases = 3
  MaxOutside = 3
  MaxAttempts = 2
INVARIANTS OneReleasePerAttempt
PROPERTIES OthersDraftsUntouched PublishedWhole PublishedAtSource
CHECK_DEADLOCK FALSE
