SPECIFICATION Spec
CONSTANTS
  Components = {a, b}
  FileChangedThreshold = 5
  MaxEdits = 3
  MaxGenerations = 5
CHECK_DEADLOCK FALSE
INVARIANTS QuietMeansInstalled OneLibraryLoaded BundlesKnown
PROPERTIES ReloadsArtifacts
