SPECIFICATION Spec
CONSTANTS
  Versions <- TwoReleases
  Tags <- ThreeTags
  TagsOf <- ReleaseTags
  Default = "default"
  None = "none"
  MaxRuns = 3
INVARIANTS
  TypeOK
  OutlineIsBaseline
  GapsRecorded
  ContextCurrent
  SourceStripped
  SourceRestored
