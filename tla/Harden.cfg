SPECIFICATION Spec
CONSTANTS
  Raised = Raised
  Nothing = Nothing
  TARGETS <- SmallTargets
  MinimumTargets = 4
  Standard = {"Client", "_Request"}
  Ignored = {"test"}
  Kebab <- SmallKebab
  Beside = {"sdk"}
  RequiredTargets <- SmallRequired
  RequiredPackages <- SmallPackages
  InitialRepos <- SmallRepos
  NewDirs <- SmallDirs
  Edits <- SmallEdits
  Places <- SmallPlaces
  MaxEdits = 2
  MaxMembers = 2
INVARIANTS
  HardenSettles
  RerunCompletes
  HandWorkStands
  HardenedVerifies
  
  PackageStaysValid
CHECK_DEADLOCK FALSE
