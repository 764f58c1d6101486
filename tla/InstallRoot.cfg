CONSTANTS
  Versions = {1, 2}
  Packages <- SomePackages
  MaxFaults = 1
  None = None
  Torn = Torn
SPECIFICATION Spec
INVARIANTS
  TypeOK
  VersionFilesNameReleases
  SuccessIsComplete
PROPERTIES
  WorkingVersionKept
  ReleasesAreKept
  MinInstallerRespected
