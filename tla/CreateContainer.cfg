\* The hooks of the createContainer stage on one container: five layouts of
\* libraries with four caches each, three GPUs, all environments of a job.
CONSTANTS
  Dirs <- TheDirs
  LinkerDirs <- TheLinkerDirs
  DefaultDirs <- TheDefaultDirs
  Lib64 = "lib64"
  Names <- TheNames
  NoFile = NoFile
  Devices <- TheDevices
  HostDirs <- TheHostDirs
  None = None
  HostLibs <- TheHostLibs
  HostVersion <- TheHostVersion
  LibcNames = {"libc", "libc5"}
  AbsoluteLinks <- TheAbsoluteLinks
  Wildcard = Wildcard
  Malformed = Malformed
  FabricNames = {"libfabric"}
  FabricDir <- TheFabricDir
  UsrLib = "usrlib"
  Gpus <- TheGpus
  Scenarios <- TheScenarios

SPECIFICATION Spec

INVARIANTS
  TypeOK
  NoGlibcMixture
  OldGlibcIsReplaced
  MountedLibsAreListed
  ProvidersWhereLibfabricLooks
  DevicesUsable
  GpusAreTheVisibleOnes
  PmixAllOrNothing
