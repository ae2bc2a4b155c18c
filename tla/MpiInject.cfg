SPECIFICATION Spec
CONSTANTS
  Dirs = {"lib", "lib64", "local"}
  Local = {"local"}
  Names = {"mpi", "dep"}
  Versions <- MCVersions
  Layouts <- MCLayouts
  MpiLibs <- MCMpiLibs
  DepLibs <- MCDepLibs
  MaxHops = 4
INVARIANTS
  TypeOK
  RefusalLeavesContainerAlone
  InjectedLibsAreLinked
  OtherMajorsKeepTheirNames
  MountPointsAreNotRemoved
