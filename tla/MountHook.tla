----------------------------- MODULE MountHook -----------------------------
(***************************************************************************)
(* The mount hook (src/mount/MountHook.cpp): bind mounts and devices of its*)
(* command line.  All of the command line is parsed before the first mount.*)
(***************************************************************************)
EXTENDS Container

CONSTANTS
  Wildcard,    \* <FI_PROVIDER_PATH>, as the directory of a destination
  Malformed,   \* an argument that the parsers of libsarus reject
  FabricNames, \* file names of libfabric
  FabricDir,   \* FabricDir[d]: the subdirectory libfabric of d
  UsrLib       \* /usr/lib

ASSUME MountAssumption ==
  /\ FabricNames \subseteq Names
  /\ FabricDir \in [LinkerDirs -> Dirs]
  /\ UsrLib \in Dirs
  /\ Wildcard \notin Dirs
  /\ None \notin Dirs

VARIABLES
  mounts,          \* --mount: a sequence of [dir, name] or Malformed
  deviceMounts,    \* --device: a sequence of devices or Malformed
  hasLdconfig,     \* whether LDCONFIG_PATH is set for the hook
  fiProviderPath,  \* FI_PROVIDER_PATH of the container (None: not set)
  listFailed       \* history: ldconfig failed to list the libraries

mountArgs == <<mounts, deviceMounts, hasLdconfig, fiProviderPath>>
mountVars == <<mountArgs, listFailed>>

-----------------------------------------------------------------------------
\* A library the cache lists need not be there.
BadLibfabrics == {p \in cache : p.name \in FabricNames}

Libfabrics == {p \in cache : p.name \in FabricNames /\ libs[p] # NoFile}

(* replaceFiProviderPathWildcard: the container's variable, or the subdi-  *)
(* rectory libfabric beside the first libfabric listed (any of them may be *)
(* the first), or, without LDCONFIG_PATH or libfabric, /usr/lib.           *)
FiProviderPaths ==
  IF fiProviderPath # None THEN {fiProviderPath}
  ELSE IF hasLdconfig /\ Libfabrics # {}
       THEN {FabricDir[p.dir] : p \in Libfabrics}
       ELSE {UsrLib}

\* The wildcard stays in the destination.
BadDestination(request, fi) == request

Destination(request, fi) ==
  IF request.dir = Wildcard THEN [dir |-> fi, name |-> request.name] ELSE request

\* The cache is refreshed before the mounts.
BadMountPlan(fi) ==
  (IF hasLdconfig THEN <<Refresh>> ELSE <<>>)
  \o [i \in DOMAIN mounts |->
        Bind([origin |-> "mount hook", soname |-> mounts[i].name, bits |-> 64],
             {Destination(mounts[i], fi)})]
  \o [i \in DOMAIN deviceMounts |-> Device(deviceMounts[i])]

(* activate.                                                               *)
MountPlan(fi) ==
  [i \in DOMAIN mounts |->
     Bind([origin |-> "mount hook", soname |-> mounts[i].name, bits |-> 64],
          {Destination(mounts[i], fi)})]
  \o [i \in DOMAIN deviceMounts |-> Device(deviceMounts[i])]
  \o IF hasLdconfig THEN <<Refresh>> ELSE <<>>

WellFormedArgs == /\ \A i \in DOMAIN mounts : mounts[i] # Malformed
                  /\ \A i \in DOMAIN deviceMounts : deviceMounts[i] # Malformed

UsesWildcard == \E i \in DOMAIN mounts : mounts[i].dir = Wildcard

MountParsed == /\ WellFormedArgs
               /\ \E fi \in FiProviderPaths : Start(MountPlan(fi))
               /\ UNCHANGED mountVars

(* If ldconfig cannot list the libraries, there is taken to be no libfabric*)
MountParsedBlindly ==
  /\ WellFormedArgs
  /\ UsesWildcard /\ fiProviderPath = None /\ hasLdconfig
  /\ Start(MountPlan(UsrLib))
  /\ listFailed' = TRUE
  /\ UNCHANGED mountArgs

MountRefused == ~WellFormedArgs /\ Throw("refused") /\ UNCHANGED mountVars

RunMountHook == MountParsed \/ MountParsedBlindly \/ MountRefused
=============================================================================
