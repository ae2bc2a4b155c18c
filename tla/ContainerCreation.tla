------------------------- MODULE ContainerCreation -------------------------
(***************************************************************************)
(* The hooks of the createContainer stage, as the runtime runs them: in    *)
(* the order of their configuration files, one process after the other, on *)
(* one container.  What one of them leaves behind is what the next finds.  *)
(***************************************************************************)
EXTENDS GlibcHook, MountHook, AmdGpuHook, PmixHook

Hooks == {"mount", "ldcache", "glibc", "amdgpu", "pmix"}

CONSTANT Scenarios    \* what the hooks may find: image, node, job, settings

(* Each hook is configured once.                                           *)
Orders == {o \in Seq(Hooks) : \A i, j \in DOMAIN o : o[i] = o[j] => i = j}

Mounts == Seq([dir : Dirs \cup {Wildcard}, name : Names] \cup {Malformed})

ASSUME ScenariosAssumption ==
  /\ Malformed \notin [dir : Dirs \cup {Wildcard}, name : Names] \cup Devices
  /\ \A s \in Scenarios :
       /\ s.order \in Orders
       /\ s.emptyPath \in BOOLEAN
       /\ s.libs \in [Paths -> Files \cup {NoFile}]
       /\ s.hasCache \in BOOLEAN
       /\ s.cache \in SUBSET Listable
       /\ \A p \in Paths : s.libs[p] # NoFile => s.libs[p].origin = "image"
       /\ s.version \in (Nat \X Nat) \cup {None}
       /\ s.mounts \in Mounts
       /\ s.deviceMounts \in Seq(Devices \cup {Malformed})
       /\ s.hasLdconfig \in BOOLEAN
       /\ s.fiProviderPath \in Dirs \cup {None}
       /\ s.byPath \in (SUBSET Gpus) \cup {None}
       /\ s.visible \in Seq(Gpus) /\ s.envParses \in BOOLEAN
       /\ s.hasKfd \in BOOLEAN
       /\ s.slurm \in SlurmEnvs
       /\ s.present \in SUBSET HostDirs

VARIABLES
  order,      \* the configured hooks
  emptyPath,  \* whether LDCONFIG_PATH is the empty string for the ldcache hook
  image       \* history: the libraries of the image and what its cache lists

stage == <<order, emptyPath, image>>
vars == <<stage, containerVars, glibcVars, mountVars, amdGpuVars,
          slurm>>

Init ==
  \E s \in Scenarios :
    /\ order = s.order /\ emptyPath = s.emptyPath
    /\ turn = 1 /\ busy = FALSE /\ plan = <<>> /\ outcome = "creating"
    /\ image = [libs |-> s.libs, cache |-> s.cache] /\ libs = s.libs
    /\ hasCache = s.hasCache /\ cache = s.cache
    /\ devices = {} /\ allowed = {} /\ mounted = {} /\ present = s.present
    /\ version = s.version /\ missed = {}
    /\ mounts = s.mounts /\ deviceMounts = s.deviceMounts
    /\ hasLdconfig = s.hasLdconfig /\ fiProviderPath = s.fiProviderPath
    /\ listFailed = FALSE
    /\ byPath = s.byPath /\ visible = s.visible
    /\ envParses = s.envParses /\ hasKfd = s.hasKfd
    /\ slurm = s.slurm

-----------------------------------------------------------------------------
Turn(h) == /\ outcome = "creating"
           /\ ~busy
           /\ turn \in DOMAIN order
           /\ order[turn] = h

Mount == /\ Turn("mount")
         /\ RunMountHook
         /\ UNCHANGED <<stage, glibcVars, amdGpuVars, slurm>>

\* The ldcache hook keeps to containers that have a cache.
BadLdCache ==
  /\ Turn("ldcache")
  /\ Start(IF emptyPath \/ ~hasCache THEN <<>> ELSE <<Refresh>>)
  /\ UNCHANGED <<stage, glibcVars, mountVars, amdGpuVars, slurm>>

(* The ldcache hook (src/ldcache/LdCacheHook.cpp): ldconfig, from the path *)
(* set for the hook or else from PATH, unless that path is empty, and then *)
(* a summary for the log.                                                  *)
LdCache ==
  /\ Turn("ldcache")
  /\ Start(IF emptyPath THEN <<>> ELSE <<Refresh>>)
  /\ UNCHANGED <<stage, glibcVars, mountVars, amdGpuVars, slurm>>

Glibc == /\ Turn("glibc")
         /\ RunGlibcHook
         /\ UNCHANGED <<stage, mountVars, amdGpuVars, slurm>>

AmdGpu == /\ Turn("amdgpu")
          /\ RunAmdGpuHook
          /\ UNCHANGED <<stage, glibcVars, mountVars, slurm>>

Pmix == /\ Turn("pmix")
        /\ RunPmixHook
        /\ UNCHANGED <<stage, glibcVars, mountVars, amdGpuVars>>

(* What a hook reads before it decides cannot be read: its configuration,  *)
(* its standard input, the output of ldconfig, ldd, readelf or scontrol.   *)
(* The exception may be one that main catches or not.                      *)
ReadFails == /\ \E h \in Hooks : Turn(h)
             /\ \E how \in {"refused", "terminated"} : Throw(how)
             /\ UNCHANGED <<stage, glibcVars, mountVars, amdGpuVars, slurm>>

(* A step of the hook at work.                                             *)
Work == /\ HookStep
        /\ UNCHANGED <<stage, glibcVars, mountVars, amdGpuVars, slurm>>

(* All hooks have returned: the runtime starts the container.              *)
Create ==
  /\ outcome = "creating"
  /\ turn > Len(order)
  /\ outcome' = "created"
  /\ UNCHANGED <<stage, turn, busy, plan, files, devices, allowed,
                 mounted, present, glibcVars, mountVars, amdGpuVars, slurm>>

(* What slurmd does before the PMIx hook runs is in the initial states.    *)
Slurmd == /\ turn \in DOMAIN order /\ order[turn] = "pmix"
          /\ SlurmdStep
          /\ UNCHANGED <<stage, glibcVars, mountVars, amdGpuVars>>

Ended == outcome # "creating" /\ UNCHANGED vars

Runtime == Mount \/ LdCache \/ Glibc \/ AmdGpu \/ Pmix \/ ReadFails \/ Work
           \/ Create

Next == Runtime \/ Slurmd \/ Ended

Spec == Init /\ [][Next]_vars

-----------------------------------------------------------------------------
TypeOK ==
  /\ order \in Orders /\ emptyPath \in BOOLEAN
  /\ image \in [libs : [Paths -> Files \cup {NoFile}], cache : SUBSET Listable]
  /\ turn \in 1 .. Len(order) + 1
  /\ busy \in BOOLEAN
  /\ plan \in Seq(Ops)
  /\ outcome \in {"creating", "created", "refused", "terminated"}
  /\ libs \in [Paths -> Files \cup {NoFile}]
  /\ hasCache \in BOOLEAN
  /\ cache \in SUBSET Listable
  /\ devices \in SUBSET Devices
  /\ allowed \in SUBSET Devices
  /\ mounted \in SUBSET HostDirs
  /\ present \in SUBSET HostDirs
  /\ version \in (Nat \X Nat) \cup {None} /\ missed \in SUBSET Paths
  /\ mounts \in Mounts /\ deviceMounts \in Seq(Devices \cup {Malformed})
  /\ hasLdconfig \in BOOLEAN /\ listFailed \in BOOLEAN
  /\ fiProviderPath \in Dirs \cup {None}
  /\ byPath \in (SUBSET Gpus) \cup {None} /\ visible \in Seq(Gpus)
  /\ envParses \in BOOLEAN /\ hasKfd \in BOOLEAN
  /\ slurm \in SlurmEnvs

Created == outcome = "created"

GlibcPaths == {p \in Paths : libs[p] # NoFile /\ libs[p].origin = "glibc hook"}

Before(h, k) == \E i, j \in DOMAIN order : i < j /\ order[i] = h /\ order[j] = k

(* A container does not start with a mixture of two versions of glibc.     *)
(* Once a library of the host's glibc is in place, ld.so finds none of the *)
(* image's own under any name of that glibc, unless the cache lacked it    *)
(* when the hook read it; and it finds another, if the host's file is      *)
(* called by its soname.                                                   *)
NoGlibcMixture ==
  Created /\ GlibcPaths # {} =>
    \A i \in DOMAIN HostLibs :
      LET found == LoaderFinds(HostLibs[i].soname)
          own == {p \in found : libs[p].origin = "image"}
      IN  /\ own \subseteq missed
          /\ HostLibs[i].file = HostLibs[i].soname => found # own

(* With the ldcache hook before it, the glibc hook does not let an older   *)
(* glibc pass, wherever ld.so finds it: no image is taken for one without  *)
(* glibc because its cache is missing or out of date.                      *)
OldGlibcIsReplaced ==
  /\ Created
  /\ Before("ldcache", "glibc") /\ ~emptyPath
  /\ HasToBeReplaced
  /\ \E p \in Paths : /\ p.dir \in LinkerDirs /\ p.name \in LibcNames
                      /\ image.libs[p] # NoFile /\ image.libs[p].bits = 64
  => GlibcPaths # {}

(* Programs find the libraries the mount hook has mounted: ldconfig runs   *)
(* after the last mount, in this hook or in the ldcache hook after it.     *)
MountedLibsAreListed ==
  Created /\ (hasLdconfig \/ (Before("mount", "ldcache") /\ ~emptyPath)) =>
    \A p \in Paths :
      /\ p.dir \in LinkerDirs
      /\ libs[p] # NoFile /\ libs[p].origin = "mount hook"
      => p \in cache

\* Where the container's libfabric looks for providers.
ProviderDirs ==
  LET fabrics == UNION {LoaderFinds(n) : n \in FabricNames}
  IN  IF fiProviderPath # None THEN {fiProviderPath}
      ELSE IF fabrics # {} THEN {FabricDir[p.dir] : p \in fabrics}
      ELSE {UsrLib}

(* The mount hook puts providers where the libfabric that programs load    *)
(* will look for them, though the cache may list a libfabric that is gone: *)
(* what the hook read when it parsed its arguments still holds when all    *)
(* mounts are made.  Not so if the cache misses a libfabric and no ldcache *)
(* hook has come first, or if one of the mounts brings another libfabric.  *)
ProvidersWhereLibfabricLooks ==
  /\ Created
  /\ \/ Before("ldcache", "mount") /\ ~emptyPath
     \/ \A p \in Paths : image.libs[p] # NoFile /\ p.name \in FabricNames
                        => p \in image.cache
  /\ hasLdconfig /\ ~listFailed
  /\ \A i \in DOMAIN mounts : mounts[i].name \notin FabricNames
  => \A i \in DOMAIN mounts :
       mounts[i].dir = Wildcard =>
         \E d \in ProviderDirs :
           libs[[dir |-> d, name |-> mounts[i].name]] # NoFile

(* A device in a container that starts can be used: whichever hook mounts  *)
(* it, its cgroup allows it.  Before that, at most one device is mounted   *)
(* and not allowed.                                                        *)
DevicesUsable ==
  /\ Created => devices \subseteq allowed
  /\ \A d, e \in devices \ allowed : d = e

(* The cards a container may see: those in ROCR_VISIBLE_DEVICES; but all   *)
(* cards of the host if the variable is empty and, since the hook goes on  *)
(* after that error, if the environment cannot be parsed, whatever it asks *)
(* for.                                                                    *)
AskedFor == IF visible = <<>> \/ ~envParses THEN byPath ELSE ToSet(visible)

(* The AMD GPU hook is all or nothing: it gives a container no device      *)
(* unless every card asked for is there with its render device; then it    *)
(* gives it no other card, and once it has /dev/kfd it has every one of    *)
(* them, each with its own render device.                                  *)
GpusAreTheVisibleOnes ==
  LET given == devices \ ToSet(deviceMounts)
  IN  /\ given # {} => byPath # None /\ AskedFor \subseteq byPath
      /\ \A g \in Gpus : given \cap {Card(g), Render(g)} # {} => g \in AskedFor
      /\ Kfd \in given =>
           \A g \in AskedFor : {Card(g), Render(g)} \subseteq devices

(* Either the PMIx hook has left the container alone, or the container     *)
(* starts with one appdir and the pmix directory, though slurmd may make   *)
(* and remove them meanwhile.                                              *)
PmixAllOrNothing ==
  Created => \/ mounted = {}
             \/ \E d \in {AppdirOfUser, Appdir} : mounted = {d, PmixDir}

-----------------------------------------------------------------------------
(* What some theorems ask of the scenarios.                                *)

\* The command line of the mount hook does not replace the host's libc.
HostLibcs == {h \in ToSet(HostLibs) : h.file \in LibcNames}
HostLibcNames == {h.file : h \in HostLibcs} \cup {h.soname : h \in HostLibcs}
MountsSpareLibc(s) ==
  \A m \in ToSet(s.mounts) \ {Malformed} : m.name \notin HostLibcNames

\* A command line belongs to a hook that is configured.
MountsHaveTheirHook(s) == s.mounts # <<>> => "mount" \in ToSet(s.order)

\* The mount hook does not ask whether a libfabric is one for 64-bit programs.
FabricsAre64Bit(s) ==
  \A p \in Paths : p.name \in FabricNames /\ s.libs[p] # NoFile => s.libs[p].bits = 64

\* Libfabric is not among the libraries of glibc.
GlibcHasNoFabric == \A h \in ToSet(HostLibs) : {h.file, h.soname} \cap FabricNames = {}
=============================================================================
