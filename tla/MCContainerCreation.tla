------------------------ MODULE MCContainerCreation ------------------------
(* Instances of ContainerCreation for TLC. *)
EXTENDS ContainerCreation

TheDirs == {"lib64", "usrlib", "opt", "lib32", "fi", "opt/libfabric",
            "usrlib/libfabric"}
TheLinkerDirs == {"lib64", "usrlib", "opt", "lib32"}
TheDefaultDirs == {"lib64", "usrlib"}
TheNames == {"libc", "libc5", "libm", "librt", "rt-2.31", "libfabric",
             "provider"}
TheFabricDir == [d \in TheLinkerDirs |->
                   IF d = "opt" THEN "opt/libfabric" ELSE "usrlib/libfabric"]
TheGpus == {0, 1, 2}
TheDevices == {Card(g) : g \in TheGpus} \cup {Render(g) : g \in TheGpus}
              \cup {Kfd, <<"fuse">>}
TheHostDirs == {AppdirOfUser, Appdir, PmixDir}

TheHostLibs == <<[file |-> "libc", soname |-> "libc"],
                 [file |-> "libm", soname |-> "libm"],
                 [file |-> "rt-2.31", soname |-> "librt"]>>
TheHostVersion == <<2, 31>>
TheAbsoluteLinks == {[dir |-> "usrlib", name |-> "libc"]}

-----------------------------------------------------------------------------
(* What does not matter to a scenario. *)
Plain == [order |-> <<>>, emptyPath |-> FALSE,
          libs |-> [p \in Paths |-> NoFile], hasCache |-> FALSE, cache |-> {},
          version |-> None,
          mounts |-> <<>>, deviceMounts |-> <<>>, hasLdconfig |-> FALSE,
          fiProviderPath |-> None,
          byPath |-> {}, visible |-> <<>>, envParses |-> TRUE,
          hasKfd |-> FALSE,
          slurm |-> [scontrol |-> FALSE, mpiType |-> "none",
                     pmixVariable |-> FALSE, jobUid |-> FALSE, ids |-> FALSE,
                     spoolDir |-> FALSE, tmpFS |-> FALSE],
          present |-> {}]

(* Images: where their libraries are, and what the cache lists. *)
At(d, n) == [dir |-> d, name |-> n]
Own(p, bits) == [origin |-> "image", soname |-> p.name, bits |-> bits]
Layout(ps64, ps32) ==
  [p \in Paths |-> IF p \in ps64 THEN Own(p, 64)
                   ELSE IF p \in ps32 THEN Own(p, 32) ELSE NoFile]

Layouts ==
  {Layout({}, {At("lib32", "libc"), At("lib32", "libm")}),
   Layout({At("lib64", "libc"), At("opt", "libm"), At("usrlib", "libm")},
          {At("lib32", "libc"), At("lib32", "libm")}),
   Layout({At("usrlib", "libc"), At("opt", "libc"), At("opt", "libfabric")}, {}),
   Layout({At("lib64", "libc"), At("usrlib", "librt"),
           At("usrlib", "libfabric")}, {}),
   Layout({At("lib64", "libc5")}, {})}

(* A current cache, an empty one, one from before /opt was filled, one that
   lists what has since been removed. *)
Listed(l, ds) == {p \in Paths : p.dir \in ds /\ l[p] # NoFile}
Caches(l) == {Listed(l, TheLinkerDirs), {}, Listed(l, {"lib64", "usrlib"}),
              Listed(l, TheLinkerDirs) \cup {At("usrlib", "libm"),
                                             At("lib64", "libfabric")}}

Images ==
  UNION {{[Plain EXCEPT !.libs = l, !.hasCache = c # {}, !.cache = c,
                        !.version = v] :
            c \in Caches(l), v \in {<<2, 9>>, <<2, 31>>, <<3, 0>>, None}} :
         l \in Layouts}

Provider == At(Wildcard, "provider")

GlibcScenarios ==
  {[i EXCEPT !.order = o, !.mounts = m, !.hasLdconfig = l, !.emptyPath = e] :
     i \in Images,
     o \in {<<"ldcache", "mount", "glibc">>, <<"mount", "ldcache", "glibc">>,
            <<"mount", "glibc", "ldcache">>, <<"glibc", "mount">>},
     m \in {<<>>, <<At("opt", "libm")>>, <<At("lib64", "libm"), Provider>>},
     l \in BOOLEAN, e \in BOOLEAN}

MountScenarios ==
  {[i EXCEPT !.order = o, !.mounts = m, !.hasLdconfig = l, !.emptyPath = e,
             !.fiProviderPath = f] :
     i \in {j \in Images : j.version = None},
     o \in {<<"ldcache", "mount">>, <<"mount", "ldcache">>},
     m \in {<<Provider>>, <<At("lib64", "libm"), Provider>>,
            <<At("usrlib", "libfabric"), Provider>>, <<Provider, Malformed>>},
     l \in BOOLEAN, e \in BOOLEAN, f \in {None, "fi"}}

DeviceScenarios ==
  {[Plain EXCEPT !.order = o, !.deviceMounts = d, !.byPath = b, !.visible = v,
                 !.envParses = e, !.hasKfd = k] :
     o \in {<<"mount", "amdgpu">>, <<"amdgpu", "mount">>},
     d \in {<<>>, << <<"fuse">> >>, << <<"fuse">>, Render(1) >>, <<Malformed>>},
     b \in (SUBSET TheGpus) \cup {None},
     v \in {<<>>, <<0>>, <<2, 1>>, <<1, 1, 0>>}, e \in BOOLEAN, k \in BOOLEAN}

PmixScenarios ==
  {[Plain EXCEPT !.order = <<"pmix">>, !.slurm = s, !.present = p] :
     s \in SlurmEnvs, p \in SUBSET TheHostDirs}

AllHooks == {[i EXCEPT !.order = <<"mount", "ldcache", "glibc", "amdgpu", "pmix">>,
                       !.mounts = <<At("opt", "libm"), Provider>>,
                       !.deviceMounts = << <<"fuse">> >>,
                       !.byPath = {0, 1}, !.visible = v, !.hasKfd = TRUE,
                       !.slurm = [scontrol |-> TRUE, mpiType |-> "pmix_v4",
                                  pmixVariable |-> TRUE, jobUid |-> TRUE,
                                  ids |-> TRUE, spoolDir |-> TRUE,
                                  tmpFS |-> TRUE],
                       !.present = TheHostDirs] :
               i \in {j \in Images : j.version = <<2, 9>>}, v \in {<<>>, <<1>>}}

TheScenarios ==
  GlibcScenarios \cup MountScenarios \cup DeviceScenarios \cup PmixScenarios
    \cup AllHooks

ASSUME ScenariosAreOrdinary ==
  /\ \A s \in TheScenarios : /\ MountsSpareLibc(s) /\ MountsHaveTheirHook(s)
                             /\ FabricsAre64Bit(s)
  /\ GlibcHasNoFabric
=============================================================================
