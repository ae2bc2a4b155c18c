------------------------------ MODULE MpiHook ------------------------------
(***************************************************************************)
(* The MPI hook (src/mpi/MpiHook.cpp): it compares the host's MPI          *)
(* libraries with the container's, mounts each host library over its       *)
(* counterpart or into /lib, and points the symlinks of /lib and /lib64 at *)
(* it.                                                                     *)
(*                                                                         *)
(* A version is a sequence of numbers; a path is a directory, a linker     *)
(* name and the version in the file's name.  The container's file system   *)
(* maps a path to nothing, a file (with its origin and version) or a link. *)
(* Operators named Bad... are faulty variants of the one that follows.     *)
(***************************************************************************)
EXTENDS SharedLibrary, SequencesExt

CONSTANTS
  Dirs,        \* directories of the container that may hold libraries
  Local,       \* the ones ld.so does not search by default
  Names,       \* linker names
  Versions,    \* versions, as sequences of at most two numbers
  Layouts,     \* the container's file systems before the hook runs
  MpiLibs,     \* values of MPI_LIBS
  DepLibs,     \* values of MPI_DEPENDENCY_LIBS
  MaxHops      \* bound on the links of a chain

ASSUME MpiAssumption ==
  /\ {"lib", "lib64"} \subseteq Dirs
  /\ Local \subseteq Dirs \ {"lib", "lib64"}
  /\ MaxHops \in Nat \ {0}
  /\ IsFiniteSet(Dirs) /\ IsFiniteSet(Names) /\ IsFiniteSet(Versions)
  /\ \A v \in Versions : /\ v \in Seq(Nat) /\ Len(v) <= 2
                        /\ \A n \in 0..Len(v) : SubSeq(v, 1, n) \in Versions

VARIABLES
  conf,           \* the environment: mpi, deps, checker, allowed directories
  fs,             \* the container's files
  mountPoints,    \* files of the container that are mount points
  hostToContainerLibs,  \* the container's libraries, by linker name
  todo,           \* host libraries still to inject, with their checker
  links,          \* what createSymlinks... has still to do
  pc, status

vars == <<conf, fs, mountPoints, hostToContainerLibs, todo, links, pc, status>>

-----------------------------------------------------------------------------
(* Paths and files.                                                        *)

Path == [dir : Dirs, name : Names, ver : Versions]
In(dir, name, ver) == [dir |-> dir, name |-> name, ver |-> ver]

Absent == [is |-> "absent"]
File(origin, ver) == [is |-> "file", origin |-> origin, ver |-> ver]
Link(path) == [is |-> "link", to |-> path]

Entry == {Absent} \cup {File(o, v) : o \in {"host", "container"}, v \in Versions}
                  \cup {Link(p) : p \in Path}

\* What MPI_LIBS and the container's image may hold.
HostLibrary == [name : Names, file : Versions, ver : Versions]

ASSUME InputsAssumption ==
  /\ MpiLibs \cup DepLibs \subseteq Seq(HostLibrary)
  /\ Layouts \subseteq [Path -> Entry]
  /\ \A files \in Layouts : \A p \in Path :
       files[p].is = "file" => files[p].origin = "container"

Hop(files, p) == IF files[p].is = "link" THEN files[p].to ELSE p

\* The paths on p's chain of links, and its end (a link: there is a loop).
After(files, p) ==
  LET after[n \in 0..MaxHops] == IF n = 0 THEN p ELSE Hop(files, after[n - 1])
  IN  after
Chain(files, p) == {After(files, p)[n] : n \in 0..MaxHops}
RealPath(files, p) == After(files, p)[MaxHops]
Content(files, p) == files[RealPath(files, p)]
Resolves(files, p) == Content(files, p).is = "file"

-----------------------------------------------------------------------------
(* Libraries.  A host library is [name, file, ver]: the version in its file*)
(* name and the one its symlinks resolve to.                               *)

SharedLib(name, ver) ==
  [name  |-> name,
   major |-> IF Len(ver) > 0 THEN ver[1] ELSE Missing,
   minor |-> IF Len(ver) > 1 THEN ver[2] ELSE Missing,
   patch |-> Missing]

HostLib(h) == SharedLib(h.name, h.ver)

\* The longest version among the names on the chain of links.
ResolvedVersion(files, p) ==
  CHOOSE v \in {q.ver : q \in Chain(files, p)} :
    \A q \in Chain(files, p) : Len(q.ver) <= Len(v)

ContainerLib(files, p) ==
  LET lib == SharedLib(p.name, ResolvedVersion(files, p))
  IN  [name |-> lib.name, major |-> lib.major, minor |-> lib.minor,
       patch |-> lib.patch, path |-> p]

Candidates(h) == hostToContainerLibs[h.name]

Elems(s) == {s[i] : i \in DOMAIN s}

BadHasIncompatibleVersion(h) ==
  LET best == PickNewestAbiCompatibleLibrary(HostLib(h), Candidates(h))
  IN  Candidates(h) # <<>> /\ ~AreFullAbiCompatible(HostLib(h), best)

HasIncompatibleVersion(h) ==
  \E c \in Elems(Candidates(h)) :
    HasMajorVersion(c) /\ ~AreFullAbiCompatible(HostLib(h), c)

-----------------------------------------------------------------------------
(* The hook.                                                               *)

\* "The HOST is configured to have only 1 version of each library."
OneVersionOfEach(libs) ==
  \A i, j \in DOMAIN libs : libs[i].name = libs[j].name => i = j

Init ==
  /\ conf \in [mpi : MpiLibs, deps : DepLibs, checker : CheckerTypes,
               allowed : {Dirs, Dirs \ {"lib64"}}]
  /\ OneVersionOfEach(conf.mpi \o conf.deps)
  /\ fs \in Layouts
  /\ mountPoints = {} /\ hostToContainerLibs = [n \in Names |-> <<>>]
  /\ todo = <<>> /\ links = <<>>
  /\ pc = "construct" /\ status = "running"

Stop(result) == pc' = "end" /\ status' = result

\* ldconfig lists the libraries in some order; dangling links are skipped.
Listings(name) ==
  LET listed == {p \in Path : p.name = name /\ Resolves(fs, p)}
  IN  {[i \in DOMAIN order |-> ContainerLib(fs, order[i])] : order \in SetToSeqs(listed)}

Construct ==
  /\ pc = "construct"
  /\ hostToContainerLibs' \in
       {f \in [Names -> UNION {Listings(n) : n \in Names}] :
          \A n \in Names : f[n] \in Listings(n)}
  /\ pc' = "check"
  /\ UNCHANGED <<conf, fs, mountPoints, todo, links, status>>

\* What the constructor reads is missing or malformed, or ldconfig fails.
ConstructFails ==
  /\ pc = "construct"
  /\ \E result \in {"failed", "terminated"} : Stop(result)
  /\ UNCHANGED <<conf, fs, mountPoints, hostToContainerLibs, todo, links>>

HostMpiLibs == Elems(conf.mpi)

CheckHostMpiLibrariesHaveAbiVersion ==
  \A h \in HostMpiLibs : HasMajorVersion(HostLib(h))

CheckContainerMpiLibrariesHaveAbiVersion ==
  \A h \in HostMpiLibs :
    Candidates(h) # <<>> => \E c \in Elems(Candidates(h)) : HasMajorVersion(c)

\* The loop returns after the first library.
BadCheckHostContainerAbiCompatibility ==
  \A c \in Elems(Candidates(Head(conf.mpi))) :
    Check(conf.checker, HostLib(Head(conf.mpi)), c) # "throw"

CheckHostContainerAbiCompatibility ==
  \A h \in HostMpiLibs : \A c \in Elems(Candidates(h)) :
    Check(conf.checker, HostLib(h), c) # "throw"

ChecksPass ==
  /\ \E h \in HostMpiLibs : Candidates(h) # <<>>
  /\ CheckHostMpiLibrariesHaveAbiVersion
  /\ CheckContainerMpiLibrariesHaveAbiVersion
  /\ CheckHostContainerAbiCompatibility

BadRefuse ==
  /\ pc = "check" /\ ~ChecksPass
  /\ pc' = "inject" /\ status' = "refused"
  /\ UNCHANGED <<conf, fs, mountPoints, hostToContainerLibs, todo, links>>

Refuse ==
  /\ pc = "check" /\ ~ChecksPass
  /\ Stop("refused")
  /\ UNCHANGED <<conf, fs, mountPoints, hostToContainerLibs, todo, links>>

WithChecker(libs, type) == [i \in DOMAIN libs |-> [lib |-> libs[i], checker |-> type]]

Accept ==
  /\ pc = "check" /\ ChecksPass
  /\ todo' = WithChecker(conf.mpi, conf.checker)
             \o WithChecker(conf.deps, "dependencies")
  /\ pc' = "inject"
  /\ UNCHANGED <<conf, fs, mountPoints, hostToContainerLibs, links, status>>

InLib(h) == In("lib", h.name, h.file)

\* createSymlinks...: the links to make in /lib and /lib64, by length of the
\* version in their names, and whether the one without version is kept.
RootLinkExists(files, h) ==
  \E dir \in Dirs \ Local :
    \/ files[In(dir, h.name, <<>>)].is = "link"
    \/ Resolves(files, In(dir, h.name, <<>>))

BadLinkNames(h) == [i \in 1..Len(h.file) |-> SubSeq(h.file, 1, i - 1)]

LinkNames(h) == [i \in 1..(Len(h.file) + 1) |-> SubSeq(h.file, 1, i - 1)]

LinksIn(dir, h, target, preserve) ==
  IF dir \notin conf.allowed THEN <<>>
  ELSE [i \in DOMAIN LinkNames(h) |->
          [link |-> In(dir, h.name, LinkNames(h)[i]), target |-> target,
           keep |-> LinkNames(h)[i] = <<>> /\ preserve]]

LinksFor(files, h, target, preserveRootLink) ==
  LET preserve == preserveRootLink /\ RootLinkExists(files, h)
  IN  LinksIn("lib", h, target, preserve) \o LinksIn("lib64", h, target, preserve)

\* validatedBindMount follows the links of the destination.
BindMount(h, dest, preserveRootLink) ==
  LET real == RealPath(fs, dest) IN
  /\ real.dir \in conf.allowed
  /\ fs' = [fs EXCEPT ![real] = File("host", h.ver)]
  /\ mountPoints' = mountPoints \cup {real}
  /\ links' = LinksFor(fs', h, dest, preserveRootLink)
  /\ todo' = Tail(todo)
  /\ pc' = "link"

Injecting(h, type) ==
  pc = "inject" /\ todo # <<>> /\ h = Head(todo).lib /\ type = Head(todo).checker

BestCandidate(h) == PickNewestAbiCompatibleLibrary(HostLib(h), Candidates(h))
Verdict(h, type) == Check(type, HostLib(h), BestCandidate(h))

InjectNew(h, type) ==
  /\ Injecting(h, type) /\ Candidates(h) = <<>>
  /\ BindMount(h, InLib(h), FALSE)
  /\ UNCHANGED <<conf, hostToContainerLibs, status>>

\* Over the best candidate if the checker has nothing to say, else beside it.
InjectExisting(h, type) ==
  /\ Injecting(h, type) /\ Candidates(h) # <<>>
  /\ \/ /\ Verdict(h, type) = "throw"
        /\ Stop("refused")
        /\ UNCHANGED <<fs, mountPoints, links, todo>>
     \/ /\ Verdict(h, type) = "yes"
        /\ BindMount(h, BestCandidate(h).path, HasIncompatibleVersion(h))
        /\ UNCHANGED status
     \/ /\ Verdict(h, type) \in {"no", "warn"}
        /\ BindMount(h, InLib(h), Verdict(h, type) = "no" \/ HasIncompatibleVersion(h))
        /\ UNCHANGED status
  /\ UNCHANGED <<conf, hostToContainerLibs>>

\* A mount fails: no access to the source, or a destination off the rootfs.
MountFails ==
  /\ pc = "inject" /\ todo # <<>>
  /\ Stop("failed")
  /\ UNCHANGED <<conf, fs, mountPoints, hostToContainerLibs, todo, links>>

BadSkipsLink(l) == l.keep

SkipsLink(l) ==
  \/ RealPath(fs, l.link) = RealPath(fs, l.target)
  \/ l.keep

SkipLink ==
  /\ pc = "link" /\ links # <<>> /\ SkipsLink(Head(links))
  /\ links' = Tail(links)
  /\ UNCHANGED <<conf, fs, mountPoints, hostToContainerLibs, todo, pc, status>>

Removes(l) == pc = "link" /\ links # <<>> /\ l = Head(links) /\ ~SkipsLink(l)

\* remove and create_symlink; a mount point cannot be removed.
MakeLink ==
  \E l \in Elems(links) :
    /\ Removes(l) /\ l.link \notin mountPoints
    /\ fs' = [fs EXCEPT ![l.link] = Link(l.target)]
    /\ links' = Tail(links)
    /\ UNCHANGED <<conf, mountPoints, hostToContainerLibs, todo, pc, status>>

\* The link cannot be made, because of its directory or by boost's exception,
\* which main does not catch; what had the name may be gone by then.
LinkFails ==
  /\ pc = "link" /\ links # <<>>
  /\ \/ \E result \in {"failed", "terminated"} : Stop(result) /\ UNCHANGED fs
     \/ \E l \in Elems(links) :
          /\ Removes(l) /\ l.link \notin mountPoints
          /\ fs' = [fs EXCEPT ![l.link] = Absent]
          /\ Stop("terminated")
  /\ UNCHANGED <<conf, mountPoints, hostToContainerLibs, todo, links>>

LinksDone ==
  /\ pc = "link" /\ links = <<>>
  /\ pc' = "inject"
  /\ UNCHANGED <<conf, fs, mountPoints, hostToContainerLibs, todo, links, status>>

\* performBindMounts (devices are also whitelisted in the cgroup), ldconfig -r.
PerformBindMounts ==
  /\ pc = "inject" /\ todo = <<>>
  /\ pc' = "ldconfig"
  /\ UNCHANGED <<conf, fs, mountPoints, hostToContainerLibs, todo, links, status>>

PerformBindMountsFails ==
  /\ pc = "inject" /\ todo = <<>>
  /\ Stop("failed")
  /\ UNCHANGED <<conf, fs, mountPoints, hostToContainerLibs, todo, links>>

Ldconfig ==
  /\ pc = "ldconfig"
  /\ \E result \in {"done", "failed"} : Stop(result)
  /\ UNCHANGED <<conf, fs, mountPoints, hostToContainerLibs, todo, links>>

Ended == pc = "end" /\ UNCHANGED vars

Inject == \E h \in HostMpiLibs \cup Elems(conf.deps), type \in CheckerTypes :
            InjectNew(h, type) \/ InjectExisting(h, type)

Next ==
  \/ Construct \/ ConstructFails \/ Refuse \/ Accept
  \/ Inject \/ MountFails
  \/ SkipLink \/ MakeLink \/ LinkFails \/ LinksDone
  \/ PerformBindMounts \/ PerformBindMountsFails \/ Ldconfig
  \/ Ended

Spec == Init /\ [][Next]_vars

-----------------------------------------------------------------------------
HostLibs == HostMpiLibs \cup Elems(conf.deps)

TypeOK ==
  /\ fs \in [Path -> Entry] /\ mountPoints \subseteq Path
  /\ \A n \in Names : \A c \in Elems(hostToContainerLibs[n]) : c.path \in Path
  /\ Elems(todo) \subseteq [lib : HostLibs, checker : CheckerTypes]
  /\ \A l \in Elems(links) : {l.link, l.target} \subseteq Path
  /\ pc \in {"construct", "check", "inject", "link", "ldconfig", "end"}
  /\ status \in {"running", "refused", "failed", "terminated", "done"}
  /\ pc = "end" <=> status # "running"

\* The library of the container still has the name under which it was found.
Untouched(c) ==
  /\ Resolves(fs, c.path)
  /\ Content(fs, c.path).origin = "container"
  /\ RealName(SharedLib(c.name, Content(fs, c.path).ver)) = RealName(c)

(* A refusal on ABI grounds comes before anything is mounted: the checks   *)
(* of activateMpiSupport leave nothing for injectHostLibrary to refuse,    *)
(* whichever candidate it picks.                                           *)
RefusalLeavesContainerAlone ==
  status = "refused" =>
    /\ mountPoints = {}
    /\ \A p \in Path : Resolves(fs, p) => Content(fs, p).origin = "container"

\* No library of the container needs the unversioned link for itself.
RootLinkIsFree(h) ==
  \/ Candidates(h) = <<>>
  \/ /\ ~HasIncompatibleVersion(h)
     /\ AreMajorAbiCompatible(HostLib(h), BestCandidate(h))

(* When the hook ends well, every versioned name of a host library leads   *)
(* to it in /lib and /lib64, and the unversioned one too if no version in  *)
(* the container is incompatible.                                          *)
InjectedLibsAreLinked ==
  status = "done" =>
    \A h \in HostLibs : \A dir \in {"lib", "lib64"} \cap conf.allowed :
      \A n \in 0..Len(h.file) :
        n > 0 \/ RootLinkIsFree(h) =>
          Content(fs, In(dir, h.name, SubSeq(h.file, 1, n))) = File("host", h.ver)

(* Whatever is injected and wherever it stops, an application of the       *)
(* container that uses another major number of the library still finds it  *)
(* under every name it had, provided the host's file name has a version.   *)
OtherMajorsKeepTheirNames ==
  \A h \in HostLibs : \A c \in Elems(Candidates(h)) :
    /\ h.file # <<>> /\ HasMajorVersion(c)
    /\ c.major # HostLib(h).major
    => Untouched(c)

(* The links of a library never replace a mount point, its own included,   *)
(* though the names to link and the libraries already mounted may be led   *)
(* to one another by the image's links and by those made before: the hook  *)
(* does not stop half-way because what it has mounted itself is in the way.*)
MountPointsAreNotRemoved ==
  \A l \in Elems(links) : Removes(l) => l.link \notin mountPoints

-----------------------------------------------------------------------------
(* What some theorems ask of the container's image.                        *)

\* Every name of a library is that of the file it leads to, up to versions.
LinksKeepNames(files) ==
  \A p \in Path : files[p].is = "link" => files[p].to.name = p.name

\* There are no loops, and no chains longer than the hops it takes to follow
\* one that the hook has added a link to.
ChainsAreShort(files) ==
  \A p \in Path : files[After(files, p)[MaxHops - 1]].is # "link"

\* A name has no numbers that its file does not have.
LinksAbbreviate(files) ==
  \A p \in Path : files[p].is = "link" => IsPrefix(p.ver, files[p].to.ver)
FilesAreNamed(files) ==
  \A p \in Path : files[p].is = "file" => files[p].ver = p.ver
HostNamesAbbreviate(libs) ==
  \A h \in Elems(libs) : IsPrefix(h.file, h.ver)
=============================================================================
