# Verification of the sarus-hooks

The sarus-hooks are OCI hooks: small C++ programs that a container engine runs
when a container is created (and sometimes when it has stopped). Each one reads
its configuration from environment variables and the container's bundle, changes
the host or the container's root filesystem, and exits. This directory holds
TLA+ models of them, the TLC configurations that check the models, and TLAPS
proofs about each of them: the barrier of the Slurm hook, the keys of the SSH
hook, its daemon, the MPI hook with its choice of libraries, and the creation of
a container by one hook after another.

Paths below are relative to `src/` (the repository). A line number in a module's
comment or here refers to the commit the models were written from; the table of
definitions and lines is the `map` of `PROJECT.json`.

Contents: [Inventory](#inventory) ·
[Plan](#plan) ·
[Models and code](#models-and-code) ·
[Runs](#runs) ·
[Disagreements found](#disagreements-found) ·
[Bounds](#bounds) ·
[Fairness](#fairness) ·
[Proofs](#proofs) ·
[What is assumed of the environment](#what-is-assumed-of-the-environment) ·
[Not modelled](#not-modelled) ·
[Running it](#running-it)

## Inventory

A hook is sequential. What makes these programs hard is what they share: a
directory on a parallel file system, a user's keys, a pidfile that outlives the
process that wrote it, a container image in which anything may be found.

### Slurm global synchronization (`src/slurm_global_sync`)

*State:* a directory shared by all nodes, with the subdirectories `arrival` and
`departure`, each holding one file per task, named after job id, step id and
procid. *Operations:* `loadConfigs`, `performSynchronization` =
`signalArrival`, poll for `SLURM_NTASKS` entries, `signalDeparture`; procid 0
also polls the departures and runs `cleanupSyncDir` (`remove_all`).
*Interactions:* one process per task and container, on different nodes, and
nothing between them but the files. *Hard:* the interleaving of polling,
creation and piecewise removal; tasks that are killed; files left by an earlier
container of the same step; there is no timeout. *Correct if:* nobody passes the
barrier before everybody has arrived, the removal disturbs nobody, nobody meets
a leftover file, and everybody gets through.

### SSH hook: keys (`src/ssh`, `keygen`, `check-user-has-sshkeys`, and the copy in `start-ssh-daemon`)

*State:* three files in a directory of the user (the server's key, the client's
key, `authorized_keys`), and a lockfile. *Operations:* `generateSshKeys` under
the lock; `checkUserHasSshKeys` and `copySshKeysIntoContainer` without it.
*Interactions:* several `keygen` processes and container launches of one user,
on any node that shares the home directory. *Hard:* readers take no lock; the
old keys go before the new ones exist; `dropbearkey` may fail; a process may
die. *Correct if:* the three files always belong together when nobody is at
work, a working set of keys is never lost without `--overwrite`, and a container
gets matching keys.

### SSH hook: daemon (`src/ssh`, `start-ssh-daemon`)

*State:* the daemon process, its pidfile in the container, the copy of the
pidfile on the host. The latter has a name of its own, made of the container and
the port, unless the annotation `com.hooks.ssh.pidfile_host` gives another: that
file may be there before, and may be that of other containers too.
*Operations:* the set-up in ten steps when the container is created;
`stopSshDaemon` when it has stopped. *Interactions:* two runs of the hook that
share nothing but the host's pidfile; the daemon, which writes its pidfile when
it likes; the kernel, which reuses pids. *Hard:* the race of 50 ms for the
pidfile, pidfiles of older runs and other containers, a copy that fails when the
daemon runs already, pids that mean something else by now, a stop that is interrupted and repeated, the width of the port number. *Correct if:* a
daemon does not outlive its container, and the stop signals that daemon only.

### MPI hook: library versions (`src/mpi/SharedLibrary.cpp`, `AbiChecker.cpp`)

*State:* none: functions of version numbers. *Operations:* three compatibility
relations, four checkers, and `pickNewestAbiCompatibleLibrary`, two loops over
the container's libraries in the order in which ldconfig lists them. *Hard:*
missing numbers, patch numbers, lists in any order. *Correct if:* a compatible
library is never passed over, whatever the order.

### MPI hook: injection (`src/mpi/MpiHook.cpp`)

*State:* the container's `/lib`, `/lib64` and other library directories: files,
links and mount points; the map of libraries made from them at the start.
*Operations:* the checks of `activateMpiSupport`, `injectHostLibrary` for each
MPI and dependency library, `createSymlinksInDynamicLinkerDefaultSearchDirs`,
`performBindMounts`, ldconfig. *Interactions:* with the picks of the previous
component, and with whatever links the image contains: each mount and each link
changes what later paths resolve to, and the map is not refreshed. *Hard:* a
chain of links through which a mount lands somewhere else; a failure between two
libraries. *Correct if:* a refusal leaves the container alone, every name of an
injected library leads to it, applications of the container that use another
ABI keep theirs.

### The hooks that create a container (`src/glibc`, `src/mount`, `src/amdgpu`, `src/pmix`, `src/ldcache`)

*State:* the container's libraries and its `/etc/ld.so.cache`, its device files
and the devices its cgroup allows, the directories mounted into it; of the host,
the cards in `/dev/dri` and the directories that slurmd makes for a step; of a
hook, what it has decided to do and not yet done. *Operations:* every hook first
reads (the bundle, its environment, the cache through ldconfig, versions and
sonames through ldd and readelf, paths through scontrol) and decides, then makes
its changes one call after another: glibc libraries are mounted over their
counterparts; files and devices of the command line are mounted, with a wildcard
for libfabric's providers; cards, render devices and `/dev/kfd` are mounted and
allowed; an appdir and the pmix directory are mounted; ldconfig rewrites the
cache. *Interactions:* the runtime runs the hooks of the createContainer stage
in the order of their configuration files, as separate processes on one
container. The cache that one hook leaves is what the next one believes: the
glibc hook takes a container without a cache for one without glibc, the mount
hook looks for libfabric in it, and a program finds what the cache lists. The
mount hook and the AMD GPU hook share the devices; slurmd works beside the PMIx
hook. *Hard:* caches that are missing or out of date, the order of the hooks, a
failure between two calls, tests whose answer has changed when it is used.
*Correct if:* a container that starts has one glibc, lists what was mounted,
has its providers where libfabric looks, can use each of its devices and sees
just the cards asked for, and has both directories of PMIx or none.

### Other parts

| Part | What it does | Model |
|---|---|---|
| timestamp hook (`src/timestamp`) | appends a line to a log file | none: no state that anything depends on |
| MPS hook (`src/mps`) | starts a daemon of the CUDA driver with one command | none: the test whether it runs is commented out, and so is the stop |
| stdout/stderr test hook | a fixture that prints | none |
| libsarus | a submodule whose directory is empty here | external, where used |
| build, CI, tests | | none |

`PROJECT.json` lists the hazards of this code, each at its line, with the
properties that would catch it, or the reason why none does.

## Plan

Order of modules, the most interacting behaviour first. All of them are written.

1. `StepBarrier`, the abstract barrier, and `SlurmGlobalSync`, which implements
   it; `SlurmGlobalSyncProofs`.
2. `KeySet`, one set of keys made, removed and taken at once, and `SshKeys`, the
   lock and the readers without lock, which implements it; `SshKeysProofs`.
3. `DaemonLife`, the life of one container's daemon, and `SshDaemon`, the two
   runs of the hook around it, which implements it for each container;
   `SshDaemonProofs`.
4. `SharedLibrary`: versions and the choice among candidates, as operators;
   `SharedLibraryProofs`: what the loops of that choice compute.
5. `LibraryChoice`: that choice over every list of candidates;
   `LibraryChoiceProofs`.
6. `MpiHook`: the injection, on top of `SharedLibrary`; `MpiHookProofs` about its
   checks and mounts, and on top of them `MpiLinksProofs` about its links.
7. `Container`: what the other hooks of the createContainer stage have in
   common, and on top of it `GlibcHook`, `MountHook`, `AmdGpuHook`, `PmixHook`.
8. `ContainerCreation`: these hooks and the ldcache hook in one order after
   another on one container; `ContainerCreationProofs`.

`ContainerCreation` does not contain the MPI hook, whose model is about chains
of links between libraries; in `Container` each library is a path of its own.

Every safety property that a passing run checks is stated by a theorem as well,
and so are the three refinements; liveness stays with TLC (see
[Left to TLC](#left-to-tlc)). Of the liveness properties about the barrier, the
keys and the daemon, the safety half is proved too (`WaitingIsForEver`,
`KeysAreForEver`, `GoneForGood`): what they say is reached is never left.

## Models and code

| Module | Models | Is used by |
|---|---|---|
| `StepBarrier` | what the barrier promises, no code | `SlurmGlobalSync` (`INSTANCE`) |
| `SlurmGlobalSync` | `slurm_global_sync/Hook.cpp`, `main.cpp` | `MCSlurmGlobalSync`, `SlurmGlobalSyncProofs` |
| `SlurmGlobalSyncProofs` | theorems | |
| `KeySet` | what the keys promise, no code | `SshKeys` (`INSTANCE`) |
| `SshKeys` | `ssh/SshHook.cpp`: keys | `MCSshKeys`, `SshKeysProofs` |
| `SshKeysProofs` | theorems | |
| `DaemonLife` | what the life of one daemon promises, no code | `SshDaemon` (`INSTANCE`) |
| `SshDaemon` | `ssh/SshHook.cpp`: daemon | `MCSshDaemon`, `SshDaemonProofs` |
| `SshDaemonProofs` | theorems | |
| `SharedLibrary` | `mpi/SharedLibrary.cpp`, `AbiChecker.cpp` | `LibraryChoice`, `MpiHook`, `SharedLibraryProofs` |
| `SharedLibraryProofs` | lemmas and a theorem about its loops | `LibraryChoiceProofs`, `MpiHookProofs` |
| `LibraryChoice` | every list of candidates for every host version | `LibraryChoiceProofs` |
| `LibraryChoiceProofs` | theorems | |
| `MpiHook` | `mpi/MpiHook.cpp`, `main.cpp` | `MCMpiHook`, `MpiHookProofs` |
| `MpiHookProofs` | theorems | `MpiLinksProofs` |
| `MpiLinksProofs` | theorems | |
| `Container` | the container and the calls that change it | the next four |
| `GlibcHook` | `glibc/GlibcHook.cpp` | `ContainerCreation` |
| `MountHook` | `mount/MountHook.cpp` | `ContainerCreation` |
| `AmdGpuHook` | `amdgpu/AmdGpuHook.cpp` | `ContainerCreation` |
| `PmixHook` | `pmix/PMIxHook.cpp` | `ContainerCreation` |
| `ContainerCreation` | the runtime, all `main.cpp`, `ldcache/LdCacheHook.cpp` | `MCContainerCreation`, `ContainerCreationProofs` |
| `ContainerCreationProofs` | theorems | |

The `MC` modules define the finite sets that the `.cfg` files assign. Operators
named `Bad...` are faulty variants of the definition that follows them, in the
way a programmer might have got it wrong; no specification uses them. They
exist to see that a property fails once the code is wrong.

### SlurmGlobalSync

One action per call on the shared directory, because two nodes may interleave
there: `Check` (the test in `createSyncFile`), `MakeDirs` and `Touch` (the two
halves of `createFileIfNecessary`), `WaitOver` and `PollFails` (the polling
loops), `SweepOpen`, `SweepDir`, `SweepFile`, `SweepRmdir`, `SweepEnd`
(`remove_all`, which lists and unlinks one entry at a time; an entry created
after the listing began may be seen or not). The same actions serve both phases:
`phase` is `"arrival"` or `"departure"` and indexes the directory. A poll that
sees too few entries changes nothing and is a stuttering step. `Launch` is the
engine starting the hook for the next container of the task, `Kill` a process
dying between two calls. `Parse` is everything before the first call: a task
whose container lacks the `SLURM_*` variables is disabled there (and then drops
its privileges to a user id nobody has set, which may succeed or fail).

`signalled` is a history variable: for which container a task last made its
file. `sweep` is the local state of `remove_all`.

`StepBarrier` has four sets of tasks or flags: who has arrived, who has passed,
whether the clean-up has begun, who was lost. Under the refinement mapping at
the end of `SlurmGlobalSync` (`ArrivedSet`, `PassedSet`, `CleaningUp`,
`LostSet`) every step of the files is a step of the barrier or a stutter.

### SshKeys

One action per operation on one file. The content of a file is the set of keys
in it, a key is the process that made it, so that "the files belong together" is
visible: `content[f] = {k}`. `Acquire` … `AppendPublicKey` are `generateSshKeys`
in its order: lock, test, `remove_all`, the server's key, the client's key,
printing the public half, creating an empty `authorized_keys`, appending.
`KeygenFails` is every place where `executeCommand` or the parsing of its output
throws; the lock's destructor then releases it. `Start`, `CheckFile`, `CopyFile`
and `AuthorizeKey` are a container launch, which may or may not have been
preceded by `check-user-has-sshkeys`. A killed process may or may not release
the lock: that is up to libsarus, and both are considered. `seen` and
`disturbed` are history variables: whether the check was positive, and whether a
keygen held the lock while the launch was at work.

`KeySet` has three variables: whose keys the user has (or none), who has made a
set, and what each launch has taken. Under the refinement mapping at the end of
`SshKeys`, the user has the keys of `k` if the three files are there and each
holds just the key of `k` (`CurrentKeys`); those who have made a set are the
keygens that report `"generated"`; and a launch has taken keys if it succeeded
undisturbed and its three files are of one keygen (`KeysTaken`). Files without
their counterparts are no set, so that what a keygen leaves which fails or dies is
nothing. A launch that a keygen disturbs may copy anything, and `KeySet` says
nothing of it.

### SshDaemon

`SetUpSteps` names the ten things `startStopSshDaemon` does; two of them
(starting Dropbear, copying the pidfile) are actions of their own, the others
touch only files of the container that no property mentions and share `SetUp`
and `SetUpFails`. `WritePidfile` is the daemon's own step: `Slow` daemons may
not have taken it when the 50 ms are over, and a daemon that joined the
container's namespaces writes the pid it has there (`PidSeen`). `CopyFails` is
`copyFile` throwing, before, between or after its removal of the old file and its
copy: the daemon runs, and the hook ends.

`hostfile` maps the names a pidfile may have on the host to contents: the paths
of annotations (`HostPaths`), and a pair of container and port for each generated
name. `NameOf(c)` is the name a run of `c`'s hook takes, with the port that this
run has found; `PidfileHost` says whose annotation names which path, so that
containers may share one, and a path in `OldHostfiles` has a pidfile from the
beginning. The properties that depend on whose pid a file holds are about
containers that are `Trusted`: no other container has their annotated path, and
what lay there, or in the image, is replaced for sure, because the daemon writes
its pidfile in time and the copy does not fail. That another container shares
its files with a third, overwrites them and signals the wrong daemon is part of
the behaviours all the same, and must not harm the claims about this one.

`BeginStop`, `ReadPidfile`,
`RemovePidfile` and `KillDaemon` / `KillOther` / `KillNobody` are the stop; the
three last ones are one line of code, `kill(getpgid(pid), SIGTERM)`, by what
the pid stands for at that moment. `DaemonDies` and `OtherProcess` let the
kernel reuse pids. The port is an integer that passes through
`std::uint16_t` (`Narrow`), and starts as one of `Garbage`, since `serverPort`
has no initial value.

`DaemonLife` has, for one container, the daemon (`"none"` yet, `"running"`,
`"ended"`), whether the container lives, and whether the last stop has reported
success. The mapping (`DaemonOf`) reads the first one off the process table and
the progress of the set-up: no process is `"none"` as long as the hook may still
launch it, and `"ended"` afterwards. There is one instance for each container,
`Daemon(c)`, and a step of the hooks and the host is a step or a stutter of
that of every `Trusted` container.

### SharedLibrary and LibraryChoice

Optional numbers are integers with `Missing = -1`, which orders as
`boost::optional<int>` does. A checker returns one of four verdicts: the pairs
`(true, none)`, `(true, message)`, `(false, message)`, and an exception. The two
loops of `pickNewestAbiCompatibleLibrary` are functions of the number of
iterations made, `OldestAfter` and `BestAfter`; `OldestStep` and `BestStep` are
the bodies of the loops. `LibraryChoice` grows a list of candidates for a host version one
library at a time, so that a run visits every list in every order.

### MpiHook

A file system maps paths (directory, linker name, version) to a file with its
origin, a link, or nothing. `RealPath` follows links; `BindMount` is
`validatedBindMount`, which replaces what the destination resolves to.
`Construct` makes the map of the container's libraries, in any order per linker
name, and `ConstructFails` is everything that may throw on the way there.
`Refuse` and `Accept` are `activateMpiSupport` up to its loop,
`InjectNew` and `InjectExisting` are `injectHostLibrary`, `SkipLink` and
`MakeLink` one iteration of `createSymlinks...`; `LinkNames` are the names it goes
through, `LinksIn` the links of these names in one directory, and `LinksFor` those
of both directories, made when the mount is and worked off one by one. `LinkFails` is an iteration that ends the hook: the directory cannot be made, what
has the name cannot be removed, or it is removed and the link cannot be made.
`MountFails`, `PerformBindMountsFails` and `Ldconfig` are the other
places where something outside the hook fails. `"terminated"` is an exception
that is not a `libsarus::Error`, which `main` does not catch. `Removes(l)` is the
state just before the code removes what has the name of `l`, and
`MountPointsAreNotRemoved` is about that: the removal may fail for other reasons,
but never because the hook has itself mounted something there.

### Container and ContainerCreation

A hook is modelled in two halves. The first step of its turn (`Mount`,
`LdCache`, `Glibc`, `AmdGpu`, `Pmix`) is everything it reads and decides: it
either ends the creation (`Throw`) or leaves its decisions in `plan`, the
sequence of calls that change the container. Nothing another hook does can come
between these reads, since the hooks run one at a time; slurmd, which does run
meanwhile, changes only what is read once. The calls of the plan are then steps
of their own (`BindMount`, `DeviceMount`, `WhitelistDevice`, `DirectoryMount`,
`Ldconfig`), before each of which the hook may fail or be killed (`CallFails`),
up to `Return`. A mount over several counterparts is one entry of the plan with
a set of paths, worked off in any order, since ldconfig promises none. Mounting
a device puts the call that allows it in front of the plan. `ReadFails` is a
hook that cannot read its configuration, or a command whose output it needs
that fails. `refused` is an error that `main` catches, `terminated` an exception
it does not.

`LoaderFinds` is what ld.so finds for a program: what the cache lists, otherwise
what the default directories hold. It is not code of the repository, but
the point of the hooks that deal with libraries, so that the properties about
libraries are stated with it.

`image` (what the image contained), `missed` (which libraries the cache lacked
when the glibc hook read it) and `listFailed` (ldconfig failed in the mount hook,
which it takes for an image without libfabric) are history variables.

* `GlibcHook`: `GlibcKept`, `GlibcRefused` and `GlibcReplaced` are the three
  outcomes of `injectGlibcLibrariesIfNecessary`, with the host's and the
  container's libc, versions and sonames; `Replacements` is its last call.
* `MountHook`: `MountPlan` is `activate`; `FiProviderPaths` is what the wildcard
  may stand for.
* `AmdGpuHook`: `VisibleIds` is what the hook takes for the cards asked for,
  which is nothing in particular, hence every card, if the container's
  environment cannot be parsed (`envParses`); `Listings` are the orders in which
  the cards may come, none if one asked for is not in the map;
  `AmdGpuPlan` interleaves cards and render devices and ends with `/dev/kfd`.
* `PmixHook`: `PmixSupported` and `PathsDerived` are the conditions for doing
  something and for not failing, `SlurmdStep` is slurmd.

## Runs

Passing runs:

| Run | Question | Answer |
|---|---|---|
| `SyncOnce` | One container per task, anybody killed anywhere, one perhaps without its variables: is it the barrier, and does everybody get through? | Yes: it implements `StepBarrier`, no hook fails, no waiter loses a file, the tasks do not wait for one another in a circle, and procid 0 succeeds only when the tree has gone for good. Everybody gets through unless a peer is missing; if one is disabled, all others poll for ever |
| `SyncRelaunch` | What survives relaunches, kills and leftovers? | Nobody passes a barrier some task has never reached; the clean-up starts after everybody departed once |
| `SshKeys` | Keygens and a launch race, fail and die? | The files behave as one set of keys, made, removed and taken at once (`KeySet`). The lock keeps the keys whole unless a keygen breaks off; without `--overwrite` working keys stay even then; an undisturbed copy never authorizes a foreign client key; a launch that was checked fails only if a keygen came in between; without failures the user ends up with keys |
| `SshDaemonLife` | Daemons that live until they are stopped? | Each ends with its container, nobody else is signalled, and the host's pidfile names the daemon: with an annotated pidfile, old pidfiles in the image, a port beyond 65535 and a set-up that fails anywhere, also after the daemon was started. Only the daemon whose pidfile could not be copied stays |
| `SshDaemonMortal` | Daemons that die, pids that are reused, stops that are interrupted and repeated, no port configured, an old file under the annotated name? | Each daemon is started at most once, while its container lives, has ended when a stop reports success, and never comes back (`DaemonLife`) |
| `PickLibrary` | Is the right candidate picked? | A fully compatible one is, in any order; otherwise the oldest newer one; the newest older one if there are no patch numbers |
| `MpiInject` | What does the injection leave behind? | No ABI refusal after a mount; every versioned name of an injected library leads to it, and the unversioned one if no other version in the container needs it; other major versions keep all their names, wherever the hook stops; it never has to remove a mount point |
| `CreateContainer` | What do the createContainer hooks leave, one after another, on images with current, missing and outdated caches, when anything may fail? | A container that starts has no mixture of two versions of glibc and, with the ldcache hook first, no older glibc than the host's; its cache lists what was mounted; providers are where its libfabric looks; its devices can be used and its cards are those asked for (all of them, if the hook cannot tell what was asked for), and none where one asked for is missing; PMIx is there entirely or not at all |

Several of these properties hold for reasons that are easy to break. A stop that
did not check for a missing pidfile would report success for a daemon it never
found; a keygen that looked at the keys before it took the lock would destroy
what another has just made; a `remove_all` by procid 0 that did not wait for the
departures would take the directory from under a poller. The faulty variants in
the modules are of this kind, and each property has one that breaks it.

`RefusalLeavesContainerAlone` deserves a word: `injectHostLibrary` checks the
compatibility of a library after earlier libraries have been mounted, and its
checker may throw. The run shows that it never does, because the check of all
candidates at the start covers the one picked later.

The properties of `CreateContainer` name the conditions they need, and each
condition is one the code depends on: `OldGlibcIsReplaced` fails without the
ldcache hook before the glibc hook, because an image whose cache is missing or
lacks its libc is taken for one without glibc; `ProvidersWhereLibfabricLooks`
fails if the cache lacks the image's libfabric, or if one of the mounts is a
libfabric itself; `NoGlibcMixture` allows for a library that the cache did not
list when the hook read it.

### Disagreements found

Each of these runs checks one property that a message, comment or test states,
and TLC finds a behaviour of the code that violates it. The quotations are in
`findings` of `PROJECT.json`.

| Run | Source | What happens |
|---|---|---|
| `SyncStalePass` | `slurm_global_sync/Hook.cpp:118` | Two containers in one step: a file that another task's first container left behind counts as the arrival of its second |
| `SshKeysRefusal` | `ssh/SshHook.cpp:69` | After a keygen died, later ones decline because keys "already exist" that do not work |
| `SshDaemonGone` | `ssh/SshHook.cpp:498` | The daemon died before the stop: `getpgid` returns -1, and `kill(-1, …)` signals every process the hook may signal |
| `PickMajor` | `mpi/SharedLibrary.cpp:88` | An older major version listed first wins over a newer minor version of the host's major |

Some further disagreements were met while modelling and have no run of their
own:

* In a container with newer versions only, "both the libs and symlinks in the
  container remain untouched" (`mpi/test/test_MPIHook.cpp:162`), but
  `mpi/MpiHook.cpp:389` preserves the unversioned link only: `libfoo.so.1`, which
  led to 1.1, leads to the host's 1.0 afterwards.
* "Some systems such as Alpine Linux don't" have glibc, and are told by their
  missing `/etc/ld.so.cache` (`glibc/GlibcHook.cpp:111`). An ldcache hook that
  runs first makes the cache in any image, so that the test no longer tells;
  then only the libraries listed decide.
* The soname of the container's libc is read through a path that is not resolved
  within the container (`glibc/GlibcHook.cpp:209`): behind an absolute link is a
  file of the host, if any (`SonamesRead`).
* A library of the host's glibc without counterpart is added to `/lib64` under
  the name of the host's file (`glibc/GlibcHook.cpp:236`), though programs ask
  for the soname: `NoGlibcMixture` says that it is found only if these are equal.
* A test is called "skip if TmpFS=(null)" (`tests/test_pmix_hook.bats:187`); the
  code throws if TmpFS is not a directory, and the container does not start.
* The AMD GPU hook skips a card whose render link is broken with a warning
  (`amdgpu/AmdGpuHook.cpp:52`), but asking for it ends the hook by an exception
  that its `main` does not catch (`at` in line 97); so does a host
  with `/dev/kfd` and without `/dev/dri/by-path`.
* A second container of a task in one step may also meet its *own* old file,
  which `slurm_global_sync/Hook.cpp:127` calls an internal error: `NoHookFails`
  fails in the instance of `SyncStalePass`.
* With neither `SERVER_PORT` nor `SERVER_PORT_DEFAULT`, the test of
  `ssh/SshHook.cpp:49` reads an uninitialized variable, and the daemon may start
  although the message of line 50 says that a port must be defined.
* With `com.hooks.ssh.pidfile_host` (`ssh/SshHook.cpp:167`) two containers may
  have the same host pidfile. The later daemon's pid replaces the earlier one's,
  so that the first stop signals whichever daemon is named there, removes the
  file and reports success; the other container's stop finds none and fails.
  `StopSignalsOnlyItsDaemon` then fails. The annotation is in no doc,
  and nothing says that such a path must be a container's own; this is why most
  of the claims are about containers that are `Trusted`. An old file of that name
  is replaced, unless the set-up ends before, or the daemon is slow: then a stop
  signals whatever has that pid now.
* If the pidfile cannot be copied (`ssh/SshHook.cpp:475`), the set-up fails with
  the daemon running and, in general, no pidfile on the host: no stop will find
  that daemon (`CopyLost`).
* The AMD GPU hook goes on if it cannot parse the container's environment, with a
  line in the log (`amdgpu/AmdGpuHook.cpp:67`), and then gives the container all
  cards, though `ROCR_VISIBLE_DEVICES` may have asked for some. `AskedFor` says
  so: `GpusAreTheVisibleOnes` does not hold with `ToSet(visible)` in its place.
* A patch number is compared with that of another minor version
  (`mpi/SharedLibrary.cpp:103`): without the conjunct `NoPatches`,
  `NewestOlderIsPicked` fails for host 0.1 and candidates 0.0.1 and 0.1.0.
* A host library configured by its unversioned name is mounted through the
  container's link of that name, over whatever version it leads to
  (`mpi/MpiHook.cpp:282`): `OtherMajorsKeepTheirNames` needs `h.file # <<>>`.
* The condition of `mpi/MpiHook.cpp:224`, `!value.second && value.second`, never
  holds, so no compatibility warning is ever logged there. The model has no
  state for it.

## Bounds

* `MaxLaunches` (containers per task): 1 where the property is about a single
  barrier; 2 where it is about leftovers, which takes one earlier container. The
  theorems have no bound on it.
* Tasks: 3 or 4. Procid 0 is special; two others show every race among equals,
  and a fourth lets one die or be disabled while two go on. `SyncStalePass` needs
  2. In `SyncRelaunch` tasks other than procid 0 are
  symmetric (the run has only invariants). The theorems have no bound on them.
* Keygens: 3, so that one waits for the lock while one works and one has died or
  overwrites; launches: 1, since launches do not influence each other
  (`LaunchesAreSeparate` of `SshKeysProofs`). The theorems have no bound on either.
* Containers: 2, one that joins the namespaces and one that does not, or two
  that may take each other's pids. Pids: 3, or 2 where reuse is the point. One
  of the two has an annotated pidfile, new in `SshDaemonLife` and old in
  `SshDaemonMortal`. Two containers that share one are in no run, since no claim is
  made of either and a third would be needed: the theorems have no bound on the
  containers and let any of them share files.
  `MaxStops` (stops of one container): 2, an interrupted stop and its
  repetition.
* `Garbage`: 0 (which the code takes for "not set"), 22 and another port.
* Versions in `PickLibrary`: all versions with numbers 0 and 1 (and missing
  ones), lists of up to 3: one lower, one equal, one higher than the host's in
  each place, and a third that the pick of the first two influences. The theorems
  have no bound on the numbers or on the length of the list.
* `MpiInject`: two linker names, three directories (`/lib`, `/lib64` and one
  that ld.so does not search), six versions, 40 layouts of files and links, four
  MPI and four dependency configurations, all checkers, with and without
  `/lib64` among the directories the container's bundle allows to be written.
  `MaxHops` (4) is longer than any chain a layout or the hook can make. The
  theorems have no bound on any of these; what some of them ask of the layouts
  holds in all 40 (`LayoutsAreOrdinary`, which TLC evaluates).

* `CreateContainer`: five layouts of libraries (no 64-bit library; the usual
  directories and another; two files of one name, one of them an absolute
  link; a library under its soname only; a libc of another ABI)
  with four caches each (current, missing, from before a directory was filled,
  and listing what is gone), four versions of glibc around the host's (older,
  equal, newer, unknown), four orders of the hooks on libraries, four command
  lines; three GPUs with every subset in the map and four values of
  `ROCR_VISIBLE_DEVICES`, one with a repetition, in an environment that parses or
  does not; every environment of the PMIx
  hook with every subset of its directories; and all five hooks in one order. An
  image holds at most one libfabric, and no 32-bit one. The PMIx
  hook, which shares no state with the others, is otherwise run alone. The theorems have no bound on any of these.

`CHECK_DEADLOCK FALSE` appears where processes may be killed, fail, wait for ever
for a missing peer (a poll without result is a stuttering step) or simply be
done, so that the system does stop. It is not used in `MpiInject` and
`CreateContainer`, where the end is the explicit action `Ended`.

## Fairness

* `SlurmGlobalSync`: weak fairness of `Launch` and of `Run` for each task. Slurm
  starts every task of a step, and a process that is not killed keeps running;
  its polling loops sleep 100 ms and wake up. Weak fairness is enough, because a
  file a process waits for stays until the process has seen it: that is
  `WaitersLoseNoFile`.
* `SshKeys`: weak fairness of each process. The lock is requested by polling;
  each process asks once and nobody asks again, so that a waiting keygen is
  enabled for good in the end.
* `SshDaemon`: the engine runs a hook it has started (`StartHook`) and the hook
  at the container's end (`StopHook`), the daemon writes its pidfile, and every
  container stops some day. No fairness is assumed of deaths, failures and other
  processes.
* `ContainerCreation`, `MpiHook` and `LibraryChoice` have no liveness properties
  and assume no fairness: they are loops over finite lists and plans, which end
  if every call they make returns.

## Proofs

### The barrier of the Slurm hook

`SlurmGlobalSyncProofs` proves, by TLAPS, for every finite set of tasks, any
subset of them unconfigured or killable (`SyncAssumption`, which TLC evaluates in
every run of the module):

| Theorem | States | Further assumption |
|---|---|---|
| `TypeCorrect` | `Spec => []TypeOK` | |
| `NobodyPassesUnseenTheorem` | `Spec => []NobodyPassesUnseen` | |
| `CleanupTheorem` | `Spec => []CleanupAfterAllDeparted` | |
| `NobodyPassesEarlyTheorem` | `Spec => []NobodyPassesEarly` | `MaxLaunches = 1` |
| `NoHookFailsTheorem` | `Spec => []NoHookFails` | `MaxLaunches = 1` |
| `WaitersLoseNoFileTheorem` | `Spec => WaitersLoseNoFile` | `MaxLaunches = 1` |
| `NoCommonWaitTheorem` | `Spec => []NoCommonWait` | `MaxLaunches = 1` |
| `SuccessLeavesNoTreeTheorem` | `Spec => []SuccessLeavesNoTree` | `MaxLaunches = 1` |
| `ImplementsBarrierTheorem` | `Spec => ImplementsBarrier` | `MaxLaunches = 1` |
| `WaitingIsForEver` | `Spec => []((SomePeerDisabled /\ AllAwaitArrivals) => []AllAwaitArrivals)` | `MaxLaunches = 1` |

`MaxLaunches = 1` (one container per task in the step) cannot be dropped:
`SyncStalePass` is the counterexample to `NobodyPassesEarly` without it. With
it, `NobodyPassesEarly` is a part of what `ImplementsBarrier` says, and
`SyncOnce` checks the latter.

*The argument.* `TypeOK` alone is not inductive: that a file is made in one of
the two directories depends on which `phase` goes with which `step`. `Control`
adds that, and `WellFormed` is inductive.

`History` adds what the state says about the past. A file in a directory stands
for a signal of its task (`FilesAreSignals`), and signals are never taken back,
though files are. So whoever sees a full directory (`FullDirectory`:
`SLURM_NTASKS` entries are entries of *all* tasks, by cardinality) has seen a
signal of every task; that is `NobodyPassesUnseen` for the arrivals and
`SweepersSawAll` for the departures. It needs `RunningInv` to know that a
running hook belongs to some launch.

With one launch, `OneLaunch` strengthens this in the other direction: a file
stays from the moment its task signals until the clean-up takes it, and when the
clean-up begins, every other task is past all its calls. Hence nobody meets its
own file, nobody polls a directory that is going (`NotDepartedKeepsTree`), the
only process that removes anything is procid 0 (`SweeperIsRoot`), and it never
meets a late file. The refinement follows step by step from the same invariant.

`NoCommonWait` is freedom from deadlock, which TLC's own check cannot show where a
system may stop: unless all have succeeded, or somebody is killed or disabled,
there is a task that does not wait for another. If there were none, everybody
left would poll a directory that is not full. But then all have signalled their
arrival, and files stay until the clean-up, so that the directory of arrivals is
full (`AllSignalledIsPresent`) and nobody polls it; hence all are past it, have
signalled their departure too, and nobody polls the departures either. `EndsKnown`
says which phase an ended hook had reached. `SuccessLeavesNoTree` follows from the clean-up having begun
only after all departures: nobody makes the tree anew behind it. With
`EveryTaskSucceeds` it says that the tree does not outlive the step.

`WaitingIsForEver` is the half of `DisabledPeerHangsAll` that is not liveness. A
disabled task has not signalled, so that the directory of arrivals is not full
and nobody has passed it (`DisabledBarsAll`). Once every other task polls there or
is killed, the only steps left are further kills (`WaitStays`).

### The keys of the SSH hook

`SshKeysProofs` proves, for any sets of keygens and launches, of which any may
overwrite, fail or die (`SshKeysAssumption`), every safety property of `SshKeys`
that holds:

| Theorem | States |
|---|---|
| `TypeCorrect` | `Spec => []TypeOK` |
| `KeysAreWhole` | `Spec => []RestingKeysAreWhole` |
| `KeysStay` | `Spec => WithoutOverwriteKeysStay` |
| `CopiesAreWhole` | `Spec => []UndisturbedCopyIsWhole` |
| `CopiesMatch` | `Spec => []UndisturbedCopyMatches` |
| `CheckedLaunchesSucceed` | `Spec => []CheckedLaunchSucceeds` |
| `OnlyDeathKeepsTheLockTheorem` | `Spec => []OnlyDeathKeepsTheLock` |
| `ImplementsKeySetTheorem` | `Spec => ImplementsKeySet` |
| `KeysAreForEver` | `Spec => [](Safe => []Safe)` |

*The argument* has two layers. `Store` is about the directory and its lock. A
live keygen past the lock is its owner (`HolderIsOwner`), so that all others are
still waiting and only the holder's `Stage` matters: at each of its steps the
directory holds what it has itself made so far, and nothing else. Two parts say
what survives a keygen that dies or fails half-way: authorized keys never
outlive the client's key they came from (`AuthorizedIsOwn`), and the keys are
whole whenever they are at rest (`Resting`), the only part that needs
`NoneBroke`. `KeysStay` follows from `Stage`, with nothing assumed of failures: a
keygen without `--overwrite` that changes a file finds the keys incomplete.

`Launches` is about the readers, which take no lock, and is inductive relative
to `Store`. A launch that no keygen has disturbed runs while the lock is free,
so that what it has seen and copied file by file is still what the directory
holds (`AtWorkOK`). Every step of a keygen either takes the lock, which marks all
launches at work as disturbed, or is made by the holder, when all of them
already are (`KeygensDisturb`). What is known of the directory at the last copy
then becomes a fact about the container's files (`CopiedOK`).

`OnlyDeathKeepsTheLock` (which no run checks: the destructor of the lock sees to
it) needs a little more than it says: the owner is live *and
past the lock* (`LockOK`), so that no way of ending forgets it.

The refinement of `KeySet` holds for keygens and launches that fail or die
anywhere. The last write of a keygen, into `authorized_keys`, makes the set, and
nothing was one before (`AppendMakesKeys`, by `Stage`). The first file a keygen
removes from a whole set removes the set, and only one with `--overwrite` gets
there; the other removals change nothing, for half a set is none
(`RemovalEndsKeys`, `HalfASetIsNone`). The last copy of a launch takes the set,
and only if no keygen held the lock: then the files it has copied one by one are
all still there (`TakeStep`, by `AtWorkOK`), and a set taken stays taken
(`TakenStays`).

`KeysAreForEver` is the half of `UserEndsUpWithKeys` that is not liveness. `Safe`
is a whole set of keys while no keygen with `--overwrite` is live; none starts
later, since every keygen of the instance is live from the beginning, and the
others touch no file of a whole set (`SafeKeysAreUntouched`).

### The daemon of the SSH hook

`SshDaemonProofs` proves, for any sets of containers, pids and failing steps, any
of the containers joining namespaces or not, with other processes on the host and
any number of runs of the hook after the stop (`SshDaemonAssumption`):

| Theorem | States | Further assumption |
|---|---|---|
| `TypeCorrect` | `Spec => []TypeOK` | |
| `StoppedMeansStoppedTheorem` | `Spec => []StoppedMeansStopped` | |
| `StopSignalsOnlyItsDaemonTheorem` | `Spec => []StopSignalsOnlyItsDaemon` | `Mortal = {}`, `Slow = {}`, `PidfilesAreOwn` |
| `HostPidfileNamesDaemonTheorem` | `Spec => []HostPidfileNamesDaemon` | |
| `ImplementsDaemonLifeTheorem` | `Spec => ImplementsDaemonLife` | |
| `GoneForGood` | `Spec => [](Gone(c) => []Gone(c))`, for every container `c` | |

`StoppedMeansStopped` is a part of what `ImplementsDaemonLife` says, and
`SshDaemonMortal` checks the latter.

Three of the properties are about each container that is `Trusted` (see
[above](#sshdaemon)), and ask nothing of the others, which may share pidfiles with
one another, find old ones and signal this container's daemon. The condition is
about the annotations, the image and the speed of the daemon, not about what the
hook does, and the code needs it: without `OwnPidfile` another container's pid is in
the file; if an old file lies there, or in the image, and is not replaced because
the daemon is slow or the copy fails, its pid is. In each of these cases a
stop reports success while the daemon runs.

`StopSignalsOnlyItsDaemon` is about all containers together, for a container
whose stop reads a foreign pid signals any other's daemon: no two of them may have
the same pidfile by annotation, nor an annotated one that was there before
(`PidfilesAreOwn`; with an old one, a set-up that fails before the daemon is
started leaves it to the stop). Without `Mortal = {}`, `SshDaemonGone` is the
counterexample; without `Slow = {}` it is a slow daemon and an old pidfile in the
image.

*The argument* is about which pid may be the daemon's. `Life` says that a
container has at most one daemon, none before `LaunchDaemon`, and that the stop
runs only where it stops something and after the container has stopped. `Named`
says, of a `Trusted` container, that the pidfiles under every name its runs may
take (`NamesOf`; the port may differ from run to run) and the stopping hook name the
*only* pid the daemon can have, if it still has one; so whatever is signalled in
the end, no daemon is left. The copy is where that begins (`CopyNames`): until then
there is no file under such a name but an old annotated one, which the copy, that
does not fail for such a container, replaces. Afterwards only this container's
own stop removes a file of these names, since every hook writes under its own
(`WritersUseTheirName`) and the others' are different (`NamesAreOwn`,
`OthersKeepOut`). No assumption on deaths is
needed, since daemons are started in one place and otherwise only end
(`DaemonsOnlyEnd`), and `HostPidfileNamesDaemon` follows from `Named` too: a daemon
that runs is the one named. `Kept` is the converse: what the pidfile and the hook name
*is* the daemon. It is about all containers at once, because a stop that missed
its daemon would signal everybody's: with it, `KillOther` and `KillNobody` are
out of reach (`OnlyOwnDaemonIsKilled`), and a daemon ends only by its own stop or
with its namespace (`DaemonsStay`).

The refinement of `DaemonLife` rests on `Life` and `Named` together. A step of
another container's hook, of its engine or of the host changes nothing for this
one but that its daemon may end, as by a signal that was meant for somebody
else (`OthersLetItLive`); each step of its own is one of the abstract life
(`LifeOfDaemon`). The step that reports success is the one that needs `Named`: the
only pid the daemon can have has just been signalled.

`GoneForGood` is the half of `NoDaemonOutlivesItsContainer` that is not liveness:
a hook that may still start a daemon belongs to a container that is alive
(`AliveInHook`), and no container comes back to life.

### The choice of a library

`SharedLibraryProofs` and `LibraryChoiceProofs` prove, for any natural numbers in
the versions, any number of candidates and every order of the list
(`ChoiceAssumption`):

| Theorem | States |
|---|---|
| `PickIsListed` | the library picked is one of the candidates |
| `FullyCompatibleTheorem` | `Spec => []FullyCompatibleIsPicked` |
| `OldestNewerTheorem` | `Spec => []OldestNewerIsPicked` |
| `NewestOlderTheorem` | `Spec => []NewestOlderIsPicked` |

*The argument.* The loops take an induction over the number of iterations. The
induction theorems of the library take a predicate as parameter, which none of
the provers can instantiate; `SetInduction` is induction with a *set* instead,
and comes from the existence of a least number outside that set (the natural
numbers are well-founded). From it follow, again with sets and functions as
parameters, that a loop has a value after each iteration (`LoopExists`,
`LoopValues`), and then one loop invariant per property, over lists of any
length:

* `NoneOlder`: if `oldest` is of a newer major number than the host's, no
  candidate seen is older; if it has the host's, none of the host's major number
  is. If all are newer than the host's, the second loop stays where it begins
  (`BestOfNewerIsOldest`).
* `TowardsFull`, without patch numbers: `best` is of an older major number than
  the host's or fully compatible, and fully compatible once the compatible
  candidate has been seen. In one major number `oldest` is fully compatible
  already (`OldestOfOneMajorIsFull`).
* `AsNewAs`: in the host's major number, `best` is as new as every candidate seen
  that is not newer than the host's. This is the one that fails with patch
  numbers (see [Disagreements found](#disagreements-found)).

### The injection of the MPI hook

`MpiHookProofs` and `MpiLinksProofs` prove every property of `MpiHook`, for any
container, directories, versions, host libraries and checker (`MpiAssumption`,
`InputsAssumption`):

| Theorem | States | Asked of the image and the configuration |
|---|---|---|
| `TypeTheorem` | `Spec => []TypeOK` | |
| `RefusalTheorem` | `Spec => []RefusalLeavesContainerAlone` | |
| `MountPointsTheorem` | `Spec => []MountPointsAreNotRemoved` | `LinksKeepNames` |
| `LinkedTheorem` | `Spec => []InjectedLibsAreLinked` | `LinksKeepNames`, `ChainsAreShort` |
| `OtherMajorsTheorem` | `Spec => []OtherMajorsKeepTheirNames` | `LinksKeepNames`, `LinksAbbreviate`, `FilesAreNamed`, `HostNamesAbbreviate` |

The conditions in the last column are about the container's image and the names
of the host's libraries, not about the code, and TLC evaluates each of them in
`MpiInject` (`LayoutsAreOrdinary`, `HostNamesAreOrdinary`):

* `LinksKeepNames`: a link `libfoo.so...` leads to a `libfoo.so...`. If
  `libmpi.so` leads to `libfoo.so.1`, the hook may mount over that file for one
  library and want to replace it by a link for the other.
* `ChainsAreShort`: no loops, and no chain of links that could not take one more
  link; the bound `MaxHops` stands for the kernel's limit on links. A chain that
  does not end resolves to nothing, and a link to it to nothing either.
* `LinksAbbreviate`, `FilesAreNamed`, `HostNamesAbbreviate`: the version in a name
  begins the version of the name it leads to, and a file has the version in its
  name. The hook knows versions by names alone (`resolveAbi`): a file called
  `libfoo.so.1` that is in truth version 2 is taken for a counterpart of the
  host's version 1 and mounted over.

*The argument.* `Types` gives the types of what is in `todo` and `links`, and is
inductive by itself. Four invariants stand on it:

* `CheckedFirst`: until the checks have passed nothing is mounted, and as long as
  the loop runs they still hold of the map of the container's libraries, which no
  step changes. A refusal in the loop would be one of a candidate that has been
  checked before, since the library picked is one of the candidates
  (`PickIsListed`, `NoLateRefusal`); dependencies have a checker that never throws.
* `OneMountPointEach`: each library has one mount point, which its links' targets
  lead to (`Around`), and the libraries still to be injected have none. A link
  that is not skipped leads somewhere else than its target, so that it is on no
  chain that ends at a mount point (`LinkMissesChains`): it is not itself a mount
  point, and making it disturbs no target.
* `InjectedLibs`: every name of an injected library leads to its mount point or is
  among the links still to be made (`Pending`), and what comes later belongs to
  other names. `LinksToCome` adds that a link is only kept for another version
  (`KeptForAnother`), and that chains leave room for one more link (`EndsSoon`).
* `OthersKept`: the names of a container's library of another major number stay
  what they were (`KeptIn`), because its chain has that major number in all its
  versioned names, while the hook writes to chains of the host's major number and to
  unversioned links which it does not keep; and it keeps them if an incompatible
  library is there (`MountMissesOthers`, `LinkMissesOthers`).

All of it rests on a few lemmas about chains of links: what a write to a path on
the chain (`OnChain`, `MountedAtEnd`, `LinkLeadsToTarget`) or off the chain
(`OffChain`) does to what a name leads to.

### The hooks of the createContainer stage

`ContainerCreationProofs` proves, for any directories, libraries, devices, cards
and images, for the hooks in any order (each configured at most once) and for any
command lines and settings (`ScenariosAssumption`, `ContainerAssumption` and the
assumptions of the hooks' modules, all of which TLC evaluates in
`CreateContainer`):

| Theorem | States | Asked of the scenarios |
|---|---|---|
| `TypeCorrect` | `Spec => []TypeOK` | |
| `DevicesAreUsable` | `Spec => []DevicesUsable` | |
| `PmixMountsAllOrNothing` | `Spec => []PmixAllOrNothing` | |
| `GpusAreThoseAskedFor` | `Spec => []GpusAreTheVisibleOnes` | |
| `MountedLibsGetListed` | `Spec => []MountedLibsAreListed` | |
| `GlibcIsNotMixed` | `Spec => []NoGlibcMixture` | |
| `OldGlibcGetsReplaced` | `Spec => []OldGlibcIsReplaced` | `MountsSpareLibc` |
| `ProvidersAreFound` | `Spec => []ProvidersWhereLibfabricLooks` | `MountsHaveTheirHook`, `FabricsAre64Bit`, `GlibcHasNoFabric` |

The conditions in the last column are about the image and the configuration, not
about the code. TLC evaluates them in `CreateContainer` (`ScenariosAreOrdinary`):

* `MountsSpareLibc`: the mount hook does not mount a file under a name of the
  host's libc. If it did, it would take the place of the one the glibc hook has
  mounted there.
* `MountsHaveTheirHook`: there is no `--mount` without a mount hook.
* `FabricsAre64Bit`: the mount hook takes any libfabric the cache lists; beside a
  32-bit one it would put providers where no 64-bit program looks.
* `GlibcHasNoFabric`: no library of `GLIBC_LIBS` has a name of libfabric.

*The argument.* A property of the finished container is not inductive, because
half-way through a hook it does not hold: each invariant is about the container
and the plan together. `PlanFits` says that the plan of the hook whose turn it is
holds only calls of its kind (`OpsOf`); it comes with `TypeOK`, and tells the
steps of different hooks apart, which the calls themselves do not. What remains
then is one pair of facts for each property:

* `AllowedAfterMount`: devices that are mounted and not allowed are at most the
  one that the next call of the plan allows.
* `PmixStages`: what is mounted and what the plan holds make up an appdir and the
  pmix directory, or nothing; `PmixHadItsTurn` excludes that the hook starts on
  what it has itself left, and needs that a hook is configured once.
* `CardsAreThere`: if the AMD GPU hook has a plan or has mounted anything, all cards
  asked for are in the map; otherwise there is no listing
  (`ListingsNeedTheCards`), hence no plan.
* `GpuPlanComplete`: each device asked for is mounted or in the plan, and
  `/dev/kfd` is the last of the plan. For the plan at the start it rests on
  `AmdGpuPlanComplete`, a fact about the arithmetic of `AmdGpuPlan`, and on
  `ListingsShowAll`: a listing without repetitions, as long as the set of cards,
  is onto it (a theorem on injections of the library).
* `UnlistedWillBe`: as long as some mounted library is not listed, a run of
  ldconfig is the last entry of the mount hook's plan, and the turn of the
  ldcache hook has not passed.

Three properties are about what programs load. For them the steps are taken
together by what they do to libraries, cache and plan (`WorkOnLibs`): a hook
returns with an empty plan; it makes a call that leaves both alone (`Calls`); it
lists what is there (`Lists`, never the glibc hook); or it mounts one 64-bit file
over one path (`Binds`), a name of `GLIBC_LIBS` or of the command line. Each of
them takes no path from the plan but the one it mounts over (`Awaited`). A path
is therefore dealt with, or awaited:

* `ImageKept`: what the image had is still there in some version, 64-bit if it
  was, and a cache made by the ldcache hook lists all of it.
* `LibcComing`: behind an ldcache hook, the glibc hook cannot miss the image's
  libc (`ImageKept`); hence, if that is older, one of the host's libc is mounted or
  awaited, and only another library of the host's glibc is mounted over it.
* `NoMixture`: from the start of the replacement on, each library of the image
  under a soname of the host's glibc is awaited or was missed by the cache
  (`OwnLeave`), and if the host's file is called by its soname, a path where ld.so
  finds it before any other has a foreign library or is awaited (`OtherFound`).
  The second survives a new cache, since what was found in `/lib64` is then
  listed. `GlibcCameFirst` says that a glibc mount means that the hook has had
  its turn, so that a hook that decides to do nothing does so on a container
  without such mounts.
* `ProvidersComing`: each provider is at, or awaited at, a directory in `LooksIn`,
  which is a function of the image and of what is asked for. In the mount hook's
  turn the libfabrics listed are those of the image (`CacheListsFabrics`), so that the
  hook looks there (`HookLooksThere`), and in the finished container they are the
  same again, so that libfabric does too (`LibfabricLooksThere`).

`StepsOfNext` reduces the ways a hook can begin to what the invariants need
(`Begins`, `Stops`), so that each of them is proved with one step per call.

### Left to TLC

* Liveness: `EveryTaskSucceeds`, `DisabledPeerHangsAll`, `UserEndsUpWithKeys`,
  and `NoDaemonOutlivesItsContainer` need fairness, and a proof
  would need to reason about when an action is enabled, which TLAPS does not do.
  Proved of `DisabledPeerHangsAll`, `UserEndsUpWithKeys` and `NoDaemonOutlivesItsContainer` is that what they
  promise is never left once it is reached, and of `EveryTaskSucceeds` that some
  task can always go on (`NoCommonWait`).
* The disagreements: a counterexample is found by search.

Every other property of a passing run has a theorem. What TLC adds to these is
that the hypotheses and the interesting cases occur: each property is seen to
fail once the code is changed as in the faulty variants.

## What is assumed of the environment

* A process dies between two calls, never inside one. Creating or removing one
  file, and listing a directory for a count, is atomic; removing a tree is not.
  The parallel file system is coherent: a file that exists is visible to all.
* libsarus is not part of this repository. `Lockfile` excludes other holders and
  is released by its destructor; `createFileIfNecessary` makes missing
  directories first; `validatedBindMount` follows the links of its destination
  and accepts only destinations on the container's own devices (`conf.allowed`
  in `MpiHook`); `resolveAbi` takes the longest version on a chain of links.
* A daemon leads its own process group; `SIGTERM` ends it. It writes its pidfile
  in one step, into a file that belongs to its container alone, wherever
  `com.hooks.ssh.pidfile_container` puts it; a pidfile holds a pid. What another
  host might mean by a pid in an annotated file on a shared file system is left out.
* No annotation names the file that the hook would choose for a container by
  itself, in its bundle. `copyFile` removes an old file, copies, and sets the
  owner, and may throw at each of these; removing a file that is gone succeeds.
* ldconfig lists each library that resolves, once, in no particular order. The
  cache it makes lists the libraries in the directories it goes through.
* The runtime runs the hooks of a stage one after another, in the order of their
  configuration files, and gives up when one of them fails (the OCI
  specification). slurmd makes and removes the directories of a step when it
  likes.
* The host has one version of each library, which the hook's own test says
  (`src/mpi/test/test_MPIHook.cpp`). Two entries of one linker name are outside
  the model; the hazard is listed.

## Not modelled

* The timestamp, MPS and test hooks: a line in a log file, one command, a
  fixture. None has state that another step depends on.
* The MPI hook together with the other createContainer hooks: see the plan.
* Links between the libraries of one container in `Container`, and mounts of
  whole directories by the mount hook, which may cover what is mounted below.
* The summary that the ldcache hook logs, and the flags of the mounts.
* What the SSH set-up writes into the container's `passwd`, profile and
  environment, and the owner and mode of the key files.
* Device cgroups in the MPI hook; parsing of file names to versions.
* Logging.

## Running it

    tlc -workers 2 -config SyncOnce.cfg MCSlurmGlobalSync.tla
    tlapm SlurmGlobalSyncProofs.tla
    tlc -workers 2 -config CreateContainer.cfg MCContainerCreation.tla
    tlapm SshKeysProofs.tla
    tlapm SshDaemonProofs.tla
    tlapm SharedLibraryProofs.tla
    tlapm LibraryChoiceProofs.tla
    tlapm MpiHookProofs.tla
    tlapm MpiLinksProofs.tla
    tlapm ContainerCreationProofs.tla

The module of each configuration is in `runs` of `PROJECT.json`. The longest run
is `MpiInject`, under two minutes.
