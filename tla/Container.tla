----------------------------- MODULE Container -----------------------------
(***************************************************************************)
(* A container that an OCI runtime is creating, and what the hooks of the  *)
(* createContainer stage do to it with the functions of libsarus.          *)
(*                                                                         *)
(* The hooks run one after another.  Each first reads and decides (the     *)
(* modules GlibcHook, MountHook, AmdGpuHook, PmixHook) and then works off  *)
(* what it has decided: `plan', a sequence of mounts and other calls, each *)
(* of which may fail.  A hook that fails ends the creation.                *)
(***************************************************************************)
EXTENDS Integers, Sequences

CONSTANTS
  Dirs,         \* directories of the container with shared libraries
  LinkerDirs,   \* those of them that ldconfig goes through
  DefaultDirs,  \* and those where ld.so looks for what its cache lacks:
  Lib64,        \* /lib64 first
  Names,        \* file names of libraries
  NoFile,       \* what a path without a file leads to
  Devices,      \* device files of the host
  HostDirs,     \* directories of the host that a hook may mount
  None          \* a setting that is not there

Paths == [dir : Dirs, name : Names]
Files == [origin : {"image", "glibc hook", "mount hook"}, soname : Names,
          bits : {32, 64}]

Listable == {p \in Paths : p.dir \in LinkerDirs}

ASSUME ContainerAssumption ==
  /\ Lib64 \in DefaultDirs
  /\ DefaultDirs \subseteq LinkerDirs
  /\ LinkerDirs \subseteq Dirs
  /\ NoFile \notin Files

VARIABLES
  turn,      \* which of the configured hooks runs or is the next to run
  busy,      \* TRUE while that hook works off its plan
  plan,      \* what it still has to do
  outcome,   \* "creating", "created", "refused", or "terminated": a hook
             \* ended by an exception that its main does not catch
  libs,      \* libs[p]: the file at path p of the container
  hasCache,  \* whether the container has an /etc/ld.so.cache,
  cache,     \* and the libraries it lists
  devices,   \* the devices mounted into the container,
  allowed,   \* and those its cgroup allows
  mounted,   \* directories of the host mounted into the container
  present    \* those of HostDirs that the host has

engine == <<turn, busy, plan, outcome>>
files == <<libs, hasCache, cache>>
containerVars == <<engine, files, devices, allowed, mounted, present>>

\* The calls in a plan: a file to mount at each of some paths, a device to
\* mount and then to allow, a directory to mount, a run of ldconfig.
Bind(file, at) == [op |-> "bind", file |-> file, at |-> at]
Device(d) == [op |-> "device", dev |-> d]
Allow(d) == [op |-> "allow", dev |-> d]
Directory(d) == [op |-> "directory", dir |-> d]
Refresh == [op |-> "ldconfig"]

Ops == [op : {"bind"}, file : Files, at : SUBSET Paths]
       \cup [op : {"device", "allow"}, dev : Devices]
       \cup [op : {"directory"}, dir : HostDirs]
       \cup [op : {"ldconfig"}]

-----------------------------------------------------------------------------
(* A hook: its start with a plan, which is empty if there is nothing to do,*)
(* or its refusal before the first call that changes the container.        *)

Start(p) ==
  /\ busy' = TRUE
  /\ plan' = p
  /\ UNCHANGED <<turn, outcome, files, devices, allowed, mounted, present>>

Throw(how) ==
  /\ outcome' = how
  /\ UNCHANGED <<turn, busy, plan, files, devices, allowed, mounted, present>>

Return ==
  /\ busy
  /\ outcome = "creating"
  /\ plan = <<>>
  /\ busy' = FALSE
  /\ turn' = turn + 1
  /\ UNCHANGED <<plan, outcome, files, devices, allowed, mounted, present>>

Working(op) ==
  /\ busy
  /\ outcome = "creating"
  /\ plan # <<>>
  /\ Head(plan).op = op

(* Whatever comes next throws a libsarus::Error, or the runtime kills the  *)
(* hook.                                                                   *)
CallFails ==
  /\ busy
  /\ outcome = "creating"
  /\ plan # <<>>
  /\ Throw("refused")

-----------------------------------------------------------------------------
(* The calls.                                                              *)

(* validatedBindMount of a file.  Where several paths wait, they are done  *)
(* in ldconfig's order, which may be any.                                  *)
BindMount ==
  /\ Working("bind")
  /\ \E p \in Head(plan).at :
       /\ libs' = [libs EXCEPT ![p] = Head(plan).file]
       /\ plan' = IF Head(plan).at = {p}
                  THEN Tail(plan)
                  ELSE <<Bind(Head(plan).file, Head(plan).at \ {p})>>
                       \o Tail(plan)
  /\ UNCHANGED <<turn, busy, outcome, hasCache, cache, devices, allowed,
                 mounted, present>>

\* The device is forgotten once it is mounted.
BadDeviceMount ==
  /\ Working("device")
  /\ devices' = devices \cup {Head(plan).dev}
  /\ plan' = Tail(plan)
  /\ UNCHANGED <<turn, busy, outcome, files, allowed, mounted, present>>

DeviceMount ==
  /\ Working("device")
  /\ devices' = devices \cup {Head(plan).dev}
  /\ plan' = <<Allow(Head(plan).dev)>> \o Tail(plan)
  /\ UNCHANGED <<turn, busy, outcome, files, allowed, mounted, present>>

WhitelistDevice ==
  /\ Working("allow")
  /\ allowed' = allowed \cup {Head(plan).dev}
  /\ plan' = Tail(plan)
  /\ UNCHANGED <<turn, busy, outcome, files, devices, mounted, present>>

(* validatedBindMount of a directory, which must still be there.           *)
DirectoryMount ==
  /\ Working("directory")
  /\ Head(plan).dir \in present
  /\ mounted' = mounted \cup {Head(plan).dir}
  /\ plan' = Tail(plan)
  /\ UNCHANGED <<turn, busy, outcome, files, devices, allowed, present>>

(* The host's ldconfig -r makes the cache, whether there was one or not.   *)
Ldconfig ==
  /\ Working("ldconfig")
  /\ hasCache' = TRUE
  /\ cache' = {p \in Listable : libs[p] # NoFile}
  /\ plan' = Tail(plan)
  /\ UNCHANGED <<turn, busy, outcome, libs, devices, allowed, mounted, present>>

HookStep == Return \/ CallFails \/ BindMount \/ DeviceMount
            \/ WhitelistDevice \/ DirectoryMount \/ Ldconfig

-----------------------------------------------------------------------------
(* What ld.so finds for a 64-bit program that needs the library n: what    *)
(* the cache lists of it, or else what a default directory holds.          *)

Is64(p) == libs[p] # NoFile /\ libs[p].bits = 64

LoaderFinds(n) ==
  LET listed == {p \in cache : p.name = n /\ Is64(p)}
      inLib64 == {p \in Paths : p.dir = Lib64 /\ p.name = n /\ Is64(p)}
      inDefaults == {p \in Paths : p.dir \in DefaultDirs /\ p.name = n
                                   /\ Is64(p)}
  IN  IF listed # {} THEN listed
      ELSE IF inLib64 # {} THEN inLib64 ELSE inDefaults
=============================================================================
