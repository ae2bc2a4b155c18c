---------------------- MODULE ContainerCreationProofs ----------------------
(***************************************************************************)
(* Proofs about the hooks of the createContainer stage, for any number of  *)
(* hooks in any order, any images, nodes and settings.                     *)
(*                                                                         *)
(* What the container looks like while a hook works off its plan follows   *)
(* from what is still in the plan.  So the invariants are about pairs: what*)
(* has been done and what is still to be done.                             *)
(***************************************************************************)
EXTENDS ContainerCreation, TLAPS, SequenceTheorems, FiniteSetTheorems

USE DEF engine, files, stage, containerVars, glibcVars, mountArgs, mountVars,
        amdGpuVars, vars

-----------------------------------------------------------------------------
(* What each hook does, at most.                                           *)

FilesOf(o) == {f \in Files : f.origin = o /\ f.bits = 64}
Named(ns) == {p \in Paths : p.name \in ns}

MountNames == {m.name : m \in ToSet(mounts) \ {Malformed}}
GlibcNames == {h.file : h \in ToSet(HostLibs)} \cup {h.soname : h \in ToSet(HostLibs)}

MountOps == [op : {"bind"}, file : FilesOf("mount hook"), at : SUBSET Named(MountNames)]
            \cup [op : {"device", "allow"}, dev : ToSet(deviceMounts) \cap Devices]
            \cup [op : {"ldconfig"}]

GlibcOps == [op : {"bind"}, file : FilesOf("glibc hook"), at : SUBSET Named(GlibcNames)]

LdCacheOps == [op : {"ldconfig"}]

GpuDevices == {Kfd} \cup {Card(g) : g \in AskedFor} \cup {Render(g) : g \in AskedFor}

AmdGpuOps == [op : {"device", "allow"}, dev : GpuDevices \cap Devices]

PmixOps == [op : {"directory"}, dir : HostDirs]

OpsOf(h) == IF h = "mount" THEN MountOps
            ELSE IF h = "glibc" THEN GlibcOps
            ELSE IF h = "ldcache" THEN LdCacheOps
            ELSE IF h = "amdgpu" THEN AmdGpuOps
            ELSE PmixOps

(* A hook is at work in its turn, with calls of its own.                   *)
Running(h) == busy /\ turn \in DOMAIN order /\ order[turn] = h

PlanFits == /\ busy => turn \in DOMAIN order
            /\ \A h \in Hooks : Running(h) => plan \in Seq(OpsOf(h))

(* Only the next call can be missing to make a device usable.              *)
AwaitsAllow == busy /\ plan # <<>> /\ Head(plan).op = "allow"
AllowedAfterMount ==
  devices \ allowed \subseteq IF AwaitsAllow THEN {Head(plan).dev} ELSE {}

(* No hook is at work or to come in a container that has started.          *)
CreatedIsLast == Created => ~busy /\ turn > Len(order)

-----------------------------------------------------------------------------
(* With a call, a plan may hold what the call leads to.                    *)
Closed(S) ==
  \A c \in S :
    /\ c.op = "bind" => \A ps \in SUBSET c.at : Bind(c.file, ps) \in S
    /\ c.op = "device" => Allow(c.dev) \in S

(* The plans of each hook are made of calls, and are closed.               *)
LEMMA OpsOfHooks ==
  ASSUME NEW h \in Hooks
  PROVE  OpsOf(h) \subseteq Ops /\ Closed(OpsOf(h)) /\ Closed(Ops)
<1> USE DEF Closed, Ops, Bind, Allow
<1>1. CASE h = "mount"
  BY <1>1 DEF OpsOf, MountOps, FilesOf, Named
<1>2. CASE h = "glibc"
  BY <1>2 DEF OpsOf, GlibcOps, FilesOf, Named
<1>3. CASE h = "ldcache"
  BY <1>3 DEF OpsOf, LdCacheOps
<1>4. CASE h = "amdgpu"
  BY <1>4 DEF OpsOf, AmdGpuOps
<1>5. CASE h = "pmix"
  BY <1>5 DEF OpsOf, PmixOps
<1> QED
  BY <1>1, <1>2, <1>3, <1>4, <1>5 DEF Hooks

(* A step of a hook leaves a plan of the same kind.                        *)
LEMMA WorkKeepsKind ==
  ASSUME NEW S, Closed(S), plan \in Seq(S), HookStep
  PROVE  plan' \in Seq(S)
<1>1. ASSUME plan # <<>>
      PROVE  Head(plan) \in S /\ Tail(plan) \in Seq(S)
  BY <1>1, HeadTailProperties
<1>2. ASSUME NEW c \in S, NEW s \in Seq(S)
      PROVE  <<c>> \o s \in Seq(S)
  <2>1. <<c>> \in Seq(S)
    OBVIOUS
  <2> QED
    BY <2>1, ConcatProperties
<1>3. CASE Return \/ CallFails
  BY <1>3 DEF Return, CallFails, Throw
<1>4. CASE BindMount
  <2>1. plan # <<>> /\ Head(plan).op = "bind"
    BY <1>4 DEF BindMount, Working
  <2>2. PICK p \in Head(plan).at :
          plan' = IF Head(plan).at = {p} THEN Tail(plan)
                  ELSE <<Bind(Head(plan).file, Head(plan).at \ {p})>> \o Tail(plan)
    BY <1>4 DEF BindMount
  <2>3. Bind(Head(plan).file, Head(plan).at \ {p}) \in S
    BY <1>1, <2>1 DEF Closed
  <2> QED
    BY <1>1, <1>2, <2>1, <2>2, <2>3
<1>5. CASE DeviceMount
  <2>1. plan # <<>> /\ Head(plan).op = "device"
    BY <1>5 DEF DeviceMount, Working
  <2>2. Allow(Head(plan).dev) \in S
    BY <1>1, <2>1 DEF Closed
  <2> QED
    BY <1>1, <1>2, <1>5, <2>1, <2>2 DEF DeviceMount
<1>6. CASE WhitelistDevice \/ DirectoryMount \/ Ldconfig
  BY <1>1, <1>6 DEF WhitelistDevice, DirectoryMount, Ldconfig, Working
<1> QED
  BY <1>3, <1>4, <1>5, <1>6 DEF HookStep

-----------------------------------------------------------------------------
(* The plans the hooks start with.                                         *)

EndsWithRefresh(p) == p # <<>> /\ p[Len(p)] = Refresh

LEMMA FunctionIsSequence ==
  ASSUME NEW S, NEW n \in Nat, NEW f \in [1..n -> S]
  PROVE  f \in Seq(S) /\ Len(f) = n
<1>1. f \in Seq(S)
  BY SeqDef
<1>2. Len(f) \in Nat /\ DOMAIN f = 1..Len(f)
  BY <1>1, LenProperties
<1> QED
  BY <1>1, <1>2

LEMMA RefreshAtEnd ==
  ASSUME NEW S, NEW s \in Seq(S), <<Refresh>> \in Seq(S)
  PROVE  EndsWithRefresh(s \o <<Refresh>>)
<1>1. Len(s) \in Nat /\ Len(<<Refresh>>) = 1 /\ <<Refresh>>[1] = Refresh
  BY LenProperties
<1>2. /\ s \o <<Refresh>> \in Seq(S) /\ Len(s \o <<Refresh>>) = Len(s) + 1
      /\ \A i \in 1 .. Len(s) + 1 :
           (s \o <<Refresh>>)[i] = IF i <= Len(s) THEN s[i]
                                   ELSE <<Refresh>>[i - Len(s)]
  BY <1>1, ConcatProperties
<1>3. (s \o <<Refresh>>)[Len(s) + 1] = Refresh
  BY <1>1, <1>2
<1> QED
  BY <1>1, <1>2, <1>3, EmptySeq DEF EndsWithRefresh

LEMMA MountPlanFits ==
  ASSUME TypeOK, WellFormedArgs, NEW fi \in Dirs
  PROVE  /\ MountPlan(fi) \in Seq(MountOps)
         /\ hasLdconfig => EndsWithRefresh(MountPlan(fi))
<1> DEFINE binds == [i \in DOMAIN mounts |->
                       Bind([origin |-> "mount hook", soname |-> mounts[i].name,
                             bits |-> 64], {Destination(mounts[i], fi)})]
           devs == [i \in DOMAIN deviceMounts |-> Device(deviceMounts[i])]
           last == IF hasLdconfig THEN <<Refresh>> ELSE <<>>
<1>1. binds \in Seq(MountOps)
  <2>1. /\ Len(mounts) \in Nat /\ DOMAIN mounts = 1..Len(mounts)
        /\ \A i \in DOMAIN mounts :
             mounts[i] \in [dir : Dirs \cup {Wildcard}, name : Names]
    BY LenProperties, ElementOfSeq DEF TypeOK, Mounts, WellFormedArgs
  <2>2. ASSUME NEW i \in DOMAIN mounts
        PROVE  binds[i] \in MountOps
    <3>1. Destination(mounts[i], fi) \in Named(MountNames)
      <4>1. /\ mounts[i] \in [dir : Dirs \cup {Wildcard}, name : Names]
            /\ mounts[i] \in ToSet(mounts) \ {Malformed}
        BY <2>1, <2>2 DEF ToSet, WellFormedArgs
      <4>2. mounts[i].name \in MountNames
        BY <4>1 DEF MountNames
      <4> QED
        BY <4>1, <4>2 DEF Destination, Paths, Named
    <3>2. mounts[i].name \in Names
      BY <2>1, <2>2
    <3>3. [origin |-> "mount hook", soname |-> mounts[i].name, bits |-> 64]
            \in FilesOf("mount hook")
      BY <3>2 DEF Files, FilesOf
    <3> QED
      BY <2>2, <3>1, <3>3 DEF Bind, MountOps
  <2>3. binds \in [1..Len(mounts) -> MountOps]
    BY <2>1, <2>2
  <2> QED
    BY <2>1, <2>3, FunctionIsSequence
<1>2. devs \in Seq(MountOps)
  <2>1. /\ Len(deviceMounts) \in Nat
        /\ DOMAIN deviceMounts = 1..Len(deviceMounts)
        /\ \A i \in DOMAIN deviceMounts :
             deviceMounts[i] \in ToSet(deviceMounts) \cap Devices
    BY LenProperties, ElementOfSeq DEF TypeOK, WellFormedArgs, ToSet
  <2>2. devs \in [1..Len(deviceMounts) -> MountOps]
    BY <2>1 DEF Device, MountOps
  <2> QED
    BY <2>1, <2>2, FunctionIsSequence
<1>3. last \in Seq(MountOps)
  <2>1. Refresh \in MountOps
    BY DEF MountOps, Refresh
  <2> QED
    BY <2>1
<1>4. binds \o devs \in Seq(MountOps)
  BY <1>1, <1>2, ConcatProperties
<1>5. (binds \o devs) \o last \in Seq(MountOps)
  BY <1>3, <1>4, ConcatProperties
<1>6. ASSUME hasLdconfig
      PROVE  EndsWithRefresh((binds \o devs) \o last)
  <2>1. last = <<Refresh>> /\ <<Refresh>> \in Seq(MountOps)
    BY <1>3, <1>6
  <2> QED
    BY <1>4, <2>1, RefreshAtEnd
<1>7. MountPlan(fi) = (binds \o devs) \o last
  BY DEF MountPlan
<1> QED
  BY <1>5, <1>6, <1>7

LEMMA ProviderPathsAreDirs ==
  ASSUME TypeOK
  PROVE  FiProviderPaths \subseteq Dirs /\ UsrLib \in Dirs
BY MountAssumption DEF TypeOK, FiProviderPaths, Libfabrics, Listable

LEMMA ReplacementsFit ==
  ASSUME TypeOK
  PROVE  Replacements \in Seq(GlibcOps)
<1>1. /\ Len(HostLibs) \in Nat /\ DOMAIN HostLibs = 1..Len(HostLibs)
      /\ \A i \in DOMAIN HostLibs : HostLibs[i] \in [file : Names, soname : Names]
  BY GlibcAssumption, LenProperties, ElementOfSeq
<1>2. ASSUME NEW i \in DOMAIN HostLibs
      PROVE  Replacements[i] \in GlibcOps
  <2> DEFINE h == HostLibs[i]
             file == [origin |-> "glibc hook", soname |-> h.soname, bits |-> 64]
             at == IF Counterparts(h.soname) # {} THEN Counterparts(h.soname)
                   ELSE {[dir |-> Lib64, name |-> h.file]}
  <2>1. file \in FilesOf("glibc hook")
    BY <1>1, <1>2 DEF Files, FilesOf
  <2>2. at \in SUBSET Named(GlibcNames)
    <3>1. h.file \in GlibcNames /\ h.soname \in GlibcNames
      BY <1>2 DEF GlibcNames, ToSet
    <3> QED
      BY <1>1, <1>2, <3>1, ContainerAssumption
      DEF TypeOK, Listable, Counterparts, ContainerLibs, Paths, Named
  <2>3. Bind(file, at) \in GlibcOps
    BY <2>1, <2>2 DEF Bind, GlibcOps
  <2>4. Replacements[i] = Bind(file, at)
    BY <1>2 DEF Replacements
  <2> QED
    BY <2>3, <2>4
<1>3. Replacements \in [1..Len(HostLibs) -> GlibcOps]
  BY <1>1, <1>2 DEF Replacements
<1> QED
  BY <1>1, <1>3, FunctionIsSequence

(* The cards listed are those asked for, each at least once.               *)
LEMMA ListingsShowAll ==
  ASSUME TypeOK, NEW ids \in Listings
  PROVE  ids \in Seq(Gpus) /\ ToSet(ids) = AskedFor
<1>1. byPath # None
  BY DEF Listings
<1>2. byPath \in SUBSET Gpus
  BY <1>1 DEF TypeOK
<1>3. CASE visible # <<>> /\ envParses
  BY <1>1, <1>3 DEF Listings, VisibleIds, AskedFor, TypeOK
<1>4. CASE visible = <<>> \/ ~envParses
  <2>1. ids \in SetToSeqs(byPath)
    BY <1>1, <1>4 DEF Listings, VisibleIds
  <2> DEFINE n == Cardinality(byPath)
  <2>2. IsFiniteSet(byPath) /\ n \in Nat
    BY <1>2, AmdGpuAssumption, FS_Subset, FS_CardinalityType
  <2>3. ids \in [1..n -> byPath] /\ \A i, j \in 1..n : i # j => ids[i] # ids[j]
    BY <2>1 DEF SetToSeqs
  <2>4. ids \in Injection(1..n, byPath)
    BY <2>3 DEF Injection, IsInjective
  <2>5. Cardinality(1..n) = n
    BY <2>2, FS_Interval
  <2>6. ids \in Surjection(1..n, byPath)
    BY <2>2, <2>4, <2>5, FS_Injection
  <2>7. ToSet(ids) = byPath
    BY <2>3, <2>6 DEF Surjection, ToSet
  <2>8. ids \in [1..n -> Gpus]
    BY <1>2, <2>3
  <2> QED
    BY <1>4, <2>2, <2>7, <2>8, FunctionIsSequence DEF AskedFor
<1> QED
  BY <1>3, <1>4

(* There is a listing only if every card asked for is there.               *)
LEMMA ListingsNeedTheCards ==
  ASSUME Listings # {}
  PROVE  byPath # None /\ AskedFor \subseteq byPath
BY DEF Listings, VisibleIds, AskedFor

LEMMA AmdGpuPlanFits ==
  ASSUME TypeOK, NEW ids \in Listings
  PROVE  AmdGpuPlan(ids) \in Seq(AmdGpuOps) /\ Len(AmdGpuPlan(ids)) = 2 * Len(ids) + 1
<1>1. ids \in Seq(Gpus) /\ ToSet(ids) = AskedFor
  BY ListingsShowAll
<1>2. Len(ids) \in Nat /\ DOMAIN ids = 1..Len(ids)
  BY <1>1, LenProperties
<1>3. \A i \in 1..Len(ids) : ids[i] \in Gpus /\ ids[i] \in AskedFor
  BY <1>1, <1>2, ElementOfSeq DEF ToSet
<1>4. ASSUME NEW k \in 1 .. 2 * Len(ids) + 1
      PROVE  AmdGpuPlan(ids)[k] \in AmdGpuOps
  <2>1. CASE k > 2 * Len(ids)
    BY <2>1, AmdGpuAssumption DEF AmdGpuPlan, Device, AmdGpuOps, GpuDevices
  <2>2. CASE k <= 2 * Len(ids) /\ k % 2 = 1
    <3>1. (k + 1) \div 2 \in 1..Len(ids)
      BY <1>2, <2>2
    <3>2. Card(ids[(k + 1) \div 2]) \in GpuDevices \cap Devices
      BY <1>3, <3>1, AmdGpuAssumption DEF GpuDevices
    <3>3. AmdGpuPlan(ids)[k] = Device(Card(ids[(k + 1) \div 2]))
      BY <1>2, <2>2 DEF AmdGpuPlan
    <3> QED
      BY <3>2, <3>3 DEF Device, AmdGpuOps
  <2>3. CASE k <= 2 * Len(ids) /\ k % 2 # 1
    <3>1. k \div 2 \in 1..Len(ids)
      BY <1>2, <2>3
    <3>2. Render(ids[k \div 2]) \in GpuDevices \cap Devices
      BY <1>3, <3>1, AmdGpuAssumption DEF GpuDevices
    <3>3. AmdGpuPlan(ids)[k] = Device(Render(ids[k \div 2]))
      BY <1>2, <2>3 DEF AmdGpuPlan
    <3> QED
      BY <3>2, <3>3 DEF Device, AmdGpuOps
  <2> QED
    BY <1>2, <2>1, <2>2, <2>3
<1>5. AmdGpuPlan(ids) \in [1 .. 2 * Len(ids) + 1 -> AmdGpuOps]
  BY <1>4 DEF AmdGpuPlan
<1>6. 2 * Len(ids) + 1 \in Nat
  BY <1>2
<1> QED
  BY <1>5, <1>6, FunctionIsSequence

LEMMA PmixPlanFits == PmixPlan \in Seq(PmixOps)
<1>1. \A d \in HostDirs : Directory(d) \in PmixOps
  BY DEF PmixOps, Directory
<1>2. \A c, e \in PmixOps : <<c, e>> \in Seq(PmixOps)
  OBVIOUS
<1> QED
  BY <1>1, <1>2, PmixAssumption DEF PmixPlan

-----------------------------------------------------------------------------
(* Type correctness, and that hooks keep to their plans.                   *)

LEMMA KindsStay ==
  ASSUME UNCHANGED <<mounts, deviceMounts, visible, envParses, byPath>>
  PROVE  \A h \in Hooks : OpsOf(h)' = OpsOf(h)
BY DEF OpsOf, MountOps, MountNames, GlibcOps, LdCacheOps, AmdGpuOps, GpuDevices,
       AskedFor, PmixOps

LEMMA InitTyped == Init => TypeOK /\ PlanFits
<1> SUFFICES ASSUME Init
             PROVE  TypeOK /\ PlanFits
  OBVIOUS
<1>1. PICK s \in Scenarios : Init!(s)
  BY DEF Init
<1>2. Len(s.order) \in Nat /\ s.order \in Orders
  BY ScenariosAssumption, LenProperties DEF Orders
<1>3. /\ order \in Orders /\ emptyPath \in BOOLEAN
      /\ image \in [libs : [Paths -> Files \cup {NoFile}], cache : SUBSET Listable]
      /\ libs \in [Paths -> Files \cup {NoFile}]
      /\ hasCache \in BOOLEAN /\ cache \in SUBSET Listable
  BY <1>1, <1>2, ScenariosAssumption
<1>4. /\ version \in (Nat \X Nat) \cup {None}
      /\ mounts \in Mounts /\ deviceMounts \in Seq(Devices \cup {Malformed})
      /\ hasLdconfig \in BOOLEAN /\ fiProviderPath \in Dirs \cup {None}
  BY <1>1, ScenariosAssumption
<1>5. /\ byPath \in (SUBSET Gpus) \cup {None} /\ visible \in Seq(Gpus)
      /\ envParses \in BOOLEAN /\ hasKfd \in BOOLEAN
      /\ slurm \in SlurmEnvs /\ present \in SUBSET HostDirs
  BY <1>1, ScenariosAssumption
<1>6. /\ turn \in 1 .. Len(order) + 1 /\ busy = FALSE /\ plan \in Seq(Ops)
      /\ outcome = "creating" /\ missed = {} /\ listFailed = FALSE
      /\ devices = {} /\ allowed = {} /\ mounted = {}
  BY <1>1, <1>2
<1>7. TypeOK
  BY <1>3, <1>4, <1>5, <1>6 DEF TypeOK
<1> QED
  BY <1>6, <1>7 DEF PlanFits, Running

(* A hook that starts with a plan of its kind.                             *)
LEMMA StartIsTyped ==
  ASSUME TypeOK, NEW h \in Hooks, Turn(h), NEW p \in Seq(OpsOf(h)), Start(p),
         UNCHANGED <<stage, version, mountArgs, amdGpuVars, slurm>>,
         missed' \in SUBSET Paths, listFailed' \in BOOLEAN
  PROVE  TypeOK' /\ PlanFits'
<1>1. p \in Seq(Ops)
  BY OpsOfHooks, SeqMonotonic
<1>2. OpsOf(h)' = OpsOf(h)
  BY KindsStay
<1>3. TypeOK'
  BY <1>1 DEF TypeOK, Start
<1>4. turn' = turn /\ plan' = p /\ order' = order
  BY DEF Start
<1>5. turn' \in DOMAIN order' /\ order'[turn'] = h
  BY <1>4 DEF Turn
<1>6. PlanFits'
  BY <1>2, <1>4, <1>5 DEF PlanFits, Running
<1> QED
  BY <1>3, <1>6

LEMMA ThrowIsTyped ==
  ASSUME TypeOK, PlanFits, NEW how \in {"refused", "terminated"}, Throw(how),
         UNCHANGED <<stage, glibcVars, mountVars, amdGpuVars, slurm>>
  PROVE  TypeOK' /\ PlanFits'
<1>1. TypeOK'
  BY DEF TypeOK, Throw
<1>2. PlanFits'
  <2>1. turn' = turn /\ busy' = busy /\ plan' = plan /\ order' = order
    BY DEF Throw
  <2>2. \A h \in Hooks : OpsOf(h)' = OpsOf(h)
    BY KindsStay
  <2> QED
    BY <2>1, <2>2 DEF PlanFits, Running
<1> QED
  BY <1>1, <1>2

LEMMA WorkIsTyped ==
  ASSUME TypeOK, PlanFits, Work
  PROVE  TypeOK' /\ PlanFits'
<1>1. HookStep /\ UNCHANGED <<stage, glibcVars, mountVars, amdGpuVars, slurm>>
  BY DEF Work
<1>2. busy /\ turn \in DOMAIN order
  BY <1>1 DEF PlanFits, HookStep, Return, CallFails, BindMount, DeviceMount,
             WhitelistDevice, DirectoryMount, Ldconfig, Working
<1>3. PICK h \in Hooks : order[turn] = h
  BY <1>2, ElementOfSeq, LenProperties DEF TypeOK, Orders
<1>4. plan \in Seq(OpsOf(h))
  BY <1>2, <1>3 DEF PlanFits, Running
<1>5. plan' \in Seq(OpsOf(h))
  BY <1>1, <1>4, OpsOfHooks, WorkKeepsKind
<1>6. plan' \in Seq(Ops)
  BY <1>5, OpsOfHooks, SeqMonotonic
<1>7. plan # <<>> => Head(plan) \in Ops
  BY HeadTailProperties DEF TypeOK
<1>8. CASE Return
  <2>1. Len(order) \in Nat /\ DOMAIN order = 1..Len(order)
    BY LenProperties DEF TypeOK, Orders
  <2>2. turn + 1 \in 1 .. Len(order) + 1
    BY <1>2, <2>1
  <2> QED
    BY <1>1, <1>6, <1>8, <2>2 DEF TypeOK, PlanFits, Running, Return
<1>9. ASSUME turn' = turn, TypeOK'
      PROVE  TypeOK' /\ PlanFits'
  <2>1. order' = order /\ OpsOf(h)' = OpsOf(h)
    BY <1>1, <1>9, KindsStay
  <2> QED
    BY <1>2, <1>3, <1>5, <1>9, <2>1 DEF PlanFits, Running
<1>10. CASE CallFails
  BY <1>1, <1>6, <1>9, <1>10 DEF TypeOK, CallFails, Throw
<1>11. CASE BindMount
  <2>1. plan # <<>> /\ Head(plan).op = "bind"
    BY <1>11 DEF BindMount, Working
  <2>2. Head(plan).file \in Files /\ Head(plan).at \in SUBSET Paths
    BY <1>7, <2>1 DEF Ops
  <2>3. libs' \in [Paths -> Files \cup {NoFile}]
    BY <1>11, <2>2 DEF BindMount, TypeOK
  <2> QED
    BY <1>1, <1>6, <1>9, <1>11, <2>3 DEF TypeOK, BindMount
<1>12. CASE DeviceMount
  <2>1. plan # <<>> /\ Head(plan).op = "device"
    BY <1>12 DEF DeviceMount, Working
  <2>2. Head(plan).dev \in Devices
    BY <1>7, <2>1 DEF Ops
  <2> QED
    BY <1>1, <1>6, <1>9, <1>12, <2>2 DEF TypeOK, DeviceMount
<1>13. CASE WhitelistDevice
  <2>1. plan # <<>> /\ Head(plan).op = "allow"
    BY <1>13 DEF WhitelistDevice, Working
  <2>2. Head(plan).dev \in Devices
    BY <1>7, <2>1 DEF Ops
  <2> QED
    BY <1>1, <1>6, <1>9, <1>13, <2>2 DEF TypeOK, WhitelistDevice
<1>14. CASE DirectoryMount
  <2>1. plan # <<>> /\ Head(plan).op = "directory"
    BY <1>14 DEF DirectoryMount, Working
  <2>2. Head(plan).dir \in HostDirs
    BY <1>7, <2>1 DEF Ops
  <2> QED
    BY <1>1, <1>6, <1>9, <1>14, <2>2 DEF TypeOK, DirectoryMount
<1>15. CASE Ldconfig
  BY <1>1, <1>6, <1>9, <1>15 DEF TypeOK, Ldconfig
<1> QED
  BY <1>1, <1>8, <1>10, <1>11, <1>12, <1>13, <1>14, <1>15 DEF HookStep

-----------------------------------------------------------------------------
(* The steps, without what tells the hooks apart.                          *)

MountBegins(p) ==
  /\ WellFormedArgs
  /\ listFailed' \/ \E fi \in FiProviderPaths : p = MountPlan(fi)

GlibcBegins(p) ==
  \/ /\ p = <<>> /\ missed' = missed
     /\ ~hasCache \/ ContainerLibcs = {} \/ ~HasToBeReplaced
  \/ /\ p = Replacements /\ missed' = {q \in Paths : Is64(q)} \ cache
     /\ HostLibc # None

Begins(h, p) ==
  /\ Turn(h) /\ Start(p) /\ p \in Seq(OpsOf(h))
  /\ h = "mount" => (hasLdconfig => EndsWithRefresh(p)) /\ MountBegins(p)
  /\ h = "glibc" => GlibcBegins(p)
  /\ h = "ldcache" => (~emptyPath => p = <<Refresh>>)
  /\ h = "amdgpu" => p = <<>> \/ \E ids \in Listings : p = AmdGpuPlan(ids)
  /\ h = "pmix" => p = <<>> \/ p = PmixPlan
  /\ missed' \in SUBSET Paths /\ listFailed' \in BOOLEAN
  /\ h # "mount" => listFailed' = listFailed
  /\ h # "glibc" => missed' = missed
  /\ UNCHANGED <<stage, version, mountArgs, amdGpuVars, slurm>>

Stops == /\ ~busy
         /\ \E how \in {"refused", "terminated"} : Throw(how)
         /\ UNCHANGED <<stage, glibcVars, mountVars, amdGpuVars, slurm>>

LEMMA StepsOfNext ==
  ASSUME TypeOK, Next
  PROVE  \/ \E h \in Hooks : \E p \in Seq(OpsOf(h)) : Begins(h, p)
         \/ Stops \/ Work \/ Create \/ Slurmd \/ UNCHANGED vars
<1>1. \A h \in Hooks : <<>> \in Seq(OpsOf(h))
  OBVIOUS
<1>2. CASE Mount
  <2>1. ASSUME NEW p \in Seq(MountOps), Start(p), listFailed' \in BOOLEAN,
               hasLdconfig => EndsWithRefresh(p), MountBegins(p), UNCHANGED mountArgs
        PROVE  Begins("mount", p) /\ p \in Seq(OpsOf("mount"))
    BY <1>2, <2>1 DEF Mount, Begins, OpsOf, TypeOK
  <2>2. CASE MountParsed
    <3>1. PICK fi \in FiProviderPaths : Start(MountPlan(fi))
      BY <2>2 DEF MountParsed
    <3>2. /\ MountPlan(fi) \in Seq(MountOps)
          /\ hasLdconfig => EndsWithRefresh(MountPlan(fi))
      BY <2>2, <3>1, MountPlanFits, ProviderPathsAreDirs DEF MountParsed
    <3>3. MountBegins(MountPlan(fi))
      BY <2>2 DEF MountParsed, MountBegins
    <3> QED
      BY <2>1, <2>2, <3>1, <3>2, <3>3 DEF MountParsed, TypeOK, Hooks
  <2>3. CASE MountParsedBlindly
    <3>1. /\ MountPlan(UsrLib) \in Seq(MountOps)
          /\ hasLdconfig => EndsWithRefresh(MountPlan(UsrLib))
      BY <2>3, MountPlanFits, ProviderPathsAreDirs DEF MountParsedBlindly
    <3>2. MountBegins(MountPlan(UsrLib))
      BY <2>3 DEF MountParsedBlindly, MountBegins
    <3> QED
      BY <2>1, <2>3, <3>1, <3>2 DEF MountParsedBlindly, Hooks
  <2>4. CASE MountRefused
    BY <1>2, <2>4 DEF Mount, MountRefused, Turn, Stops
  <2> QED
    BY <1>2, <2>2, <2>3, <2>4 DEF Mount, RunMountHook
<1>3. CASE LdCache
  <2> DEFINE p == IF emptyPath THEN <<>> ELSE <<Refresh>>
  <2>1. p \in Seq(OpsOf("ldcache"))
    <3>1. Refresh \in OpsOf("ldcache")
      BY DEF OpsOf, LdCacheOps, Refresh
    <3> QED
      BY <3>1
  <2>2. Begins("ldcache", p)
    BY <1>3, <2>1 DEF LdCache, Begins, TypeOK
  <2> QED
    BY <2>1, <2>2 DEF Hooks
<1>4. CASE Glibc
  <2>1. ASSUME NEW p \in Seq(GlibcOps), Start(p), missed' \in SUBSET Paths,
               GlibcBegins(p), UNCHANGED version
        PROVE  Begins("glibc", p) /\ p \in Seq(OpsOf("glibc"))
    BY <1>4, <2>1 DEF Glibc, Begins, OpsOf, TypeOK
  <2>2. CASE GlibcKept
    <3>1. <<>> \in Seq(GlibcOps) /\ missed' = missed /\ version' = version
      BY <2>2 DEF GlibcKept
    <3>2. GlibcBegins(<<>>)
      BY <2>2 DEF GlibcKept, GlibcBegins
    <3> QED
      BY <2>1, <2>2, <3>1, <3>2 DEF GlibcKept, TypeOK, Hooks
  <2>3. CASE GlibcRefused
    BY <1>4, <2>3 DEF Glibc, GlibcRefused, Turn, Stops
  <2>4. CASE GlibcReplaced
    <3>1. GlibcBegins(Replacements)
      BY <2>4 DEF GlibcReplaced, GlibcBegins
    <3> QED
      BY <2>1, <2>4, <3>1, ReplacementsFit DEF GlibcReplaced, Hooks
  <2> QED
    BY <1>4, <2>2, <2>3, <2>4 DEF Glibc, RunGlibcHook
<1>5. CASE AmdGpu
  <2>1. ASSUME NEW p, Start(p),
               p = <<>> \/ (\E ids \in Listings : p = AmdGpuPlan(ids))
        PROVE  Begins("amdgpu", p) /\ p \in Seq(OpsOf("amdgpu"))
    <3>1. p \in Seq(AmdGpuOps)
      <4>1. <<>> \in Seq(AmdGpuOps)
        OBVIOUS
      <4> QED
        BY <2>1, <4>1, AmdGpuPlanFits
    <3>2. OpsOf("amdgpu") = AmdGpuOps
      BY DEF OpsOf
    <3> QED
      BY <1>5, <2>1, <3>1, <3>2 DEF AmdGpu, RunAmdGpuHook, Begins, TypeOK
  <2> QED
    BY <1>5, <2>1 DEF AmdGpu, RunAmdGpuHook, Turn, Stops, Hooks
<1>6. CASE Pmix
  <2>1. ASSUME NEW p, p = <<>> \/ p = PmixPlan, Start(p)
        PROVE  Begins("pmix", p) /\ p \in Seq(OpsOf("pmix"))
    <3>1. p \in Seq(PmixOps)
      <4>1. <<>> \in Seq(PmixOps)
        OBVIOUS
      <4> QED
        BY <2>1, <4>1, PmixPlanFits
    <3>2. OpsOf("pmix") = PmixOps
      BY DEF OpsOf
    <3> QED
      BY <1>6, <2>1, <3>1, <3>2 DEF Pmix, RunPmixHook, Begins, TypeOK
  <2> QED
    BY <1>6, <2>1 DEF Pmix, RunPmixHook, Turn, Stops, Hooks
<1>7. CASE ReadFails
  BY <1>7 DEF ReadFails, Turn, Stops
<1>8. CASE Ended
  BY <1>8 DEF Ended
<1> QED
  BY <1>2, <1>3, <1>4, <1>5, <1>6, <1>7, <1>8 DEF Next, Runtime

LEMMA StepIsTyped ==
  ASSUME TypeOK, PlanFits, [Next]_vars
  PROVE  TypeOK' /\ PlanFits'
<1>1. ASSUME NEW h \in Hooks, NEW p \in Seq(OpsOf(h)), Begins(h, p)
      PROVE  TypeOK' /\ PlanFits'
  BY <1>1, StartIsTyped DEF Begins
<1>2. CASE Stops
  BY <1>2, ThrowIsTyped DEF Stops
<1>3. CASE Work
  BY <1>3, WorkIsTyped
<1>4. CASE Create
  BY <1>4, KindsStay DEF Create, TypeOK, PlanFits, Running
<1>5. CASE Slurmd
  <2>1. present' \in SUBSET HostDirs
    BY <1>5 DEF Slurmd, SlurmdStep, TypeOK
  <2> QED
    BY <1>5, <2>1, KindsStay DEF Slurmd, SlurmdStep, TypeOK, PlanFits, Running
<1>6. CASE UNCHANGED vars
  BY <1>6, KindsStay DEF TypeOK, PlanFits, Running
<1> QED
  BY <1>1, <1>2, <1>3, <1>4, <1>5, <1>6, StepsOfNext

(* Every variable keeps its type, whatever the hooks find.                 *)
THEOREM TypeCorrect == Spec => []TypeOK
<1>1. Init => TypeOK /\ PlanFits
  BY InitTyped
<1>2. TypeOK /\ PlanFits /\ [Next]_vars => (TypeOK /\ PlanFits)'
  BY StepIsTyped
<1> QED
  BY <1>1, <1>2, PTL DEF Spec

-----------------------------------------------------------------------------
(* Devices: the next call of the plan allows the only one that is not      *)
(* allowed yet.                                                            *)

LEMMA AllowedAfterMountStays ==
  ASSUME TypeOK, PlanFits, AllowedAfterMount, [Next]_vars
  PROVE  AllowedAfterMount'
<1>1. ASSUME UNCHANGED <<devices, allowed>>, devices \subseteq allowed
      PROVE  AllowedAfterMount'
  BY <1>1 DEF AllowedAfterMount
<1>2. ASSUME ~AwaitsAllow
      PROVE  devices \subseteq allowed
  BY <1>2 DEF AllowedAfterMount
<1>3. ASSUME UNCHANGED <<busy, plan, devices, allowed>>
      PROVE  AllowedAfterMount'
  BY <1>3 DEF AllowedAfterMount, AwaitsAllow
<1>4. ASSUME NEW h \in Hooks, NEW p \in Seq(OpsOf(h)), Begins(h, p)
      PROVE  AllowedAfterMount'
  BY <1>1, <1>2, <1>4 DEF Begins, Start, Turn, AwaitsAllow
<1>5. CASE Stops
  BY <1>3, <1>5 DEF Stops, Throw
<1>6. CASE Work
  <2>1. CASE Return
    BY <1>1, <1>2, <2>1 DEF Return, AwaitsAllow
  <2>2. CASE CallFails
    BY <1>3, <2>2 DEF CallFails, Throw
  <2>3. CASE BindMount
    BY <1>1, <1>2, <2>3 DEF BindMount, Working, AwaitsAllow
  <2>4. CASE DeviceMount
    <3> DEFINE d == Head(plan).dev
    <3>1. devices \subseteq allowed
      BY <1>2, <2>4 DEF DeviceMount, Working, AwaitsAllow
    <3>2. Tail(plan) \in Seq(Ops)
      BY <2>4, HeadTailProperties DEF DeviceMount, Working, TypeOK
    <3>3. /\ busy' /\ plan' = <<Allow(d)>> \o Tail(plan)
          /\ devices' = devices \cup {d} /\ allowed' = allowed
      BY <2>4 DEF DeviceMount, Working
    <3>4. plan' # <<>> /\ Head(plan') = Allow(d)
      BY <3>2, <3>3
    <3>5. AwaitsAllow' /\ Head(plan').dev = d
      BY <3>3, <3>4 DEF AwaitsAllow, Allow
    <3> QED
      BY <3>1, <3>3, <3>5 DEF AllowedAfterMount
  <2>5. CASE WhitelistDevice
    BY <2>5 DEF WhitelistDevice, Working, AllowedAfterMount
  <2>6. CASE DirectoryMount
    BY <1>1, <1>2, <2>6 DEF DirectoryMount, Working, AwaitsAllow
  <2>7. CASE Ldconfig
    BY <1>1, <1>2, <2>7 DEF Ldconfig, Working, AwaitsAllow
  <2> QED
    BY <1>6, <2>1, <2>2, <2>3, <2>4, <2>5, <2>6, <2>7 DEF Work, HookStep
<1>7. CASE Create
  BY <1>3, <1>7 DEF Create
<1>8. CASE Slurmd
  BY <1>3, <1>8 DEF Slurmd, SlurmdStep
<1>9. CASE UNCHANGED vars
  BY <1>3, <1>9
<1> QED
  BY <1>4, <1>5, <1>6, <1>7, <1>8, <1>9, StepsOfNext

LEMMA CreatedIsLastStays ==
  ASSUME TypeOK, PlanFits, CreatedIsLast, [Next]_vars
  PROVE  CreatedIsLast'
<1> USE DEF CreatedIsLast, Created
<1>1. ASSUME NEW h \in Hooks, NEW p \in Seq(OpsOf(h)), Begins(h, p)
      PROVE  CreatedIsLast'
  BY <1>1 DEF Begins, Start, Turn
<1>2. CASE Stops
  BY <1>2 DEF Stops, Throw
<1>3. CASE Work
  BY <1>3 DEF Work, HookStep, Return, CallFails, Throw, BindMount, DeviceMount,
              WhitelistDevice, DirectoryMount, Ldconfig, Working
<1>4. CASE Create
  <2>1. turn > Len(order) /\ Len(order) \in Nat /\ DOMAIN order = 1..Len(order)
    BY <1>4, LenProperties DEF TypeOK, Orders, Create
  <2>2. turn \in Nat /\ turn \notin DOMAIN order
    BY <2>1 DEF TypeOK
  <2>3. ~busy
    BY <2>2 DEF PlanFits
  <2> QED
    BY <1>4, <2>1, <2>3 DEF Create
<1>5. CASE Slurmd \/ UNCHANGED vars
  BY <1>5 DEF Slurmd, SlurmdStep
<1> QED
  BY <1>1, <1>2, <1>3, <1>4, <1>5, StepsOfNext

(* The container starts with no device mounted that its cgroup forbids.    *)
THEOREM DevicesAreUsable == Spec => []DevicesUsable
<1> DEFINE Inv == TypeOK /\ PlanFits /\ AllowedAfterMount /\ CreatedIsLast
<1>1. Init => Inv
  <2>1. Init => devices = {} /\ outcome = "creating"
    BY DEF Init
  <2> QED
    BY <2>1, InitTyped DEF AllowedAfterMount, CreatedIsLast, Created
<1>2. Inv /\ [Next]_vars => Inv'
  BY StepIsTyped, AllowedAfterMountStays, CreatedIsLastStays
<1>3. Inv => DevicesUsable
  BY DEF AllowedAfterMount, AwaitsAllow, CreatedIsLast, DevicesUsable
<1> QED
  BY <1>1, <1>2, <1>3, PTL DEF Spec

-----------------------------------------------------------------------------
(* The directories of PMIx: what is mounted and what the plan still holds  *)
(* make up one appdir and the pmix directory, or nothing.                  *)

Appdirs == {AppdirOfUser, Appdir}

PmixAtWork ==
  \/ mounted = {} /\ plan = <<>>
  \/ \E d \in Appdirs :
       \/ mounted = {} /\ plan = <<Directory(d), Directory(PmixDir)>>
       \/ mounted = {d} /\ plan = <<Directory(PmixDir)>>
       \/ mounted = {d, PmixDir} /\ plan = <<>>

PmixStages ==
  IF Running("pmix") THEN PmixAtWork
  ELSE mounted = {} \/ \E d \in Appdirs : mounted = {d, PmixDir}

(* What is mounted was mounted in the turn of the PMIx hook.               *)
PmixHadItsTurn ==
  mounted # {} => \/ Running("pmix")
                  \/ \E i \in DOMAIN order : order[i] = "pmix" /\ i < turn

LEMMA PmixBegins ==
  ASSUME TypeOK, PmixStages, PmixHadItsTurn,
         NEW h \in Hooks, NEW p \in Seq(OpsOf(h)), Begins(h, p)
  PROVE  (PmixStages /\ PmixHadItsTurn)'
<1>1. /\ ~busy /\ turn \in DOMAIN order /\ order[turn] = h
      /\ busy' /\ plan' = p
      /\ turn' = turn /\ order' = order /\ mounted' = mounted
  BY DEF Begins, Turn, Start
<1>2. ~Running("pmix") /\ (Running("pmix")' <=> h = "pmix")
  BY <1>1 DEF Running
<1>3. CASE h = "pmix"
  <2>1. mounted = {}
    <3>1. \A i \in DOMAIN order : order[i] = order[turn] => i = turn
      BY <1>1 DEF TypeOK, Orders
    <3>2. turn \in Nat
      BY LenProperties DEF TypeOK, Orders
    <3> QED
      BY <1>1, <1>2, <1>3, <3>1, <3>2 DEF PmixHadItsTurn
  <2>2. p = <<>> \/ p = PmixPlan
    BY <1>3 DEF Begins
  <2>3. PmixAtWork'
    BY <1>1, <2>1, <2>2 DEF PmixAtWork, PmixPlan, Appdirs
  <2> QED
    BY <1>1, <1>2, <1>3, <2>1, <2>3 DEF PmixStages, PmixHadItsTurn
<1>4. CASE h # "pmix"
  BY <1>1, <1>2, <1>4 DEF PmixStages, PmixHadItsTurn
<1> QED
  BY <1>3, <1>4

LEMMA PmixWorks ==
  ASSUME TypeOK, PlanFits, PmixStages, PmixHadItsTurn, Work
  PROVE  (PmixStages /\ PmixHadItsTurn)'
<1>1. HookStep /\ order' = order
  BY DEF Work
<1>2. busy /\ turn \in DOMAIN order
  BY <1>1 DEF PlanFits, HookStep, Return, CallFails, BindMount, DeviceMount,
             WhitelistDevice, DirectoryMount, Ldconfig, Working
<1>3. turn \in Nat
  BY LenProperties DEF TypeOK, Orders
<1>4. ASSUME UNCHANGED <<busy, turn, mounted>>, Running("pmix") => plan' = plan
      PROVE  (PmixStages /\ PmixHadItsTurn)'
  BY <1>1, <1>4 DEF PmixStages, PmixHadItsTurn, PmixAtWork, Running
<1>5. ASSUME Running("pmix"), plan # <<>>
      PROVE  Head(plan).op = "directory"
  BY <1>5 DEF PmixStages, PmixAtWork, Directory
<1>6. CASE Return
  <2>1. plan = <<>> /\ ~busy' /\ mounted' = mounted /\ turn' = turn + 1
    BY <1>6 DEF Return
  <2>2. mounted = {} \/ \E d \in Appdirs : mounted = {d, PmixDir}
    BY <2>1 DEF PmixStages, PmixAtWork
  <2>3. PmixStages'
    BY <2>1, <2>2 DEF PmixStages, Running
  <2>4. PmixHadItsTurn'
    BY <1>1, <1>3, <2>1 DEF PmixHadItsTurn, Running
  <2> QED
    BY <2>3, <2>4
<1>7. CASE CallFails
  BY <1>4, <1>7 DEF CallFails, Throw
<1>8. CASE DirectoryMount
  <2>1. plan # <<>> /\ Head(plan).op = "directory"
    BY <1>8 DEF DirectoryMount, Working
  <2>2. Running("pmix")
    <3>1. PICK h \in Hooks : order[turn] = h
      BY <1>2, ElementOfSeq, LenProperties DEF TypeOK, Orders
    <3>2. Head(plan) \in OpsOf(h)
      BY <1>2, <2>1, <3>1, HeadTailProperties DEF PlanFits, Running
    <3>3. h = "pmix"
      BY <2>1, <3>2 DEF OpsOf, MountOps, GlibcOps, LdCacheOps, AmdGpuOps, Hooks
    <3> QED
      BY <1>2, <3>1, <3>3 DEF Running
  <2>3. /\ mounted' = mounted \cup {Head(plan).dir} /\ plan' = Tail(plan)
        /\ busy' = busy /\ turn' = turn
    BY <1>8 DEF DirectoryMount
  <2>4. Running("pmix")'
    BY <1>1, <2>2, <2>3 DEF Running
  <2>5. PmixAtWork'
    <3>1. PICK d \in Appdirs :
            \/ mounted = {} /\ plan = <<Directory(d), Directory(PmixDir)>>
            \/ mounted = {d} /\ plan = <<Directory(PmixDir)>>
      BY <2>1, <2>2 DEF PmixStages, PmixAtWork
    <3>2. CASE mounted = {} /\ plan = <<Directory(d), Directory(PmixDir)>>
      BY <2>3, <3>2 DEF PmixAtWork, Directory
    <3>3. CASE mounted = {d} /\ plan = <<Directory(PmixDir)>>
      <4>1. Head(plan).dir = PmixDir /\ Tail(plan) = <<>>
        BY <3>3 DEF Directory
      <4>2. mounted' = {d, PmixDir}
        BY <2>3, <3>3, <4>1
      <4> QED
        BY <2>3, <4>1, <4>2 DEF PmixAtWork
    <3> QED
      BY <3>1, <3>2, <3>3
  <2> QED
    BY <2>4, <2>5 DEF PmixStages, PmixHadItsTurn
<1>9. CASE BindMount \/ DeviceMount \/ WhitelistDevice \/ Ldconfig
  <2>1. plan # <<>> /\ Head(plan).op # "directory"
    BY <1>9 DEF BindMount, DeviceMount, WhitelistDevice, Ldconfig, Working
  <2>2. UNCHANGED <<busy, turn, mounted>>
    BY <1>9 DEF BindMount, DeviceMount, WhitelistDevice, Ldconfig
  <2> QED
    BY <1>4, <1>5, <2>1, <2>2
<1> QED
  BY <1>1, <1>6, <1>7, <1>8, <1>9 DEF HookStep

LEMMA PmixStays ==
  ASSUME TypeOK, PlanFits, PmixStages, PmixHadItsTurn, [Next]_vars
  PROVE  (PmixStages /\ PmixHadItsTurn)'
<1>1. ASSUME UNCHANGED <<order, turn, busy, plan, mounted>>
      PROVE  (PmixStages /\ PmixHadItsTurn)'
  BY <1>1 DEF PmixStages, PmixHadItsTurn, PmixAtWork, Running
<1>2. CASE Stops \/ Create \/ Slurmd \/ UNCHANGED vars
  BY <1>1, <1>2 DEF Stops, Throw, Create, Slurmd, SlurmdStep
<1> QED
  BY <1>2, StepsOfNext, PmixBegins, PmixWorks

(* The container starts with both directories of PMIx or with none,        *)
(* wherever the hook stands among the others and whatever slurmd does.     *)
THEOREM PmixMountsAllOrNothing == Spec => []PmixAllOrNothing
<1> DEFINE Inv == /\ TypeOK /\ PlanFits /\ CreatedIsLast
                  /\ PmixStages /\ PmixHadItsTurn
<1>1. Init => Inv
  <2>1. Init => mounted = {} /\ outcome = "creating" /\ ~busy
    BY DEF Init
  <2> QED
    BY <2>1, InitTyped
    DEF CreatedIsLast, Created, PmixStages, PmixHadItsTurn, Running
<1>2. Inv /\ [Next]_vars => Inv'
  BY StepIsTyped, CreatedIsLastStays, PmixStays
<1>3. Inv => PmixAllOrNothing
  BY DEF CreatedIsLast, PmixStages, Running, Appdirs, PmixAllOrNothing
<1> QED
  BY <1>1, <1>2, <1>3, PTL DEF Spec

-----------------------------------------------------------------------------
(* Cards: what a container is to see is in devices or still in the plan,   *)
(* and /dev/kfd comes last.                                                *)

DevicesAsked == devices \subseteq ToSet(deviceMounts) \cup GpuDevices

KfdLast(p) == \A i \in DOMAIN p : p[i] = Device(Kfd) => i = Len(p)

Covers(p, ds) == \A d \in GpuDevices : d \in ds \/ \E i \in DOMAIN p : p[i] = Device(d)

GpuPlanComplete ==
  Running("amdgpu") /\ plan # <<>> => KfdLast(plan) /\ Covers(plan, devices)

KfdWithAll == Kfd \in devices \ ToSet(deviceMounts) => GpuDevices \subseteq devices

LEMMA GpuNamesDiffer ==
  ASSUME NEW g, NEW k
  PROVE  /\ Card(g) # Kfd /\ Render(g) # Kfd /\ Card(g) # Render(k)
         /\ Card(g) = Card(k) => g = k
         /\ Render(g) = Render(k) => g = k
BY DEF Card, Render, Kfd

LEMMA AmdGpuPlanComplete ==
  ASSUME TypeOK, NEW ids \in Listings
  PROVE  KfdLast(AmdGpuPlan(ids)) /\ Covers(AmdGpuPlan(ids), {})
<1> DEFINE p == AmdGpuPlan(ids)
           n == Len(ids)
<1>1. n \in Nat /\ DOMAIN ids = 1..n /\ ToSet(ids) = AskedFor
  BY ListingsShowAll, LenProperties
<1>2. Len(p) = 2 * n + 1 /\ DOMAIN p = 1 .. 2 * n + 1
  BY AmdGpuPlanFits DEF AmdGpuPlan
<1>3. KfdLast(p)
  <2> SUFFICES ASSUME NEW k \in 1 .. 2 * n + 1, p[k] = Device(Kfd)
               PROVE  k = 2 * n + 1
    BY <1>2 DEF KfdLast
  <2>1. \/ k > 2 * n
        \/ p[k] = Device(Card(ids[(k + 1) \div 2]))
        \/ p[k] = Device(Render(ids[k \div 2]))
    BY DEF AmdGpuPlan
  <2> QED
    BY <1>1, <2>1, GpuNamesDiffer DEF Device
<1>4. Covers(p, {})
  <2>1. p[2 * n + 1] = Device(Kfd) /\ 2 * n + 1 \in DOMAIN p
    BY <1>1, <1>2 DEF AmdGpuPlan
  <2>2. ASSUME NEW g \in AskedFor
        PROVE  /\ \E i \in DOMAIN p : p[i] = Device(Card(g))
               /\ \E i \in DOMAIN p : p[i] = Device(Render(g))
    <3>1. PICK j \in 1..n : ids[j] = g
      BY <1>1 DEF ToSet
    <3>2. /\ 2 * j \in DOMAIN p /\ 2 * j - 1 \in DOMAIN p
          /\ ~(2 * j > 2 * n) /\ ~(2 * j - 1 > 2 * n)
          /\ (2 * j) % 2 = 0 /\ (2 * j) \div 2 = j
          /\ (2 * j - 1) % 2 = 1 /\ (2 * j - 1 + 1) \div 2 = j
      BY <1>1, <1>2
    <3>3. p[2 * j] = Device(Render(g)) /\ p[2 * j - 1] = Device(Card(g))
      BY <1>1, <1>2, <3>1, <3>2 DEF AmdGpuPlan
    <3> QED
      BY <3>2, <3>3
  <2> QED
    BY <2>1, <2>2 DEF Covers, GpuDevices
<1> QED
  BY <1>3, <1>4

(* Which devices a hook that is at work may mount.                         *)
LEMMA DeviceOfHook ==
  ASSUME TypeOK, PlanFits, DeviceMount
  PROVE  \/ Running("mount") /\ Head(plan).dev \in ToSet(deviceMounts)
         \/ Running("amdgpu") /\ Head(plan).dev \in GpuDevices
<1>1. busy /\ plan # <<>> /\ Head(plan).op = "device" /\ turn \in DOMAIN order
  BY DEF DeviceMount, Working, PlanFits
<1>2. PICK h \in Hooks : order[turn] = h
  BY <1>1, ElementOfSeq, LenProperties DEF TypeOK, Orders
<1>3. Head(plan) \in OpsOf(h)
  BY <1>1, <1>2, HeadTailProperties DEF PlanFits, Running
<1>4. h = "mount" \/ h = "amdgpu"
  BY <1>1, <1>3 DEF OpsOf, GlibcOps, LdCacheOps, PmixOps, Hooks
<1>5. CASE h = "mount"
  BY <1>1, <1>2, <1>3, <1>5 DEF OpsOf, MountOps, Running
<1>6. CASE h = "amdgpu"
  BY <1>1, <1>2, <1>3, <1>6 DEF OpsOf, AmdGpuOps, Running
<1> QED
  BY <1>4, <1>5, <1>6

LEMMA TailElements ==
  ASSUME NEW S, NEW s \in Seq(S), s # <<>>, NEW c \in S
  PROVE  /\ Len(s) \in Nat /\ DOMAIN s = 1..Len(s) /\ 1 \in DOMAIN s /\ Head(s) = s[1]
         /\ DOMAIN Tail(s) = 1 .. Len(s) - 1 /\ Len(Tail(s)) = Len(s) - 1
         /\ \A i \in 1 .. Len(s) - 1 : Tail(s)[i] = s[i + 1]
         /\ DOMAIN (<<c>> \o Tail(s)) = DOMAIN s /\ Len(<<c>> \o Tail(s)) = Len(s)
         /\ (<<c>> \o Tail(s))[1] = c
         /\ \A i \in DOMAIN s : i # 1 => (<<c>> \o Tail(s))[i] = s[i]
<1>1. Len(s) \in Nat /\ DOMAIN s = 1..Len(s) /\ Len(s) # 0
  BY EmptySeq, LenProperties
<1>2. /\ Head(s) = s[1] /\ Tail(s) \in Seq(S) /\ Len(Tail(s)) = Len(s) - 1
      /\ \A i \in 1 .. Len(Tail(s)) : Tail(s)[i] = s[i + 1]
  BY HeadTailProperties
<1>3. DOMAIN Tail(s) = 1 .. Len(s) - 1
  BY <1>2, LenProperties
<1>4. <<c>> \in Seq(S) /\ Len(<<c>>) = 1 /\ <<c>>[1] = c
  OBVIOUS
<1> DEFINE r == <<c>> \o Tail(s)
<1>5. r \in Seq(S) /\ Len(r) = 1 + (Len(s) - 1)
  BY <1>1, <1>2, <1>4, ConcatProperties
<1>6. DOMAIN r = 1..Len(s) /\ Len(r) = Len(s)
  BY <1>1, <1>5, LenProperties
<1>7. \A i \in 1..Len(s) : r[i] = IF i <= 1 THEN <<c>>[i] ELSE Tail(s)[i - 1]
  BY <1>1, <1>2, <1>4, <1>6, ConcatProperties
<1>8. \A i \in 1..Len(s) : i # 1 => r[i] = s[i]
  BY <1>1, <1>2, <1>7
<1>9. r[1] = c
  BY <1>1, <1>4, <1>7
<1> QED
  BY <1>1, <1>2, <1>3, <1>6, <1>8, <1>9

LEMMA GpusBegin ==
  ASSUME TypeOK, DevicesAsked, GpuPlanComplete, KfdWithAll,
         NEW h \in Hooks, NEW p \in Seq(OpsOf(h)), Begins(h, p)
  PROVE  (DevicesAsked /\ GpuPlanComplete /\ KfdWithAll)'
<1>1. /\ order' = order /\ turn' = turn /\ order[turn] = h /\ plan' = p
      /\ UNCHANGED <<devices, deviceMounts, visible, envParses, byPath>>
  BY DEF Begins, Turn, Start
<1>2. GpuDevices' = GpuDevices
  BY <1>1 DEF GpuDevices, AskedFor
<1>3. ASSUME h = "amdgpu", p # <<>>
      PROVE  KfdLast(p) /\ Covers(p, devices)
  BY <1>3, AmdGpuPlanComplete DEF Begins, Covers
<1>4. GpuPlanComplete'
  BY <1>1, <1>2, <1>3 DEF GpuPlanComplete, Running, KfdLast, Covers
<1> QED
  BY <1>1, <1>2, <1>4 DEF DevicesAsked, KfdWithAll

LEMMA GpusWork ==
  ASSUME TypeOK, PlanFits, DevicesAsked, GpuPlanComplete, KfdWithAll, Work
  PROVE  (DevicesAsked /\ GpuPlanComplete /\ KfdWithAll)'
<1>1. HookStep /\ UNCHANGED <<order, deviceMounts, visible, envParses, byPath>>
  BY DEF Work
<1>2. GpuDevices' = GpuDevices
  BY <1>1 DEF GpuDevices, AskedFor
<1>3. busy /\ turn \in DOMAIN order
  BY <1>1 DEF PlanFits, HookStep, Return, CallFails, BindMount, DeviceMount,
             WhitelistDevice, DirectoryMount, Ldconfig, Working
<1>4. ASSUME Running("amdgpu"), plan # <<>>
      PROVE  /\ Head(plan) \in AmdGpuOps /\ plan \in Seq(AmdGpuOps)
             /\ KfdLast(plan) /\ Covers(plan, devices)
  <2>1. plan \in Seq(AmdGpuOps)
    BY <1>4 DEF PlanFits, OpsOf, Hooks
  <2> QED
    BY <1>4, <2>1, HeadTailProperties DEF GpuPlanComplete
<1>5. ASSUME UNCHANGED devices, Running("amdgpu")' => plan' = <<>>
      PROVE  (DevicesAsked /\ GpuPlanComplete /\ KfdWithAll)'
  BY <1>1, <1>2, <1>5 DEF DevicesAsked, GpuPlanComplete, KfdWithAll
<1>6. CASE Return
  BY <1>5, <1>6 DEF Return
<1>7. CASE CallFails
  BY <1>1, <1>2, <1>7
  DEF CallFails, Throw, DevicesAsked, GpuPlanComplete, KfdWithAll, Running,
      KfdLast, Covers
<1>8. CASE BindMount \/ DirectoryMount \/ Ldconfig
  <2>1. /\ plan # <<>> /\ Head(plan).op \notin {"device", "allow"}
        /\ UNCHANGED <<devices, busy, turn>>
    BY <1>8 DEF BindMount, DirectoryMount, Ldconfig, Working
  <2>2. ~Running("amdgpu")
    BY <1>4, <2>1 DEF AmdGpuOps
  <2>3. ~Running("amdgpu")'
    BY <1>1, <2>1, <2>2 DEF Running
  <2> QED
    BY <1>5, <2>1, <2>3
<1>9. CASE WhitelistDevice
  <2>1. /\ plan # <<>> /\ Head(plan).op = "allow" /\ plan' = Tail(plan)
        /\ UNCHANGED <<devices, busy, turn>>
    BY <1>9 DEF WhitelistDevice, Working
  <2>2. ASSUME Running("amdgpu")
        PROVE  KfdLast(Tail(plan)) /\ Covers(Tail(plan), devices)
    <3>1. plan \in Seq(AmdGpuOps) /\ KfdLast(plan) /\ Covers(plan, devices)
      BY <1>4, <2>1, <2>2
    <3>2. /\ Len(plan) \in Nat /\ DOMAIN plan = 1..Len(plan) /\ Head(plan) = plan[1]
          /\ DOMAIN Tail(plan) = 1 .. Len(plan) - 1
          /\ Len(Tail(plan)) = Len(plan) - 1
          /\ \A i \in 1 .. Len(plan) - 1 : Tail(plan)[i] = plan[i + 1]
      BY <1>4, <2>1, <2>2, <3>1, TailElements
    <3>3. KfdLast(Tail(plan))
      BY <3>1, <3>2 DEF KfdLast
    <3>4. ASSUME NEW i \in DOMAIN plan, NEW d, plan[i] = Device(d)
          PROVE  i - 1 \in DOMAIN Tail(plan) /\ Tail(plan)[i - 1] = Device(d)
      <4>1. i # 1
        BY <2>1, <3>2, <3>4 DEF Device
      <4> QED
        BY <3>2, <3>4, <4>1
    <3>5. Covers(Tail(plan), devices)
      BY <3>1, <3>4 DEF Covers
    <3> QED
      BY <3>3, <3>5
  <2>3. Running("amdgpu")' <=> Running("amdgpu")
    BY <1>1, <2>1 DEF Running
  <2>4. GpuPlanComplete'
    BY <1>2, <2>1, <2>2, <2>3 DEF GpuPlanComplete, KfdLast, Covers
  <2> QED
    BY <1>1, <1>2, <2>1, <2>4 DEF DevicesAsked, KfdWithAll
<1>10. CASE DeviceMount
  <2> DEFINE d == Head(plan).dev
  <2>1. /\ plan # <<>> /\ Head(plan).op = "device"
        /\ devices' = devices \cup {d} /\ plan' = <<Allow(d)>> \o Tail(plan)
        /\ UNCHANGED <<busy, turn>>
    BY <1>10 DEF DeviceMount, Working
  <2>2. Running("amdgpu")' <=> Running("amdgpu")
    BY <1>1, <2>1 DEF Running
  <2>3. DevicesAsked'
    BY <1>1, <1>2, <1>10, <2>1, DeviceOfHook DEF DevicesAsked
  <2>4. CASE Running("amdgpu")
    <3>1. plan \in Seq(AmdGpuOps) /\ KfdLast(plan) /\ Covers(plan, devices)
      BY <1>4, <2>1, <2>4
    <3>2. d \in GpuDevices \cap Devices /\ Head(plan) = Device(d)
      BY <1>4, <2>1, <2>4 DEF AmdGpuOps, Device
    <3>3. Allow(d) \in AmdGpuOps
      BY <3>2 DEF Allow, AmdGpuOps
    <3>4. /\ Len(plan) \in Nat /\ DOMAIN plan = 1..Len(plan) /\ Head(plan) = plan[1]
          /\ 1 \in DOMAIN plan
          /\ DOMAIN plan' = DOMAIN plan /\ Len(plan') = Len(plan)
          /\ plan'[1] = Allow(d)
          /\ \A i \in DOMAIN plan : i # 1 => plan'[i] = plan[i]
      BY <2>1, <3>1, <3>3, TailElements
    <3>5. KfdLast(plan')
      <4>1. Allow(d) # Device(Kfd)
        BY DEF Allow, Device
      <4> QED
        BY <3>1, <3>4, <4>1 DEF KfdLast
    <3>6. \A e \in GpuDevices : Device(e) = Device(d) => e = d
      BY DEF Device
    <3>7. Covers(plan', devices')
      BY <2>1, <3>1, <3>2, <3>4, <3>6 DEF Covers
    <3>8. GpuPlanComplete'
      BY <1>2, <3>5, <3>7 DEF GpuPlanComplete, KfdLast, Covers
    <3>9. KfdWithAll'
      <4>1. CASE d # Kfd
        BY <1>1, <1>2, <2>1, <4>1 DEF KfdWithAll
      <4>2. CASE d = Kfd
        <5>1. 1 = Len(plan)
          BY <3>1, <3>2, <3>4, <4>2 DEF KfdLast
        <5>2. \A e \in GpuDevices : e \in devices \/ e = d
          <6>1. DOMAIN plan = {1} /\ plan[1] = Device(d)
            <7>1. DOMAIN plan = 1..1
              BY <3>4, <5>1
            <7> QED
              BY <3>2, <3>4, <7>1
          <6> QED
            BY <3>1, <3>6, <6>1 DEF Covers
        <5> QED
          BY <1>2, <2>1, <5>2 DEF KfdWithAll
      <4> QED
        BY <4>1, <4>2
    <3> QED
      BY <2>3, <3>8, <3>9
  <2>5. CASE ~Running("amdgpu")
    <3>1. d \in ToSet(deviceMounts)
      BY <1>10, <2>5, DeviceOfHook
    <3>2. KfdWithAll'
      BY <1>1, <1>2, <2>1, <3>1 DEF KfdWithAll
    <3> QED
      BY <2>2, <2>3, <2>5, <3>2 DEF GpuPlanComplete
  <2> QED
    BY <2>4, <2>5
<1> QED
  BY <1>1, <1>6, <1>7, <1>8, <1>9, <1>10 DEF HookStep

LEMMA GpusStay ==
  ASSUME TypeOK, PlanFits, DevicesAsked, GpuPlanComplete, KfdWithAll, [Next]_vars
  PROVE  (DevicesAsked /\ GpuPlanComplete /\ KfdWithAll)'
<1>1. ASSUME UNCHANGED <<order, turn, busy, plan, devices, deviceMounts,
                         visible, envParses, byPath>>
      PROVE  (DevicesAsked /\ GpuPlanComplete /\ KfdWithAll)'
  BY <1>1 DEF DevicesAsked, GpuPlanComplete, KfdWithAll, Running, KfdLast,
              Covers, GpuDevices, AskedFor
<1>2. CASE Stops \/ Create \/ Slurmd \/ UNCHANGED vars
  BY <1>1, <1>2 DEF Stops, Throw, Create, Slurmd, SlurmdStep
<1> QED
  BY <1>2, StepsOfNext, GpusBegin, GpusWork

(* The AMD GPU hook has something to mount, or has mounted it, only if     *)
(* every card asked for is there.                                          *)
CardsAreThere ==
  \/ Running("amdgpu") /\ plan # <<>>
  \/ ~(devices \subseteq ToSet(deviceMounts))
  => byPath # None /\ AskedFor \subseteq byPath

LEMMA CardsStay ==
  ASSUME TypeOK, PlanFits, CardsAreThere, [Next]_vars
  PROVE  CardsAreThere'
<1> USE DEF CardsAreThere, Running
<1>1. ASSUME UNCHANGED <<order, turn, busy, plan, devices, deviceMounts,
                         visible, envParses, byPath>>
      PROVE  CardsAreThere'
  BY <1>1 DEF AskedFor
<1>2. CASE Stops \/ Create \/ Slurmd \/ UNCHANGED vars
  BY <1>1, <1>2 DEF Stops, Throw, Create, Slurmd, SlurmdStep
<1>3. ASSUME NEW h \in Hooks, NEW p \in Seq(OpsOf(h)), Begins(h, p)
      PROVE  CardsAreThere'
  <2>1. /\ order' = order /\ turn' = turn /\ order[turn] = h /\ plan' = p
        /\ UNCHANGED <<devices, deviceMounts, visible, envParses, byPath>>
    BY <1>3 DEF Begins, Turn, Start
  <2>2. h = "amdgpu" /\ p # <<>> => byPath # None /\ AskedFor \subseteq byPath
    BY <1>3, ListingsNeedTheCards DEF Begins
  <2> QED
    BY <2>1, <2>2 DEF AskedFor
<1>4. CASE Work
  <2>1. HookStep /\ UNCHANGED <<order, deviceMounts, visible, envParses, byPath>>
    BY <1>4 DEF Work
  <2>2. CASE Return \/ CallFails
    BY <2>1, <2>2 DEF Return, CallFails, Throw, AskedFor
  <2>3. CASE DeviceMount
    <3>1. busy /\ plan # <<>> /\ devices' = devices \cup {Head(plan).dev}
          /\ UNCHANGED <<busy, turn>>
      BY <2>3 DEF DeviceMount, Working
    <3>2. Head(plan).dev \in ToSet(deviceMounts) \/ Running("amdgpu")
      BY <2>3, DeviceOfHook
    <3> QED
      BY <2>1, <3>1, <3>2 DEF AskedFor
  <2>4. CASE BindMount \/ DirectoryMount \/ Ldconfig \/ WhitelistDevice
    <3>1. plan # <<>> /\ UNCHANGED <<devices, busy, turn>>
      BY <2>4 DEF BindMount, DirectoryMount, Ldconfig, WhitelistDevice, Working
    <3> QED
      BY <2>1, <3>1 DEF AskedFor
  <2> QED
    BY <2>1, <2>2, <2>3, <2>4 DEF HookStep
<1> QED
  BY <1>2, <1>3, <1>4, StepsOfNext

(* However many cards there are, however the command line of the mount hook*)
(* and ROCR_VISIBLE_DEVICES overlap, and whether or not the environment can*)
(* be parsed: no device unless all cards asked for are there, no other card*)
(* than those, and with /dev/kfd all of them.                              *)
THEOREM GpusAreThoseAskedFor == Spec => []GpusAreTheVisibleOnes
<1> DEFINE Inv == /\ TypeOK /\ PlanFits /\ CardsAreThere
                  /\ DevicesAsked /\ GpuPlanComplete /\ KfdWithAll
<1>1. Init => Inv
  <2>1. Init => devices = {} /\ ~busy
    BY DEF Init
  <2> QED
    BY <2>1, InitTyped
    DEF DevicesAsked, GpuPlanComplete, KfdWithAll, CardsAreThere, Running
<1>2. Inv /\ [Next]_vars => Inv'
  BY StepIsTyped, GpusStay, CardsStay
<1>3. Inv => GpusAreTheVisibleOnes
  <2> SUFFICES ASSUME Inv
               PROVE  GpusAreTheVisibleOnes
    OBVIOUS
  <2>1. ASSUME NEW g \in Gpus, Card(g) \in GpuDevices \/ Render(g) \in GpuDevices
        PROVE  g \in AskedFor
    BY <2>1, GpuNamesDiffer DEF GpuDevices
  <2>2. \A g \in AskedFor : Card(g) \in GpuDevices /\ Render(g) \in GpuDevices
    BY DEF GpuDevices
  <2> QED
    BY <2>1, <2>2
    DEF GpusAreTheVisibleOnes, DevicesAsked, KfdWithAll, CardsAreThere
<1> QED
  BY <1>1, <1>2, <1>3, PTL DEF Spec

-----------------------------------------------------------------------------
(* The linker's cache: as long as it lacks a library that the mount hook   *)
(* has mounted, ldconfig is still to come, in this hook and in the ldcache *)
(* hook.                                                                   *)

Unlisted == {p \in Listable \ cache :
               libs[p] # NoFile /\ libs[p].origin = "mount hook"}

MountEndsWithRefresh ==
  Running("mount") /\ hasLdconfig /\ plan # <<>> => EndsWithRefresh(plan)

MountWillList == hasLdconfig => Running("mount") /\ plan # <<>>

LdCacheWillList ==
  Before("mount", "ldcache") /\ ~emptyPath =>
    \E j \in DOMAIN order :
      /\ order[j] = "ldcache"
      /\ j > turn \/ (j = turn /\ (busy => plan = <<Refresh>>))

UnlistedWillBe == Unlisted # {} => MountWillList /\ LdCacheWillList

LEMMA ListingBegins ==
  ASSUME TypeOK, MountEndsWithRefresh, UnlistedWillBe,
         NEW h \in Hooks, NEW p \in Seq(OpsOf(h)), Begins(h, p)
  PROVE  (MountEndsWithRefresh /\ UnlistedWillBe)'
<1>1. /\ ~busy /\ turn \in DOMAIN order /\ order[turn] = h
      /\ busy' /\ plan' = p
      /\ UNCHANGED <<turn, order, libs, cache, hasLdconfig, emptyPath>>
  BY DEF Begins, Turn, Start
<1>2. Unlisted' = Unlisted
  BY <1>1 DEF Unlisted
<1>3. MountEndsWithRefresh'
  BY <1>1 DEF MountEndsWithRefresh, Running, Begins
<1>4. ASSUME Unlisted # {}
      PROVE  ~hasLdconfig /\ LdCacheWillList
  BY <1>1, <1>4 DEF UnlistedWillBe, MountWillList, Running
<1>5. ASSUME Unlisted # {}
      PROVE  LdCacheWillList'
  BY <1>1, <1>4, <1>5 DEF LdCacheWillList, Before, Begins
<1>6. UnlistedWillBe'
  BY <1>1, <1>2, <1>4, <1>5 DEF UnlistedWillBe, MountWillList
<1> QED
  BY <1>3, <1>6

LEMMA ListingWorks ==
  ASSUME TypeOK, PlanFits, MountEndsWithRefresh, UnlistedWillBe, Work
  PROVE  (MountEndsWithRefresh /\ UnlistedWillBe)'
<1>1. HookStep /\ UNCHANGED <<order, emptyPath, hasLdconfig>>
  BY DEF Work
<1>2. busy /\ turn \in DOMAIN order /\ turn \in Nat
  <2>1. Len(order) \in Nat
    BY LenProperties DEF TypeOK, Orders
  <2> QED
    BY <1>1, <2>1 DEF TypeOK, PlanFits, HookStep, Return, CallFails, BindMount,
             DeviceMount, WhitelistDevice, DirectoryMount, Ldconfig, Working
<1>3. PICK h \in Hooks : order[turn] = h
  BY <1>2, ElementOfSeq, LenProperties DEF TypeOK, Orders
<1>4. plan \in Seq(OpsOf(h)) /\ plan' \in Seq(OpsOf(h))
  <2>1. plan \in Seq(OpsOf(h))
    BY <1>2, <1>3 DEF PlanFits, Running
  <2> QED
    BY <1>1, <2>1, OpsOfHooks, WorkKeepsKind
(* What is left of a plan ends as the plan did.                            *)
<1>5. ASSUME plan # <<>>, EndsWithRefresh(plan), NEW c \in OpsOf(h),
             plan' = Tail(plan) \/ (plan' = <<c>> \o Tail(plan) /\ Head(plan).op # "ldconfig"),
             plan' # <<>>
      PROVE  EndsWithRefresh(plan')
  <2>1. /\ Len(plan) \in Nat /\ DOMAIN plan = 1..Len(plan) /\ 1 \in DOMAIN plan
        /\ Head(plan) = plan[1]
        /\ Len(Tail(plan)) = Len(plan) - 1
        /\ \A i \in 1 .. Len(plan) - 1 : Tail(plan)[i] = plan[i + 1]
        /\ Len(<<c>> \o Tail(plan)) = Len(plan)
        /\ \A i \in DOMAIN plan : i # 1 => (<<c>> \o Tail(plan))[i] = plan[i]
    BY <1>4, <1>5, TailElements
  <2>2. plan[Len(plan)] = Refresh
    BY <1>5 DEF EndsWithRefresh
  <2>3. CASE plan' = Tail(plan)
    <3>1. Len(plan') \in Nat /\ Len(plan') # 0
      BY <1>4, <1>5, LenProperties, EmptySeq
    <3>2. Len(plan) - 1 \in 1 .. Len(plan) - 1
      BY <2>1, <2>3, <3>1
    <3>3. plan'[Len(plan')] = plan[Len(plan)]
      BY <2>1, <2>3, <3>2
    <3> QED
      BY <1>5, <2>2, <3>3 DEF EndsWithRefresh
  <2>4. CASE plan' = <<c>> \o Tail(plan) /\ Head(plan).op # "ldconfig"
    <3>1. Len(plan) # 1
      BY <2>1, <2>2, <2>4 DEF Refresh
    <3>2. plan'[Len(plan')] = plan[Len(plan)]
      BY <2>1, <2>4, <3>1
    <3> QED
      BY <1>5, <2>2, <3>2 DEF EndsWithRefresh
  <2> QED
    BY <1>5, <2>3, <2>4
(* A call other than ldconfig is not the last of the mount hook.           *)
<1>6. ASSUME plan # <<>>, Head(plan).op # "ldconfig", NEW c \in OpsOf(h),
             plan' = Tail(plan) \/ plan' = <<c>> \o Tail(plan),
             UNCHANGED <<busy, turn>>
      PROVE  /\ MountEndsWithRefresh'
             /\ Running("mount") /\ hasLdconfig => Running("mount")' /\ plan' # <<>>
  <2>1. Running("mount")' <=> Running("mount")
    BY <1>1, <1>6 DEF Running
  <2>2. ASSUME Running("mount"), hasLdconfig
        PROVE  EndsWithRefresh(plan) /\ plan' # <<>>
    <3>1. EndsWithRefresh(plan)
      BY <1>6, <2>2 DEF MountEndsWithRefresh
    <3>2. /\ Len(plan) \in Nat /\ Head(plan) = plan[1] /\ 1 \in 1..Len(plan)
          /\ Len(Tail(plan)) = Len(plan) - 1
          /\ Len(<<c>> \o Tail(plan)) = Len(plan)
      BY <1>4, <1>6, TailElements
    <3>3. Len(plan) # 1
      BY <1>6, <3>1, <3>2 DEF EndsWithRefresh, Refresh
    <3>4. Len(plan') # 0
      BY <1>6, <3>2, <3>3
    <3> QED
      BY <3>1, <3>4
  <2>3. MountEndsWithRefresh'
    BY <1>1, <1>5, <1>6, <2>1, <2>2 DEF MountEndsWithRefresh
  <2> QED
    BY <2>1, <2>2, <2>3
(* The order of the hooks does not change, nor does the turn in a call.    *)
<1>7. ASSUME LdCacheWillList, UNCHANGED <<busy, turn>>, plan # <<>>, Head(plan).op # "ldconfig"
      PROVE  LdCacheWillList'
  <2>1. plan # <<Refresh>>
    BY <1>7 DEF Refresh
  <2> QED
    BY <1>1, <1>2, <1>7, <2>1 DEF LdCacheWillList, Before
<1>8. CASE Return
  <2>1. plan = <<>> /\ ~busy' /\ turn' = turn + 1 /\ UNCHANGED <<libs, cache>>
    BY <1>8 DEF Return
  <2>2. Unlisted' = Unlisted
    BY <2>1 DEF Unlisted
  <2>3. ASSUME LdCacheWillList
        PROVE  LdCacheWillList'
    <3>1. SUFFICES ASSUME Before("mount", "ldcache"), ~emptyPath
                   PROVE  LdCacheWillList'
      BY <1>1 DEF LdCacheWillList, Before
    <3>2. PICK j \in DOMAIN order : order[j] = "ldcache" /\ j > turn
      BY <1>2, <2>1, <2>3, <3>1 DEF LdCacheWillList
    <3>3. j \in Nat /\ (j > turn + 1 \/ j = turn + 1)
      <4>1. DOMAIN order = 1..Len(order)
        BY LenProperties DEF TypeOK, Orders
      <4> QED
        BY <1>2, <3>2, <4>1
    <3> QED
      BY <1>1, <2>1, <3>2, <3>3 DEF LdCacheWillList
  <2>4. UnlistedWillBe'
    BY <1>1, <2>1, <2>2, <2>3 DEF UnlistedWillBe, MountWillList
  <2> QED
    BY <2>1, <2>4 DEF MountEndsWithRefresh, Running
<1>9. CASE CallFails
  <2>1. UNCHANGED <<busy, turn, plan, libs, cache>>
    BY <1>9 DEF CallFails, Throw
  <2> QED
    BY <1>1, <2>1 DEF MountEndsWithRefresh, UnlistedWillBe, Unlisted, Running,
                      MountWillList, LdCacheWillList, Before
<1>10. CASE DeviceMount \/ WhitelistDevice \/ DirectoryMount
  <2>1. /\ plan # <<>> /\ Head(plan).op # "ldconfig"
        /\ UNCHANGED <<busy, turn, libs, cache>>
    BY <1>10 DEF DeviceMount, WhitelistDevice, DirectoryMount, Working
  <2>2. PICK c \in OpsOf(h) : plan' = Tail(plan) \/ plan' = <<c>> \o Tail(plan)
    <3>1. Head(plan) \in OpsOf(h)
      BY <1>4, <2>1, HeadTailProperties
    <3>2. CASE DeviceMount
      BY <3>1, <3>2, OpsOfHooks DEF DeviceMount, Working, Closed
    <3>3. CASE WhitelistDevice \/ DirectoryMount
      BY <3>1, <3>3 DEF WhitelistDevice, DirectoryMount
    <3> QED
      BY <1>10, <3>2, <3>3
  <2>3. Unlisted' = Unlisted
    BY <2>1 DEF Unlisted
  <2> QED
    BY <1>1, <1>6, <1>7, <2>1, <2>2, <2>3 DEF UnlistedWillBe, MountWillList
<1>11. CASE Ldconfig
  <2>1. /\ plan # <<>> /\ Head(plan).op = "ldconfig" /\ plan' = Tail(plan)
        /\ cache' = {p \in Listable : libs[p] # NoFile} /\ libs' = libs
        /\ UNCHANGED <<busy, turn>>
    BY <1>11 DEF Ldconfig, Working
  <2>2. Unlisted' = {}
    BY <2>1 DEF Unlisted
  <2>3. Head(plan) \in OpsOf(h)
    BY <1>4, <2>1, HeadTailProperties
  <2>4. MountEndsWithRefresh'
    BY <1>1, <1>5, <2>1, <2>3 DEF MountEndsWithRefresh, Running
  <2> QED
    BY <2>2, <2>4 DEF UnlistedWillBe
<1>12. CASE BindMount
  <2> DEFINE c == Head(plan)
  <2>1. /\ plan # <<>> /\ c.op = "bind" /\ UNCHANGED <<busy, turn, cache>>
        /\ \E p \in c.at :
             /\ libs' = [libs EXCEPT ![p] = c.file]
             /\ \/ plan' = Tail(plan)
                \/ plan' = <<Bind(c.file, c.at \ {p})>> \o Tail(plan)
    BY <1>12 DEF BindMount, Working
  <2>2. PICK p \in c.at :
          /\ libs' = [libs EXCEPT ![p] = c.file]
          /\ \/ plan' = Tail(plan)
             \/ plan' = <<Bind(c.file, c.at \ {p})>> \o Tail(plan)
    BY <2>1
  <2>3. c \in OpsOf(h)
    BY <1>4, <2>1, HeadTailProperties
  <2>4. Bind(c.file, c.at \ {p}) \in OpsOf(h)
    <3>1. c.at \ {p} \in SUBSET c.at
      OBVIOUS
    <3> QED
      BY <2>1, <2>3, <3>1, OpsOfHooks DEF Closed
  <2>5. /\ MountEndsWithRefresh'
        /\ Running("mount") /\ hasLdconfig => Running("mount")' /\ plan' # <<>>
    BY <1>6, <2>1, <2>2, <2>4
  <2>6. CASE h = "mount"
    <3>1. Running("mount")
      BY <1>2, <1>3, <2>6 DEF Running
    <3>2. MountWillList'
      BY <1>1, <2>5, <3>1 DEF MountWillList
    <3>3. LdCacheWillList'
      <4>1. SUFFICES ASSUME Before("mount", "ldcache")
                     PROVE  \E j \in DOMAIN order : order[j] = "ldcache" /\ j > turn
        BY <1>1, <2>1 DEF LdCacheWillList, Before
      <4>2. PICK i \in DOMAIN order, j \in DOMAIN order :
              i < j /\ order[i] = "mount" /\ order[j] = "ldcache"
        BY <4>1 DEF Before
      <4>3. i = turn
        BY <1>2, <1>3, <2>6, <4>2 DEF TypeOK, Orders
      <4>4. DOMAIN order = 1..Len(order)
        BY LenProperties DEF TypeOK, Orders
      <4> QED
        BY <4>2, <4>3, <4>4
    <3> QED
      BY <2>5, <3>2, <3>3 DEF UnlistedWillBe
  <2>7. CASE h # "mount"
    <3>1. c.file.origin = "glibc hook"
      BY <2>1, <2>3, <2>7 DEF OpsOf, GlibcOps, FilesOf, LdCacheOps, AmdGpuOps, PmixOps
    <3>2. Unlisted' \subseteq Unlisted
      <4>1. libs \in [Paths -> Files \cup {NoFile}] /\ Listable \subseteq Paths
        BY DEF TypeOK, Listable
      <4>2. \A q \in Paths : libs'[q] = libs[q] \/ libs'[q] = c.file
        BY <2>2, <4>1
      <4> QED
        BY <2>1, <3>1, <4>1, <4>2 DEF Unlisted
    <3>3. ASSUME Unlisted # {}
          PROVE  MountWillList' /\ LdCacheWillList'
      BY <1>1, <1>7, <2>1, <2>5, <3>3 DEF UnlistedWillBe, MountWillList
    <3> QED
      BY <2>5, <3>2, <3>3 DEF UnlistedWillBe
  <2> QED
    BY <2>6, <2>7
<1> QED
  BY <1>1, <1>8, <1>9, <1>10, <1>11, <1>12 DEF HookStep

LEMMA ListingStays ==
  ASSUME TypeOK, PlanFits, MountEndsWithRefresh, UnlistedWillBe, [Next]_vars
  PROVE  (MountEndsWithRefresh /\ UnlistedWillBe)'
<1>1. ASSUME UNCHANGED <<order, emptyPath, hasLdconfig, turn, busy, plan, libs, cache>>
      PROVE  (MountEndsWithRefresh /\ UnlistedWillBe)'
  BY <1>1 DEF MountEndsWithRefresh, UnlistedWillBe, Unlisted, Running,
              MountWillList, LdCacheWillList, Before
<1>2. CASE Stops \/ Create \/ Slurmd \/ UNCHANGED vars
  BY <1>1, <1>2 DEF Stops, Throw, Create, Slurmd, SlurmdStep
<1> QED
  BY <1>2, StepsOfNext, ListingBegins, ListingWorks

(* When the container starts no hook has a turn left: nothing is unlisted. *)
LEMMA NoTurnLeft ==
  ASSUME TypeOK, PlanFits, UnlistedWillBe, Create
  PROVE  Unlisted # {} => ~(hasLdconfig \/ (Before("mount", "ldcache") /\ ~emptyPath))
<1>1. DOMAIN order = 1..Len(order) /\ Len(order) \in Nat /\ turn > Len(order)
  BY LenProperties DEF TypeOK, Orders, Create
<1>2. turn \in Nat
  BY <1>1 DEF TypeOK
<1>3. \A j \in DOMAIN order : j < turn
  BY <1>1, <1>2
<1>4. ~Running("mount")
  BY <1>1, <1>2, <1>3 DEF Running
<1>5. \A j \in DOMAIN order : ~(j > turn) /\ j # turn
  BY <1>1, <1>2, <1>3
<1> QED
  BY <1>4, <1>5 DEF UnlistedWillBe, MountWillList, LdCacheWillList

CreatedIsListed ==
  Created /\ (hasLdconfig \/ (Before("mount", "ldcache") /\ ~emptyPath)) => Unlisted = {}

LEMMA CreatedIsListedStays ==
  ASSUME TypeOK, PlanFits, UnlistedWillBe, CreatedIsListed, [Next]_vars
  PROVE  CreatedIsListed'
<1> USE DEF CreatedIsListed, Created
<1>1. ASSUME NEW h \in Hooks, NEW p \in Seq(OpsOf(h)), Begins(h, p)
      PROVE  CreatedIsListed'
  BY <1>1 DEF Begins, Start, Turn
<1>2. CASE Stops
  BY <1>2 DEF Stops, Throw
<1>3. CASE Work
  BY <1>3 DEF Work, HookStep, Return, CallFails, Throw, BindMount, DeviceMount,
              WhitelistDevice, DirectoryMount, Ldconfig, Working
<1>4. CASE Create
  <2>1. UNCHANGED <<order, emptyPath, hasLdconfig, libs, cache>>
    BY <1>4 DEF Create
  <2>2. Unlisted' = Unlisted /\ (Before("mount", "ldcache")' <=> Before("mount", "ldcache"))
    BY <2>1 DEF Unlisted, Before
  <2> QED
    BY <1>4, <2>1, <2>2, NoTurnLeft
<1>5. ASSUME UNCHANGED <<outcome, order, emptyPath, hasLdconfig, libs, cache>>
      PROVE  CreatedIsListed'
  BY <1>5 DEF Unlisted, Before
<1>6. CASE Slurmd \/ UNCHANGED vars
  BY <1>5, <1>6 DEF Slurmd, SlurmdStep
<1> QED
  BY <1>1, <1>2, <1>3, <1>4, <1>6, StepsOfNext

(* Whatever the order of the hooks and however often the cache is made     *)
(* again: with ldconfig in the mount hook, or with the ldcache hook after  *)
(* it, the cache lists each of its libraries when the container starts.    *)
THEOREM MountedLibsGetListed == Spec => []MountedLibsAreListed
<1> DEFINE Inv == /\ TypeOK /\ PlanFits /\ CreatedIsListed
                  /\ MountEndsWithRefresh /\ UnlistedWillBe
<1>1. Init => Inv
  <2> SUFFICES ASSUME Init
               PROVE  Inv
    OBVIOUS
  <2>1. PICK s \in Scenarios : Init!(s)
    BY DEF Init
  <2>2. \A p \in Paths : libs[p] # NoFile => libs[p].origin = "image"
    BY <2>1, ScenariosAssumption
  <2>3. Unlisted = {} /\ ~busy
    BY <2>1, <2>2 DEF Unlisted, Listable
  <2> QED
    BY <2>3, InitTyped
    DEF CreatedIsListed, MountEndsWithRefresh, UnlistedWillBe, Running
<1>2. Inv /\ [Next]_vars => Inv'
  BY StepIsTyped, ListingStays, CreatedIsListedStays
<1>3. Inv => MountedLibsAreListed
  BY DEF CreatedIsListed, Unlisted, Listable, MountedLibsAreListed
<1> QED
  BY <1>1, <1>2, <1>3, PTL DEF Spec

-----------------------------------------------------------------------------
(* Libraries.  What the steps do to the container's libraries, its cache   *)
(* and the paths where a mount is awaited; what else a plan holds does not *)
(* matter here.                                                            *)

libraryVars == <<stage, turn, busy, plan, files, glibcVars, mountVars>>

Awaited(q) == busy /\ \E j \in DOMAIN plan : plan[j].op = "bind" /\ q \in plan[j].at
StillAwaited == \A q \in Paths : Awaited(q) => Awaited(q)'

(* The hook h has begun, and has perhaps returned.                         *)
Came(h) == \E j \in DOMAIN order : order[j] = h /\ (j < turn \/ (j = turn /\ busy))

Returns == plan = <<>> /\ ~busy' /\ turn' = turn + 1 /\ UNCHANGED files

Calls == /\ plan # <<>> /\ UNCHANGED <<turn, busy, files>> /\ StillAwaited
         /\ Running("ldcache") => plan' = plan

Lists == /\ plan # <<>> /\ UNCHANGED <<turn, busy, libs>> /\ StillAwaited
         /\ ~Running("glibc")
         /\ hasCache' /\ cache' = {p \in Listable : libs[p] # NoFile}

Binds(p) ==
  /\ plan # <<>> /\ UNCHANGED <<turn, busy, hasCache, cache>>
  /\ libs'[p] # NoFile /\ libs'[p].bits = 64
  /\ \/ Running("glibc") /\ libs'[p].origin = "glibc hook" /\ p.name \in GlibcNames
     \/ Running("mount") /\ libs'[p].origin = "mount hook" /\ p.name \in MountNames
  /\ \A q \in Paths : q # p => libs'[q] = libs[q] /\ (Awaited(q) => Awaited(q)')

LEMMA OnlyOneRuns ==
  ASSUME NEW h, NEW k, Running(h), Running(k)
  PROVE  h = k
BY DEF Running

LEMMA HookAtWork ==
  ASSUME TypeOK, PlanFits, Work
  PROVE  /\ busy /\ turn \in DOMAIN order /\ turn \in Nat
         /\ \E h \in Hooks : order[turn] = h /\ Running(h) /\ plan \in Seq(OpsOf(h))
<1>1. busy /\ turn \in DOMAIN order
  BY DEF Work, PlanFits, HookStep, Return, CallFails, BindMount, DeviceMount,
         WhitelistDevice, DirectoryMount, Ldconfig, Working
<1>2. Len(order) \in Nat
  BY LenProperties DEF TypeOK, Orders
<1>3. turn \in Nat
  BY <1>2 DEF TypeOK
<1>4. PICK h \in Hooks : order[turn] = h
  BY <1>1, ElementOfSeq, LenProperties DEF TypeOK, Orders
<1> QED
  BY <1>1, <1>3, <1>4 DEF PlanFits, Running

(* What is awaited beyond the next call is awaited after it.               *)
LEMMA RestIsAwaited ==
  ASSUME NEW S, plan \in Seq(S), plan # <<>>, busy, busy', NEW c \in S,
         plan' = Tail(plan) \/ plan' = <<c>> \o Tail(plan),
         NEW q, NEW j \in DOMAIN plan, j # 1, plan[j].op = "bind", q \in plan[j].at
  PROVE  Awaited(q)'
<1>1. /\ Len(plan) \in Nat /\ DOMAIN plan = 1..Len(plan)
      /\ DOMAIN Tail(plan) = 1 .. Len(plan) - 1
      /\ \A i \in 1 .. Len(plan) - 1 : Tail(plan)[i] = plan[i + 1]
      /\ DOMAIN (<<c>> \o Tail(plan)) = DOMAIN plan
      /\ \A i \in DOMAIN plan : i # 1 => (<<c>> \o Tail(plan))[i] = plan[i]
  BY TailElements
<1>2. j \in Nat /\ j - 1 \in 1 .. Len(plan) - 1 /\ (j - 1) + 1 = j
  BY <1>1
<1>3. CASE plan' = Tail(plan)
  <2>1. Tail(plan)[j - 1] = plan[j]
    BY <1>1, <1>2
  <2>2. plan'[j - 1] = plan[j] /\ j - 1 \in DOMAIN plan'
    BY <1>1, <1>2, <1>3, <2>1
  <2> QED
    BY <2>2 DEF Awaited
<1>4. CASE plan' = <<c>> \o Tail(plan)
  BY <1>1, <1>4 DEF Awaited
<1> QED
  BY <1>3, <1>4

LEMMA WorkOnLibs ==
  ASSUME TypeOK, PlanFits, Work
  PROVE  Returns \/ Calls \/ Lists \/ \E p \in Paths : Binds(p)
<1>1. PICK h \in Hooks : order[turn] = h /\ Running(h) /\ plan \in Seq(OpsOf(h))
  BY HookAtWork
<1>2. busy /\ HookStep /\ UNCHANGED <<stage, mounts>>
  BY HookAtWork DEF Work
<1>3. plan # <<>> => /\ Head(plan) \in OpsOf(h) /\ Head(plan) = plan[1]
                     /\ 1 \in DOMAIN plan
  BY <1>1, HeadTailProperties, LenProperties, EmptySeq
<1>4. CASE Return
  BY <1>4 DEF Return, Returns
<1>5. CASE CallFails
  <2>1. plan # <<>> /\ UNCHANGED <<turn, busy, plan, files>>
    BY <1>5 DEF CallFails, Throw
  <2> QED
    BY <2>1 DEF Calls, StillAwaited, Awaited
<1>6. CASE DeviceMount \/ WhitelistDevice \/ DirectoryMount \/ Ldconfig
  <2>1. plan # <<>> /\ Head(plan).op # "bind" /\ UNCHANGED <<turn, busy>>
    BY <1>6 DEF DeviceMount, WhitelistDevice, DirectoryMount, Ldconfig, Working
  <2>2. PICK c \in OpsOf(h) : plan' = Tail(plan) \/ plan' = <<c>> \o Tail(plan)
    <3>1. CASE DeviceMount
      <4>1. Head(plan).op = "device" /\ plan' = <<Allow(Head(plan).dev)>> \o Tail(plan)
        BY <3>1 DEF DeviceMount, Working
      <4> QED
        BY <1>3, <2>1, <4>1, OpsOfHooks DEF Closed
    <3>2. CASE WhitelistDevice \/ DirectoryMount \/ Ldconfig
      BY <1>3, <2>1, <3>2 DEF WhitelistDevice, DirectoryMount, Ldconfig
    <3> QED
      BY <1>6, <3>1, <3>2
  <2>3. StillAwaited
    <3> SUFFICES ASSUME NEW q \in Paths, Awaited(q)
                 PROVE  Awaited(q)'
      BY DEF StillAwaited
    <3>1. PICK j \in DOMAIN plan : plan[j].op = "bind" /\ q \in plan[j].at
      BY DEF Awaited
    <3>2. j # 1 /\ busy'
      BY <1>2, <1>3, <2>1, <3>1
    <3> QED
      BY <1>1, <1>2, <2>1, <2>2, <3>1, <3>2, RestIsAwaited
  <2>4. CASE Ldconfig
    <3>1. Head(plan).op = "ldconfig"
      BY <2>4 DEF Ldconfig, Working
    <3>2. h # "glibc"
      BY <1>3, <2>1, <3>1 DEF OpsOf, GlibcOps
    <3>3. ~Running("glibc")
      BY <1>1, <3>2 DEF Running
    <3> QED
      BY <2>1, <2>3, <2>4, <3>3 DEF Ldconfig, Lists
  <2>5. CASE DeviceMount \/ WhitelistDevice \/ DirectoryMount
    <3>1. Head(plan).op # "ldconfig"
      BY <2>5 DEF DeviceMount, WhitelistDevice, DirectoryMount, Working
    <3>2. h # "ldcache"
      BY <1>3, <2>1, <3>1 DEF OpsOf, LdCacheOps
    <3>3. ~Running("ldcache")
      BY <1>1, <3>2 DEF Running
    <3>4. UNCHANGED files
      BY <2>5 DEF DeviceMount, WhitelistDevice, DirectoryMount
    <3> QED
      BY <2>1, <2>3, <3>3, <3>4 DEF Calls
  <2> QED
    BY <1>6, <2>4, <2>5
<1>7. CASE BindMount
  <2> DEFINE b == Head(plan)
  <2>1. /\ plan # <<>> /\ b.op = "bind" /\ UNCHANGED <<turn, busy, hasCache, cache>>
        /\ \E p \in b.at : /\ libs' = [libs EXCEPT ![p] = b.file]
                           /\ plan' = IF b.at = {p} THEN Tail(plan)
                                      ELSE <<Bind(b.file, b.at \ {p})>> \o Tail(plan)
    BY <1>7 DEF BindMount, Working
  <2>2. PICK p \in b.at : /\ libs' = [libs EXCEPT ![p] = b.file]
                          /\ plan' = IF b.at = {p} THEN Tail(plan)
                                     ELSE <<Bind(b.file, b.at \ {p})>> \o Tail(plan)
    BY <2>1
  <2>3. \/ h = "glibc" /\ b.file \in FilesOf("glibc hook") /\ b.at \in SUBSET Named(GlibcNames)
        \/ h = "mount" /\ b.file \in FilesOf("mount hook") /\ b.at \in SUBSET Named(MountNames)
    BY <1>3, <2>1 DEF OpsOf, GlibcOps, MountOps, LdCacheOps, AmdGpuOps, PmixOps
  <2>4. p \in Paths /\ b.file \in Files /\ b.file.bits = 64
    BY <2>3 DEF FilesOf, Named
  <2>5. libs'[p] = b.file /\ \A q \in Paths : q # p => libs'[q] = libs[q]
    BY <2>2, <2>4 DEF TypeOK
  <2>6. b.file # NoFile
    BY <2>4, ContainerAssumption
  <2>7. ASSUME NEW q \in Paths, q # p, Awaited(q)
        PROVE  Awaited(q)'
    <3>1. PICK j \in DOMAIN plan : plan[j].op = "bind" /\ q \in plan[j].at
      BY <2>7 DEF Awaited
    <3>2. Bind(b.file, b.at \ {p}) \in OpsOf(h)
      <4>1. b.at \ {p} \in SUBSET b.at
        OBVIOUS
      <4> QED
        BY <1>3, <2>1, <4>1, OpsOfHooks DEF Closed
    <3>3. CASE j # 1
      BY <1>1, <1>2, <2>1, <2>2, <3>1, <3>2, <3>3, RestIsAwaited
    <3>4. CASE j = 1
      <4> DEFINE c == Bind(b.file, b.at \ {p})
      <4>1. q \in b.at
        BY <1>3, <2>1, <3>1, <3>4
      <4>2. plan' = <<c>> \o Tail(plan) /\ c.op = "bind" /\ q \in c.at
        BY <2>2, <2>7, <4>1 DEF Bind
      <4>3. c \in OpsOf(h)
        BY <3>2
      <4> HIDE DEF c
      <4>4. DOMAIN (<<c>> \o Tail(plan)) = DOMAIN plan /\ (<<c>> \o Tail(plan))[1] = c
        BY <1>1, <2>1, <4>3, TailElements
      <4>5. 1 \in DOMAIN plan' /\ plan'[1] = c
        BY <1>3, <2>1, <4>2, <4>4
      <4> QED
        BY <1>2, <2>1, <4>2, <4>5 DEF Awaited
    <3> QED
      BY <3>3, <3>4
  <2>8. \/ Running("glibc") /\ b.file.origin = "glibc hook" /\ p.name \in GlibcNames
        \/ Running("mount") /\ b.file.origin = "mount hook" /\ p.name \in MountNames
    BY <1>1, <2>3 DEF FilesOf, Named
  <2>9. Binds(p)
    BY <2>1, <2>4, <2>5, <2>6, <2>7, <2>8 DEF Binds
  <2> QED
    BY <2>4, <2>9
<1> QED
  BY <1>2, <1>4, <1>5, <1>6, <1>7 DEF HookStep

LEMMA LibrarySteps ==
  ASSUME TypeOK, [Next]_vars
  PROVE  \/ \E h \in Hooks : \E p \in Seq(OpsOf(h)) : Begins(h, p)
         \/ Work \/ UNCHANGED libraryVars
<1> USE DEF libraryVars
<1>1. CASE Stops \/ Create \/ Slurmd \/ UNCHANGED vars
  BY <1>1 DEF Stops, Throw, Create, Slurmd, SlurmdStep
<1> QED
  BY <1>1, StepsOfNext

LEMMA BeginEffect ==
  ASSUME TypeOK, NEW h \in Hooks, NEW p, Begins(h, p)
  PROVE  /\ ~busy /\ busy' /\ plan' = p /\ turn \in DOMAIN order /\ turn \in Nat
         /\ order[turn] = h /\ UNCHANGED <<turn, files, stage, version, mountArgs>>
         /\ ~Came(h) /\ \A k \in Hooks : Came(k)' <=> Came(k) \/ k = h
         /\ \A k \in Hooks : ~Running(k) /\ (Running(k)' <=> k = h)
<1>1. /\ ~busy /\ busy' /\ plan' = p /\ turn \in DOMAIN order /\ order[turn] = h
      /\ UNCHANGED <<turn, files, stage, version, mountArgs>>
  BY DEF Begins, Turn, Start
<1>2. turn \in Nat /\ \A j \in DOMAIN order : order[j] = h => j = turn
  <2>1. Len(order) \in Nat
    BY LenProperties DEF TypeOK, Orders
  <2> QED
    BY <1>1, <2>1 DEF TypeOK, Orders
<1>3. ~Came(h)
  BY <1>1, <1>2 DEF Came
<1>4. ASSUME NEW k \in Hooks
      PROVE  Came(k)' <=> Came(k) \/ k = h
  BY <1>1, <1>2 DEF Came
<1> QED
  BY <1>1, <1>2, <1>3, <1>4 DEF Running

LEMMA WorkEffect ==
  ASSUME TypeOK, PlanFits, Work
  PROVE  /\ UNCHANGED <<stage, glibcVars, mountVars>>
         /\ \A k \in Hooks : Came(k)' <=> Came(k)
         /\ ~Returns => \A k \in Hooks : Running(k)' <=> Running(k)
<1>1. UNCHANGED <<stage, glibcVars, mountVars>>
  BY DEF Work
<1>2. busy /\ turn \in Nat /\ \A j \in DOMAIN order : j \in Nat
  <2>1. DOMAIN order = 1..Len(order)
    BY LenProperties DEF TypeOK, Orders
  <2> QED
    BY <2>1, HookAtWork
<1>3. CASE Returns
  BY <1>1, <1>2, <1>3 DEF Returns, Came
<1>4. CASE ~Returns
  <2>1. UNCHANGED <<turn, busy>>
    BY <1>4, WorkOnLibs DEF Calls, Lists, Binds
  <2> QED
    BY <1>1, <1>4, <2>1 DEF Came, Running
<1> QED
  BY <1>3, <1>4

-----------------------------------------------------------------------------
(* What the image had is still there, and the cache that the ldcache hook  *)
(* has made lists it.                                                      *)

ImageStays ==
  \A p \in Paths : image.libs[p] # NoFile =>
    libs[p] # NoFile /\ (image.libs[p].bits = 64 => libs[p].bits = 64)

CacheRemade ==
  /\ ~emptyPath
  /\ \E j \in DOMAIN order : /\ order[j] = "ldcache"
                             /\ j < turn \/ (j = turn /\ busy /\ plan = <<>>)

CacheListsImage ==
  /\ CacheRemade => hasCache /\ \A p \in Listable : image.libs[p] # NoFile => p \in cache
  /\ \A p \in image.cache : image.libs[p] # NoFile => p \in cache

ImageKept == ImageStays /\ CacheListsImage

LEMMA InitImage == Init => ImageKept
<1> SUFFICES ASSUME Init
             PROVE  ImageKept
  OBVIOUS
<1>1. image.libs = libs /\ image.cache = cache /\ turn = 1 /\ ~busy
  BY DEF Init
<1>2. DOMAIN order = 1..Len(order)
  BY InitTyped, LenProperties DEF TypeOK, Orders
<1> QED
  BY <1>1, <1>2 DEF ImageKept, ImageStays, CacheListsImage, CacheRemade

LEMMA StepImage ==
  ASSUME TypeOK, PlanFits, ImageKept, [Next]_vars
  PROVE  ImageKept'
<1> USE DEF ImageKept, ImageStays
<1>1. ASSUME NEW h \in Hooks, NEW p \in Seq(OpsOf(h)), Begins(h, p)
      PROVE  ImageKept'
  <2>1. /\ busy' /\ plan' = p /\ order[turn] = h
        /\ UNCHANGED <<turn, files, stage>>
    BY <1>1, BeginEffect
  <2>2. h = "ldcache" /\ ~emptyPath => p # <<>>
    BY <1>1 DEF Begins
  <2>3. CacheRemade' => CacheRemade
    BY <2>1, <2>2 DEF CacheRemade
  <2> QED
    BY <2>1, <2>3 DEF CacheListsImage
<1>2. CASE Work
  <2>1. /\ UNCHANGED stage /\ turn \in Nat /\ turn \in DOMAIN order /\ busy
        /\ \A j \in DOMAIN order : j \in Nat
    <3>1. DOMAIN order = 1..Len(order)
      BY LenProperties DEF TypeOK, Orders
    <3> QED
      BY <1>2, <3>1, HookAtWork DEF Work
  <2>2. CASE Returns
    <3>1. CacheRemade' => CacheRemade
      BY <2>1, <2>2 DEF CacheRemade, Returns
    <3> QED
      BY <2>1, <2>2, <3>1 DEF CacheListsImage, Returns
  <2>3. CASE Calls
    <3>1. CacheRemade' => CacheRemade
      BY <2>1, <2>3 DEF CacheRemade, Calls, Running
    <3> QED
      BY <2>1, <2>3, <3>1 DEF CacheListsImage, Calls
  <2>4. CASE Lists
    <3>1. \A p \in Listable : image.libs[p] # NoFile => p \in cache'
      BY <2>4 DEF Lists, Listable
    <3>2. image.cache \subseteq Listable
      BY DEF TypeOK
    <3> QED
      BY <2>1, <2>4, <3>1, <3>2 DEF CacheListsImage, Lists
  <2>5. ASSUME NEW p \in Paths, Binds(p)
        PROVE  ImageKept'
    <3>1. ~Running("ldcache")
      BY <2>5 DEF Binds, Running
    <3>2. CacheRemade' => CacheRemade
      BY <2>1, <2>5, <3>1 DEF CacheRemade, Binds, Running
    <3>3. ImageStays'
      BY <2>1, <2>5 DEF Binds
    <3> QED
      BY <2>1, <2>5, <3>2, <3>3 DEF CacheListsImage, Binds
  <2> QED
    BY <1>2, <2>2, <2>3, <2>4, <2>5, WorkOnLibs
<1>3. CASE UNCHANGED libraryVars
  BY <1>3 DEF libraryVars, CacheListsImage, CacheRemade
<1> QED
  BY <1>1, <1>2, <1>3, LibrarySteps
-----------------------------------------------------------------------------
(* An older glibc is replaced.  Once the glibc hook has had its turn, after*)
(* an ldcache hook, and the image has a libc and is older: the host's libc *)
(* is there or is awaited.  No other hook takes it away: the mount hook    *)
(* does not mount under that name.                                         *)

ImageHasLibc ==
  \E p \in Paths : /\ p.dir \in LinkerDirs /\ p.name \in LibcNames
                   /\ image.libs[p] # NoFile /\ image.libs[p].bits = 64

LibcAt(p) == p \in GlibcPaths \/ (Running("glibc") /\ Awaited(p))

LibcComing ==
  Before("ldcache", "glibc") /\ ~emptyPath /\ HasToBeReplaced /\ ImageHasLibc
  /\ Came("glibc")
  => \E p \in Paths : p.name \in HostLibcNames /\ LibcAt(p)

MountsSpare == MountNames \cap HostLibcNames = {}

(* The order of the hooks is a sequence without repetitions.               *)
LEMMA HooksOrder ==
  ASSUME TypeOK
  PROVE  /\ Len(order) \in Nat /\ DOMAIN order = 1..Len(order) /\ turn \in Nat
         /\ \A i, j \in DOMAIN order : order[i] = order[j] => i = j
BY LenProperties DEF TypeOK, Orders

(* When the container has started, every configured hook has come.         *)
LEMMA AllCame ==
  ASSUME TypeOK, CreatedIsLast, Created, NEW j \in DOMAIN order
  PROVE  Came(order[j])
BY HooksOrder DEF CreatedIsLast, Came

(* In the turn of a hook after it, the ldcache hook has made the cache.    *)
LEMMA RemadeBefore ==
  ASSUME TypeOK, ~emptyPath, NEW h, Before("ldcache", h),
         turn \in DOMAIN order, order[turn] = h
  PROVE  CacheRemade
BY HooksOrder DEF Before, CacheRemade

LEMMA LibcBegins ==
  ASSUME TypeOK, ImageKept, LibcComing,
         NEW h \in Hooks, NEW p \in Seq(OpsOf(h)), Begins(h, p)
  PROVE  LibcComing'
<1>1. /\ ~busy /\ busy' /\ plan' = p /\ turn \in DOMAIN order /\ order[turn] = h
      /\ UNCHANGED <<turn, files, stage, version>>
      /\ \A k \in Hooks : Came(k)' <=> Came(k) \/ k = h
      /\ \A k \in Hooks : ~Running(k) /\ (Running(k)' <=> k = h)
  BY BeginEffect
<1>2. /\ Before("ldcache", "glibc")' <=> Before("ldcache", "glibc")
      /\ HasToBeReplaced' <=> HasToBeReplaced
      /\ ImageHasLibc' <=> ImageHasLibc
      /\ GlibcPaths' = GlibcPaths /\ emptyPath' = emptyPath
  BY <1>1 DEF Before, HasToBeReplaced, ImageHasLibc, GlibcPaths
<1>3. CASE h # "glibc"
  <2>1. Came("glibc")' <=> Came("glibc")
    BY <1>1, <1>3 DEF Hooks
  <2>2. \A q \in Paths : LibcAt(q) => LibcAt(q)'
    BY <1>1, <1>2 DEF LibcAt, Hooks
  <2> QED
    BY <1>2, <2>1, <2>2 DEF LibcComing
<1>4. CASE h = "glibc"
  <2> SUFFICES ASSUME Before("ldcache", "glibc"), ~emptyPath, HasToBeReplaced, ImageHasLibc
               PROVE  \E q \in Paths : q.name \in HostLibcNames /\ LibcAt(q)'
    BY <1>2 DEF LibcComing
  <2>1. hasCache /\ \A q \in Listable : image.libs[q] # NoFile => q \in cache
    BY <1>1, <1>4, RemadeBefore DEF ImageKept, CacheListsImage
  <2>2. ContainerLibcs # {}
    <3>1. PICK q \in Paths : /\ q.dir \in LinkerDirs /\ q.name \in LibcNames
                             /\ image.libs[q] # NoFile /\ image.libs[q].bits = 64
      BY DEF ImageHasLibc
    <3>2. q \in cache /\ Is64(q)
      BY <2>1, <3>1 DEF Listable, ImageKept, ImageStays, Is64
    <3> QED
      BY <3>1, <3>2 DEF ContainerLibcs, ContainerLibs
  <2>3. p = Replacements /\ HostLibc # None
    BY <1>4, <2>1, <2>2 DEF Begins, GlibcBegins
  <2>4. PICK i \in DOMAIN HostLibs : HostLibs[i].file \in LibcNames
    BY <2>3 DEF HostLibc
  <2>5. HostLibs[i] \in HostLibcs
    BY <2>4 DEF HostLibcs, ToSet
  <2>6. /\ HostLibs[i].file \in HostLibcNames /\ HostLibs[i].soname \in HostLibcNames
        /\ HostLibs[i] \in [file : Names, soname : Names]
    BY <2>5, GlibcAssumption, ElementOfSeq, LenProperties DEF HostLibcNames
  <2>7. i \in DOMAIN Replacements /\ Replacements[i].op = "bind"
        /\ \E q \in Replacements[i].at : q \in Paths /\ q.name \in HostLibcNames
    <3>1. /\ i \in DOMAIN Replacements /\ Replacements[i].op = "bind"
          /\ Replacements[i].at = IF Counterparts(HostLibs[i].soname) # {}
                                  THEN Counterparts(HostLibs[i].soname)
                                  ELSE {[dir |-> Lib64, name |-> HostLibs[i].file]}
      BY DEF Replacements, Bind
    <3>2. \A q \in Counterparts(HostLibs[i].soname) :
            q \in Paths /\ q.name = HostLibs[i].soname
      BY DEF Counterparts, ContainerLibs, TypeOK, Listable
    <3>3. [dir |-> Lib64, name |-> HostLibs[i].file] \in Paths
      BY <2>6, ContainerAssumption DEF Paths
    <3> QED
      BY <2>6, <3>1, <3>2, <3>3
  <2>8. PICK q \in Replacements[i].at : q \in Paths /\ q.name \in HostLibcNames
    BY <2>7
  <2>9. Running("glibc")' /\ Awaited(q)'
    <3>1. plan' = Replacements
      BY <1>1, <2>3
    <3> QED
      BY <1>1, <1>4, <2>7, <2>8, <3>1 DEF Awaited
  <2> QED
    BY <2>8, <2>9 DEF LibcAt
<1> QED
  BY <1>3, <1>4

LEMMA LibcWorks ==
  ASSUME TypeOK, PlanFits, MountsSpare, LibcComing, Work
  PROVE  LibcComing'
<1>1. /\ UNCHANGED <<stage, glibcVars, mountVars>>
      /\ Came("glibc")' <=> Came("glibc")
      /\ ~Returns => (Running("glibc")' <=> Running("glibc"))
  BY WorkEffect DEF Hooks
<1>2. /\ Before("ldcache", "glibc")' <=> Before("ldcache", "glibc")
      /\ HasToBeReplaced' <=> HasToBeReplaced
      /\ ImageHasLibc' <=> ImageHasLibc
  BY <1>1 DEF Before, HasToBeReplaced, ImageHasLibc
<1>3. ASSUME NEW p \in Paths, p.name \in HostLibcNames, LibcAt(p)
      PROVE  LibcAt(p)'
  <2>1. CASE Returns
    <3>1. ~Awaited(p)
      BY <2>1 DEF Returns, Awaited
    <3> QED
      BY <1>3, <2>1, <3>1 DEF LibcAt, Returns, GlibcPaths
  <2>2. CASE Calls
    BY <1>1, <1>3, <2>2 DEF LibcAt, Calls, Returns, StillAwaited, GlibcPaths
  <2>3. CASE Lists
    BY <1>3, <2>3 DEF LibcAt, Lists, GlibcPaths
  <2>4. ASSUME NEW q \in Paths, Binds(q)
        PROVE  LibcAt(p)'
    <3>1. ~Returns /\ (Running("glibc")' <=> Running("glibc"))
      BY <1>1, <2>4 DEF Binds, Returns
    <3>2. CASE q # p
      BY <1>3, <2>4, <3>1, <3>2 DEF Binds, LibcAt, GlibcPaths
    <3>3. CASE q = p
      BY <1>3, <2>4, <3>3 DEF Binds, LibcAt, GlibcPaths, MountsSpare
    <3> QED
      BY <3>2, <3>3
  <2> QED
    BY <2>1, <2>2, <2>3, <2>4, WorkOnLibs
<1> QED
  BY <1>1, <1>2, <1>3 DEF LibcComing

LEMMA LibcStays ==
  ASSUME TypeOK, PlanFits, ImageKept, MountsSpare, LibcComing, [Next]_vars
  PROVE  MountsSpare' /\ LibcComing'
<1>1. CASE UNCHANGED libraryVars
  BY <1>1 DEF libraryVars, MountsSpare, MountNames, LibcComing, LibcAt, GlibcPaths, Awaited,
              Running, Came, Before, HasToBeReplaced, ImageHasLibc
<1>2. CASE Work
  BY <1>2, LibcWorks, WorkEffect DEF MountsSpare, MountNames
<1>3. ASSUME NEW h \in Hooks, NEW p \in Seq(OpsOf(h)), Begins(h, p)
      PROVE  MountsSpare' /\ LibcComing'
  BY <1>3, LibcBegins, BeginEffect DEF MountsSpare, MountNames
<1> QED
  BY <1>1, <1>2, <1>3, LibrarySteps

(* Whatever the image, its cache, the order of the hooks and the libraries *)
(* of the host: with an ldcache hook before it, the glibc hook replaces an *)
(* older glibc wherever ld.so finds it, and the replacement is still there *)
(* when the container starts, if the mount hook does not mount over it.    *)
THEOREM OldGlibcGetsReplaced ==
  ASSUME \A s \in Scenarios : MountsSpareLibc(s)
  PROVE  Spec => []OldGlibcIsReplaced
<1> DEFINE Inv == /\ TypeOK /\ PlanFits /\ ImageKept
                  /\ CreatedIsLast /\ MountsSpare /\ LibcComing
<1>1. Init => Inv
  <2> SUFFICES ASSUME Init
               PROVE  Inv
    OBVIOUS
  <2>1. PICK s \in Scenarios : Init!(s)
    BY DEF Init
  <2>2. MountsSpare
    BY <2>1 DEF MountsSpare, MountNames, MountsSpareLibc
  <2>3. ~Came("glibc")
    BY <2>1, InitTyped, HooksOrder DEF Came
  <2>4. CreatedIsLast
    BY <2>1 DEF CreatedIsLast, Created
  <2> QED
    BY <2>2, <2>3, <2>4, InitTyped, InitImage DEF LibcComing
<1>2. Inv /\ [Next]_vars => Inv'
  BY StepIsTyped, StepImage, CreatedIsLastStays, LibcStays
<1>3. Inv => OldGlibcIsReplaced
  <2> SUFFICES ASSUME Inv, Created, Before("ldcache", "glibc"), ~emptyPath,
                      HasToBeReplaced, ImageHasLibc
               PROVE  GlibcPaths # {}
    BY DEF OldGlibcIsReplaced, ImageHasLibc
  <2>1. Came("glibc")
    BY AllCame DEF Before
  <2>2. ~Running("glibc")
    BY DEF CreatedIsLast, Running
  <2> QED
    BY <2>1, <2>2 DEF LibcComing, LibcAt
<1> QED
  BY <1>1, <1>2, <1>3, PTL DEF Spec

-----------------------------------------------------------------------------
(* No mixture of two versions of glibc.  From the moment the glibc hook has*)
(* its plan, each library of the image under one of its sonames is one that*)
(* the cache lacked or one that the plan still replaces; and a library that*)
(* is not the image's is where ld.so finds it before any other, or will be.*)

GlibcCameFirst == GlibcPaths # {} => Came("glibc")

Replacing == GlibcPaths # {} \/ (Running("glibc") /\ plan # <<>>)

Coming(p) == Running("glibc") /\ Awaited(p)
Owned(p) == Is64(p) /\ libs[p].origin = "image"
Foreign(p) == Is64(p) /\ libs[p].origin # "image"
Found(p) == p \in cache \/ (p.dir = Lib64 /\ \A q \in cache : q.name = p.name => ~Owned(q))

OwnLeave(s) == \A p \in Paths : p.name = s /\ Owned(p) => p \in missed \/ Coming(p)
OtherFound(s) == \E p \in Paths : p.name = s /\ Found(p) /\ (Foreign(p) \/ Coming(p))

NoMixture == Replacing => \A i \in DOMAIN HostLibs :
                            /\ OwnLeave(HostLibs[i].soname)
                            /\ HostLibs[i].file = HostLibs[i].soname
                                 => OtherFound(HostLibs[i].soname)

(* The plan of the glibc hook.                                             *)
LEMMA MixtureOfPlan ==
  ASSUME TypeOK, plan' = Replacements, Running("glibc")', UNCHANGED files,
         missed' = {q \in Paths : Is64(q)} \ cache,
         NEW i \in DOMAIN HostLibs
  PROVE  /\ OwnLeave(HostLibs[i].soname)'
         /\ HostLibs[i].file = HostLibs[i].soname => OtherFound(HostLibs[i].soname)'
<1> DEFINE s == HostLibs[i].soname
<1>1. /\ i \in DOMAIN Replacements /\ Replacements[i].op = "bind"
      /\ Replacements[i].at = IF Counterparts(s) # {} THEN Counterparts(s)
                              ELSE {[dir |-> Lib64, name |-> HostLibs[i].file]}
  BY DEF Replacements, Bind
<1>2. ASSUME NEW p, p \in Replacements[i].at
      PROVE  Coming(p)'
  <2>1. busy'
    BY DEF Running
  <2> QED
    BY <1>1, <1>2, <2>1 DEF Coming, Awaited
<1>3. /\ HostLibs[i] \in [file : Names, soname : Names] /\ Lib64 \in Dirs
      /\ cache \subseteq Paths
  <2>1. \A j \in DOMAIN HostLibs : HostLibs[j] \in [file : Names, soname : Names]
    BY GlibcAssumption, ElementOfSeq, LenProperties
  <2> QED
    BY <2>1, ContainerAssumption DEF TypeOK, Listable
<1>4. \A p : p \in Counterparts(s) <=> p \in cache /\ Is64(p) /\ p.name = s
  BY DEF Counterparts, ContainerLibs
<1>5. \A p : (Is64(p)' <=> Is64(p)) /\ (Owned(p)' <=> Owned(p)) /\ (Owned(p) => Is64(p))
  BY DEF Is64, Owned
<1>6. OwnLeave(s)'
  <2> SUFFICES ASSUME NEW p \in Paths, p.name = s, Owned(p)
               PROVE  p \in missed' \/ Coming(p)'
    BY <1>5 DEF OwnLeave
  <2>1. CASE p \in cache
    BY <1>1, <1>2, <1>4, <1>5, <2>1
  <2>2. CASE p \notin cache
    BY <1>5, <2>2
  <2> QED
    BY <2>1, <2>2
<1>7. ASSUME HostLibs[i].file = s
      PROVE  OtherFound(s)'
  <2>1. CASE Counterparts(s) # {}
    <3>1. PICK p \in Counterparts(s) : TRUE
      BY <2>1
    <3>2. p \in Paths /\ p.name = s /\ p \in cache' /\ Coming(p)'
      BY <1>1, <1>2, <1>3, <1>4, <2>1, <3>1
    <3> QED
      BY <3>2 DEF OtherFound, Found
  <2>2. CASE Counterparts(s) = {}
    <3> DEFINE p == [dir |-> Lib64, name |-> s]
    <3>1. p \in Paths /\ p.dir = Lib64 /\ p.name = s /\ Coming(p)'
      BY <1>1, <1>2, <1>3, <1>7, <2>2 DEF Paths
    <3>2. \A q \in cache' : q.name = s => ~Owned(q)'
      BY <1>4, <1>5, <2>2
    <3> HIDE DEF p
    <3>3. Found(p)'
      BY <3>1, <3>2 DEF Found
    <3> QED
      BY <3>1, <3>3 DEF OtherFound
  <2> QED
    BY <2>1, <2>2
<1> QED
  BY <1>6, <1>7

LEMMA MixtureBegins ==
  ASSUME TypeOK, GlibcCameFirst, NoMixture,
         NEW h \in Hooks, NEW p \in Seq(OpsOf(h)), Begins(h, p)
  PROVE  GlibcCameFirst' /\ NoMixture'
<1>1. /\ ~busy /\ busy' /\ plan' = p /\ ~Came(h) /\ UNCHANGED files
      /\ \A k \in Hooks : Came(k)' <=> Came(k) \/ k = h
      /\ \A k \in Hooks : ~Running(k) /\ (Running(k)' <=> k = h)
  BY BeginEffect
<1>2. GlibcPaths' = GlibcPaths /\ GlibcCameFirst'
  BY <1>1 DEF GlibcPaths, GlibcCameFirst, Hooks
<1>3. ASSUME missed' = missed, Replacing
      PROVE  NoMixture'
  <2>1. \A q : ~Coming(q) /\ (Owned(q)' <=> Owned(q)) /\ (Foreign(q)' <=> Foreign(q))
    BY <1>1 DEF Coming, Awaited, Owned, Foreign, Is64
  <2>2. \A q : Found(q) => Found(q)'
    BY <1>1, <2>1 DEF Found
  <2>3. ASSUME NEW s
        PROVE  (OwnLeave(s) => OwnLeave(s)') /\ (OtherFound(s) => OtherFound(s)')
    BY <1>3, <2>1, <2>2 DEF OwnLeave, OtherFound
  <2> QED
    BY <1>3, <2>3 DEF NoMixture
<1>4. CASE h # "glibc"
  <2>1. missed' = missed /\ (Replacing' <=> Replacing)
    BY <1>1, <1>2, <1>4 DEF Begins, Replacing, Hooks
  <2> QED
    BY <1>2, <1>3, <2>1 DEF NoMixture
<1>5. CASE h = "glibc"
  <2>1. GlibcPaths = {} /\ Running("glibc")'
    BY <1>1, <1>5 DEF GlibcCameFirst
  <2>2. CASE p = <<>>
    <3>1. ~Replacing'
      BY <1>1, <1>2, <2>1, <2>2 DEF Replacing
    <3> QED
      BY <1>2, <3>1 DEF NoMixture
  <2>3. CASE p # <<>>
    <3>1. p = Replacements /\ missed' = {q \in Paths : Is64(q)} \ cache
      BY <1>5, <2>3 DEF Begins, GlibcBegins
    <3> QED
      BY <1>1, <1>2, <2>1, <3>1, MixtureOfPlan DEF NoMixture
  <2> QED
    BY <2>2, <2>3
<1> QED
  BY <1>4, <1>5

LEMMA MixtureWorks ==
  ASSUME TypeOK, PlanFits, GlibcCameFirst, NoMixture, Work
  PROVE  GlibcCameFirst' /\ NoMixture'
<1>1. /\ missed' = missed
      /\ Came("glibc")' <=> Came("glibc")
      /\ ~Returns => (Running("glibc")' <=> Running("glibc"))
  BY WorkEffect DEF Hooks
<1>2. ASSUME Replacing' => Replacing,
             \A s : (OwnLeave(s) => OwnLeave(s)') /\ (OtherFound(s) => OtherFound(s)')
      PROVE  NoMixture'
  BY <1>2 DEF NoMixture
<1>3. ASSUME libs' = libs
      PROVE  /\ GlibcPaths' = GlibcPaths
             /\ \A q : (Owned(q)' <=> Owned(q)) /\ (Foreign(q)' <=> Foreign(q))
  BY <1>3 DEF GlibcPaths, Owned, Foreign, Is64
<1>4. CASE Returns
  <2>1. \A q : ~Coming(q)
    BY <1>4 DEF Returns, Coming, Awaited
  <2>2. (Replacing' => Replacing) /\ GlibcCameFirst'
    BY <1>1, <1>3, <1>4 DEF Returns, Replacing, Running, GlibcCameFirst
  <2>3. \A q : Found(q) => Found(q)'
    BY <1>3, <1>4 DEF Returns, Found
  <2>4. ASSUME NEW s
        PROVE  (OwnLeave(s) => OwnLeave(s)') /\ (OtherFound(s) => OtherFound(s)')
    BY <1>1, <1>3, <1>4, <2>1, <2>3 DEF Returns, OwnLeave, OtherFound
  <2> QED
    BY <1>2, <2>2, <2>4
<1>5. CASE Calls
  <2>1. UNCHANGED <<libs, cache>> /\ plan # <<>> /\ ~Returns
    BY <1>5 DEF Calls, Returns
  <2>2. \A q \in Paths : Coming(q) => Coming(q)'
    BY <1>1, <1>5, <2>1 DEF Calls, StillAwaited, Coming
  <2>3. (Replacing' => Replacing) /\ GlibcCameFirst'
    BY <1>1, <1>3, <2>1 DEF Replacing, GlibcCameFirst
  <2>4. \A q : Found(q) => Found(q)'
    BY <1>3, <2>1 DEF Found
  <2>5. ASSUME NEW s
        PROVE  (OwnLeave(s) => OwnLeave(s)') /\ (OtherFound(s) => OtherFound(s)')
    BY <1>1, <1>3, <2>1, <2>2, <2>4 DEF OwnLeave, OtherFound
  <2> QED
    BY <1>2, <2>3, <2>5
<1>6. CASE Lists
  <2>1. libs' = libs /\ cache' = {q \in Listable : libs[q] # NoFile} /\ ~Running("glibc")
        /\ ~Returns
    BY <1>6 DEF Lists, Returns
  <2>2. \A q : ~Coming(q)
    BY <2>1 DEF Coming
  <2>3. (Replacing' => Replacing) /\ GlibcCameFirst'
    BY <1>1, <1>3, <2>1 DEF Replacing, GlibcCameFirst
  <2>4. ASSUME NEW q \in Paths, Found(q), Foreign(q)
        PROVE  Found(q)'
    <3>1. q \in Listable /\ libs[q] # NoFile
      BY <2>4, ContainerAssumption DEF Found, Foreign, Is64, Listable, TypeOK
    <3> QED
      BY <2>1, <3>1 DEF Found
  <2>5. ASSUME NEW s
        PROVE  (OwnLeave(s) => OwnLeave(s)') /\ (OtherFound(s) => OtherFound(s)')
    BY <1>1, <1>3, <2>1, <2>2, <2>4 DEF OwnLeave, OtherFound
  <2> QED
    BY <1>2, <2>3, <2>5
<1>7. ASSUME NEW r \in Paths, Binds(r)
      PROVE  GlibcCameFirst' /\ NoMixture'
  <2>1. /\ plan # <<>> /\ cache' = cache /\ ~Returns
        /\ \A q \in Paths : q # r => libs'[q] = libs[q] /\ (Awaited(q) => Awaited(q)')
    BY <1>7 DEF Binds, Returns
  <2>2. Foreign(r)' /\ ~Owned(r)'
    BY <1>7 DEF Binds, Foreign, Owned, Is64
  <2>3. \A q \in Paths : q # r =>
          /\ Owned(q)' <=> Owned(q)
          /\ Foreign(q)' <=> Foreign(q)
          /\ Coming(q) => Coming(q)'
    BY <1>1, <2>1 DEF Owned, Foreign, Is64, Coming
  <2>4. (Replacing' => Replacing) /\ GlibcCameFirst'
    <3>1. CASE Running("glibc")
      BY <1>1, <2>1, <3>1 DEF Replacing, GlibcCameFirst, Running, Came
    <3>2. CASE ~Running("glibc")
      <4>1. GlibcPaths' \subseteq GlibcPaths
        BY <1>7, <2>1, <3>2 DEF Binds, GlibcPaths
      <4> QED
        BY <1>1, <2>1, <3>2, <4>1 DEF Replacing, GlibcCameFirst
    <3> QED
      BY <3>1, <3>2
  <2>5. \A q \in Paths : Found(q) => Found(q)'
    <3>1. cache \subseteq Paths
      BY DEF TypeOK, Listable
    <3> QED
      BY <2>1, <2>2, <2>3, <3>1 DEF Found
  <2>6. ASSUME NEW s
        PROVE  (OwnLeave(s) => OwnLeave(s)') /\ (OtherFound(s) => OtherFound(s)')
    <3>1. OwnLeave(s) => OwnLeave(s)'
      BY <1>1, <2>2, <2>3 DEF OwnLeave
    <3>2. \A q \in Paths : Foreign(q) \/ Coming(q) => Foreign(q)' \/ Coming(q)'
      BY <2>2, <2>3
    <3> QED
      BY <2>5, <3>1, <3>2 DEF OtherFound
  <2> QED
    BY <1>2, <2>4, <2>6
<1> QED
  BY <1>4, <1>5, <1>6, <1>7, WorkOnLibs, <1>1

LEMMA MixtureStays ==
  ASSUME TypeOK, PlanFits, GlibcCameFirst, NoMixture, [Next]_vars
  PROVE  GlibcCameFirst' /\ NoMixture'
<1>1. CASE UNCHANGED libraryVars
  <2>1. GlibcCameFirst' /\ (Replacing' => Replacing)
    BY <1>1 DEF libraryVars, GlibcCameFirst, Replacing, GlibcPaths, Running, Came
  <2>2. ASSUME NEW s
        PROVE  OwnLeave(s) => OwnLeave(s)'
    BY <1>1 DEF libraryVars, OwnLeave, Owned, Coming, Is64, Awaited, Running
  <2>3. ASSUME NEW s
        PROVE  OtherFound(s) => OtherFound(s)'
    BY <1>1 DEF libraryVars, OtherFound, Found, Foreign, Owned, Coming, Is64, Awaited, Running
  <2> QED
    BY <2>1, <2>2, <2>3 DEF NoMixture
<1> QED
  BY <1>1, LibrarySteps, MixtureBegins, MixtureWorks

(* What ld.so finds when no replacement is awaited any more.               *)
LEMMA LoaderFindsOther ==
  ASSUME TypeOK, NEW s
  PROVE  LET own == {p \in LoaderFinds(s) : libs[p].origin = "image"}
         IN  /\ \A p \in own : p \in Paths /\ p.name = s /\ Owned(p)
             /\ (\E p \in Paths : p.name = s /\ Found(p) /\ Foreign(p))
                  => LoaderFinds(s) # own
<1> DEFINE found == LoaderFinds(s)
           listed == {p \in cache : p.name = s /\ Is64(p)}
           inLib64 == {p \in Paths : p.dir = Lib64 /\ p.name = s /\ Is64(p)}
           inDefaults == {p \in Paths : p.dir \in DefaultDirs /\ p.name = s /\ Is64(p)}
<1>1. found = IF listed # {} THEN listed ELSE IF inLib64 # {} THEN inLib64 ELSE inDefaults
  BY DEF LoaderFinds
<1>2. cache \subseteq Paths
  BY DEF TypeOK, Listable
<1>3. \A p \in found : p \in Paths /\ p.name = s /\ Is64(p)
  BY <1>1, <1>2
<1>4. ASSUME NEW p \in Paths, p.name = s, Found(p), Foreign(p)
      PROVE  \E q \in found : libs[q].origin # "image"
  <2>1. Is64(p) /\ libs[p].origin # "image"
    BY <1>4 DEF Foreign
  <2>2. CASE p \in cache
    BY <1>1, <1>4, <2>1, <2>2
  <2>3. CASE p \notin cache /\ listed # {}
    BY <1>1, <1>4, <2>3 DEF Found, Owned
  <2>4. CASE p \notin cache /\ listed = {}
    BY <1>1, <1>4, <2>1, <2>4 DEF Found
  <2> QED
    BY <2>2, <2>3, <2>4
<1> QED
  BY <1>3, <1>4 DEF Owned

(* Whatever the image, its cache, the order of the hooks, what they mount  *)
(* and which call fails: a container that starts does not load one library *)
(* from the host's glibc and another from the image's.                     *)
THEOREM GlibcIsNotMixed == Spec => []NoGlibcMixture
<1> DEFINE Inv == TypeOK /\ PlanFits /\ CreatedIsLast /\ GlibcCameFirst /\ NoMixture
<1>1. Init => Inv
  <2> SUFFICES ASSUME Init
               PROVE  Inv
    OBVIOUS
  <2>1. PICK s \in Scenarios : Init!(s)
    BY DEF Init
  <2>2. \A p \in Paths : libs[p] # NoFile => libs[p].origin = "image"
    BY <2>1, ScenariosAssumption
  <2>3. GlibcPaths = {} /\ ~busy /\ ~Created
    BY <2>1, <2>2 DEF GlibcPaths, Created
  <2> QED
    BY <2>3, InitTyped DEF CreatedIsLast, GlibcCameFirst, NoMixture, Replacing, Running
<1>2. Inv /\ [Next]_vars => Inv'
  BY StepIsTyped, CreatedIsLastStays, MixtureStays
<1>3. Inv => NoGlibcMixture
  <2> SUFFICES ASSUME Inv, Created, GlibcPaths # {}, NEW i \in DOMAIN HostLibs
               PROVE  LET found == LoaderFinds(HostLibs[i].soname)
                          own == {p \in found : libs[p].origin = "image"}
                      IN  /\ own \subseteq missed
                          /\ HostLibs[i].file = HostLibs[i].soname => found # own
    BY DEF NoGlibcMixture
  <2>1. \A p : ~Coming(p)
    BY DEF CreatedIsLast, Coming, Running
  <2>2. /\ OwnLeave(HostLibs[i].soname)
        /\ HostLibs[i].file = HostLibs[i].soname => OtherFound(HostLibs[i].soname)
    BY DEF NoMixture, Replacing
  <2> QED
    BY <2>1, <2>2, LoaderFindsOther DEF OwnLeave, OtherFound
<1> QED
  BY <1>1, <1>2, <1>3, PTL DEF Spec

-----------------------------------------------------------------------------
(* Providers of libfabric.  What the cache lists of libfabric in the turn  *)
(* of the mount hook is what the image has of it, and so it is at the end. *)

NoFabricMounted == MountNames \cap FabricNames = {}

FabricsOfImage ==
  NoFabricMounted => \A p \in Paths : p.name \in FabricNames => libs[p] = image.libs[p]

FabricsKnown ==
  \/ Before("ldcache", "mount") /\ ~emptyPath
  \/ \A p \in Paths : image.libs[p] # NoFile /\ p.name \in FabricNames => p \in image.cache

ImageFabrics == {p \in Listable : p.name \in FabricNames /\ image.libs[p] # NoFile}

ImageFabrics64 == \A p \in ImageFabrics : image.libs[p].bits = 64

MountConfigured == mounts # <<>> => "mount" \in ToSet(order)

LooksIn == IF fiProviderPath # None THEN {fiProviderPath}
           ELSE IF ImageFabrics # {} THEN {FabricDir[p.dir] : p \in ImageFabrics}
           ELSE {UsrLib}

ProviderAt(m) == \E q \in Paths : /\ q.dir \in LooksIn /\ q.name = m.name
                                  /\ libs[q] # NoFile \/ Awaited(q)

ProvidersComing ==
  FabricsKnown /\ NoFabricMounted /\ hasLdconfig /\ ~listFailed /\ Came("mount")
  => \A i \in DOMAIN mounts : mounts[i].dir = Wildcard => ProviderAt(mounts[i])

LEMMA CacheListsFabrics ==
  ASSUME TypeOK, ImageKept, FabricsOfImage, NoFabricMounted, FabricsKnown,
         Before("ldcache", "mount") /\ ~emptyPath => CacheRemade
  PROVE  /\ Libfabrics = ImageFabrics
         /\ \A p \in Listable : p.name \in FabricNames => libs[p] = image.libs[p]
<1>1. cache \subseteq Listable /\ Listable \subseteq Paths
  BY DEF TypeOK, Listable
<1>2. \A p \in Paths : p.name \in FabricNames => libs[p] = image.libs[p]
  BY DEF FabricsOfImage
<1>3. ASSUME NEW p \in ImageFabrics
      PROVE  p \in cache
  <2>1. p \in Listable /\ p \in Paths /\ image.libs[p] # NoFile /\ p.name \in FabricNames
    BY <1>1 DEF ImageFabrics
  <2> QED
    BY <2>1 DEF FabricsKnown, ImageKept, CacheListsImage
<1>4. ImageFabrics = {p \in cache : p.name \in FabricNames /\ libs[p] # NoFile}
  BY <1>1, <1>2, <1>3 DEF ImageFabrics
<1> QED
  BY <1>1, <1>2, <1>4 DEF Libfabrics

(* The mount hook looks where libfabric will.                              *)
LEMMA HookLooksThere ==
  ASSUME Libfabrics = ImageFabrics, hasLdconfig
  PROVE  FiProviderPaths = LooksIn
BY DEF FiProviderPaths, LooksIn

LEMMA LibfabricLooksThere ==
  ASSUME TypeOK, Libfabrics = ImageFabrics, ImageFabrics64,
         \A p \in Listable : p.name \in FabricNames => libs[p] = image.libs[p]
  PROVE  ProviderDirs = LooksIn
<1>1. DefaultDirs \subseteq LinkerDirs /\ Lib64 \in LinkerDirs
  BY ContainerAssumption
<1>2. \A p \in Listable : p.name \in FabricNames => (p \in cache /\ Is64(p) <=> p \in ImageFabrics)
  BY DEF Libfabrics, ImageFabrics, ImageFabrics64, Is64
<1>3. \A p \in Paths : p.dir \in LinkerDirs /\ p.name \in FabricNames /\ Is64(p) => p \in ImageFabrics
  BY DEF Listable, ImageFabrics, Is64
<1>4. cache \subseteq Listable /\ ImageFabrics \subseteq Listable
  BY DEF TypeOK, ImageFabrics
<1>5. ASSUME NEW n \in FabricNames
      PROVE  LoaderFinds(n) = {p \in ImageFabrics : p.name = n}
  <2> DEFINE listed == {p \in cache : p.name = n /\ Is64(p)}
             inLib64 == {p \in Paths : p.dir = Lib64 /\ p.name = n /\ Is64(p)}
             inDefaults == {p \in Paths : p.dir \in DefaultDirs /\ p.name = n /\ Is64(p)}
  <2>1. LoaderFinds(n) = IF listed # {} THEN listed
                         ELSE IF inLib64 # {} THEN inLib64 ELSE inDefaults
    BY DEF LoaderFinds
  <2>2. listed = {p \in ImageFabrics : p.name = n}
    BY <1>2, <1>4
  <2>3. inLib64 \subseteq listed /\ inDefaults \subseteq listed
    BY <1>1, <1>3, <2>2
  <2> HIDE DEF listed, inLib64, inDefaults
  <2> QED
    BY <2>1, <2>2, <2>3
<1>6. UNION {LoaderFinds(n) : n \in FabricNames} = ImageFabrics
  <2>1. \A p \in ImageFabrics : p.name \in FabricNames
    BY DEF ImageFabrics
  <2> QED
    BY <1>5, <2>1
<1> QED
  BY <1>6 DEF ProviderDirs, LooksIn

LEMMA ConcatStarts ==
  ASSUME NEW S, NEW s \in Seq(S), NEW r \in Seq(S), NEW i \in DOMAIN s
  PROVE  s \o r \in Seq(S) /\ i \in DOMAIN (s \o r) /\ (s \o r)[i] = s[i]
<1>1. /\ Len(s) \in Nat /\ DOMAIN s = 1..Len(s) /\ Len(r) \in Nat
      /\ s \o r \in Seq(S) /\ Len(s \o r) = Len(s) + Len(r)
  BY LenProperties, ConcatProperties
<1>2. DOMAIN (s \o r) = 1 .. Len(s) + Len(r)
  BY <1>1, LenProperties
<1>3. i \in 1 .. Len(s) + Len(r) /\ i <= Len(s)
  BY <1>1
<1>4. (s \o r)[i] = s[i]
  BY <1>3, ConcatProperties
<1> QED
  BY <1>1, <1>2, <1>3, <1>4

(* Each mount of the command line is in the plan.                          *)
LEMMA MountPlanStarts ==
  ASSUME TypeOK, NEW fi, NEW i \in DOMAIN mounts
  PROVE  /\ i \in DOMAIN MountPlan(fi) /\ MountPlan(fi)[i].op = "bind"
         /\ MountPlan(fi)[i].at = {Destination(mounts[i], fi)}
<1> DEFINE B(k) == Bind([origin |-> "mount hook", soname |-> mounts[k].name, bits |-> 64],
                        {Destination(mounts[k], fi)})
           binds == [k \in DOMAIN mounts |-> B(k)]
           devs == [k \in DOMAIN deviceMounts |-> Device(deviceMounts[k])]
           last == IF hasLdconfig THEN <<Refresh>> ELSE <<>>
           S == {B(k) : k \in DOMAIN mounts} \cup {devs[k] : k \in DOMAIN deviceMounts}
                \cup {Refresh}
<1>1. /\ Len(mounts) \in Nat /\ DOMAIN mounts = 1..Len(mounts)
      /\ Len(deviceMounts) \in Nat /\ DOMAIN deviceMounts = 1..Len(deviceMounts)
  BY LenProperties DEF TypeOK, Mounts
<1>2. binds \in Seq(S)
  <2>1. binds \in [1..Len(mounts) -> S]
    BY <1>1
  <2> HIDE DEF S, binds
  <2> QED
    BY <1>1, <2>1, FunctionIsSequence
<1>3. devs \in Seq(S)
  <2>1. devs \in [1..Len(deviceMounts) -> S]
    BY <1>1
  <2> HIDE DEF S, devs
  <2> QED
    BY <1>1, <2>1, FunctionIsSequence
<1>4. last \in Seq(S)
  <2>1. Refresh \in S
    OBVIOUS
  <2> HIDE DEF S
  <2> QED
    BY <2>1
<1>5. /\ i \in DOMAIN binds /\ binds[i].op = "bind"
      /\ binds[i].at = {Destination(mounts[i], fi)}
  BY DEF Bind
<1>6. MountPlan(fi) = (binds \o devs) \o last
  BY DEF MountPlan
<1> HIDE DEF S, binds, devs, last
<1>7. /\ binds \o devs \in Seq(S) /\ i \in DOMAIN (binds \o devs)
      /\ (binds \o devs)[i] = binds[i]
  BY <1>2, <1>3, <1>5, ConcatStarts
<1>8. /\ i \in DOMAIN ((binds \o devs) \o last)
      /\ ((binds \o devs) \o last)[i] = (binds \o devs)[i]
  BY <1>4, <1>7, ConcatStarts
<1> QED
  BY <1>5, <1>6, <1>7, <1>8

LEMMA FabricsStay ==
  ASSUME TypeOK, PlanFits, GlibcHasNoFabric, FabricsOfImage, [Next]_vars
  PROVE  /\ FabricsOfImage'
         /\ UNCHANGED <<stage, mountArgs>>
<1>1. UNCHANGED <<stage, mountArgs>>
  BY LibrarySteps, BeginEffect, WorkEffect DEF libraryVars
<1>2. (NoFabricMounted' <=> NoFabricMounted) /\ MountNames' = MountNames
  BY <1>1 DEF NoFabricMounted, MountNames
<1>3. CASE UNCHANGED libs
  BY <1>1, <1>2, <1>3 DEF FabricsOfImage
<1>4. CASE Work
  <2>1. ASSUME NEW q \in Paths, Binds(q), NoFabricMounted
        PROVE  q.name \notin FabricNames
    <3>1. q.name \in GlibcNames \/ q.name \in MountNames
      BY <2>1 DEF Binds
    <3>2. \A n \in GlibcNames : n \notin FabricNames
      BY DEF GlibcNames, GlibcHasNoFabric
    <3> QED
      BY <2>1, <3>1, <3>2 DEF NoFabricMounted
  <2>2. ASSUME NEW q \in Paths, Binds(q)
        PROVE  FabricsOfImage'
    BY <1>1, <1>2, <2>1, <2>2 DEF Binds, FabricsOfImage
  <2> QED
    <3>1. (\E q \in Paths : Binds(q)) \/ Returns \/ Calls \/ Lists
      BY <1>4, WorkOnLibs
    <3>2. CASE Returns \/ Calls \/ Lists
      BY <1>3, <3>2 DEF Returns, Calls, Lists
    <3> QED
      BY <1>1, <2>2, <3>1, <3>2
<1> QED
  BY <1>3, <1>4, LibrarySteps, BeginEffect DEF libraryVars

(* What the image has, what is configured and what is asked stays.         *)
LEMMA KnownStays ==
  ASSUME UNCHANGED <<stage, mountArgs>>
  PROVE  /\ FabricsKnown' <=> FabricsKnown
         /\ NoFabricMounted' <=> NoFabricMounted
         /\ ImageFabrics64' <=> ImageFabrics64
         /\ MountConfigured' <=> MountConfigured
         /\ LooksIn' = LooksIn
BY DEF FabricsKnown, Before, NoFabricMounted, MountNames, ImageFabrics64, ImageFabrics,
       MountConfigured, LooksIn

LEMMA ProvidersBegin ==
  ASSUME TypeOK, ImageKept, FabricsOfImage, ProvidersComing,
         NEW h \in Hooks, NEW p \in Seq(OpsOf(h)), Begins(h, p)
  PROVE  ProvidersComing'
<1>1. /\ ~busy /\ busy' /\ plan' = p /\ turn \in DOMAIN order /\ order[turn] = h
      /\ UNCHANGED <<turn, files, stage, mountArgs>>
      /\ \A k \in Hooks : Came(k)' <=> Came(k) \/ k = h
  BY BeginEffect
<1>2. /\ FabricsKnown' <=> FabricsKnown
      /\ NoFabricMounted' <=> NoFabricMounted
      /\ LooksIn' = LooksIn
  BY <1>1, KnownStays
<1>3. CASE h # "mount"
  <2>1. (Came("mount")' <=> Came("mount")) /\ listFailed' = listFailed
    BY <1>1, <1>3 DEF Hooks, Begins
  <2>2. \A m : ProviderAt(m) => ProviderAt(m)'
    BY <1>1, <1>2 DEF ProviderAt, Awaited
  <2> QED
    BY <1>1, <1>2, <2>1, <2>2 DEF ProvidersComing
<1>4. CASE h = "mount"
  <2> SUFFICES ASSUME FabricsKnown, NoFabricMounted, hasLdconfig, ~listFailed',
                      NEW i \in DOMAIN mounts, mounts[i].dir = Wildcard
               PROVE  ProviderAt(mounts[i])'
    BY <1>1, <1>2 DEF ProvidersComing, ProviderAt
  <2>1. FiProviderPaths = LooksIn
    <3>1. Before("ldcache", "mount") /\ ~emptyPath => CacheRemade
      BY <1>1, <1>4, RemadeBefore
    <3> QED
      BY <3>1, CacheListsFabrics, HookLooksThere
  <2>2. WellFormedArgs
    BY <1>4 DEF Begins, MountBegins
  <2>3. PICK fi \in LooksIn : p = MountPlan(fi)
    BY <1>4, <2>1 DEF Begins, MountBegins
  <2>4. PICK q \in Paths : /\ q.dir = fi /\ q.name = mounts[i].name
                           /\ q = Destination(mounts[i], fi)
    <3>1. fi \in Dirs
      BY <2>1, ProviderPathsAreDirs
    <3>2. mounts[i] \in [dir : Dirs \cup {Wildcard}, name : Names]
      BY <2>2, ElementOfSeq, LenProperties DEF TypeOK, Mounts, WellFormedArgs
    <3>3. Destination(mounts[i], fi) = [dir |-> fi, name |-> mounts[i].name]
      BY DEF Destination
    <3>4. Destination(mounts[i], fi) \in Paths
      BY <3>1, <3>2, <3>3 DEF Paths
    <3> QED
      BY <3>3, <3>4
  <2>5. Awaited(q)'
    BY <1>1, <2>3, <2>4, MountPlanStarts DEF Awaited
  <2> QED
    BY <1>1, <1>2, <2>3, <2>4, <2>5 DEF ProviderAt
<1> QED
  BY <1>3, <1>4

LEMMA ProvidersWork ==
  ASSUME TypeOK, PlanFits, ProvidersComing, Work
  PROVE  ProvidersComing'
<1>1. /\ UNCHANGED <<stage, mountVars>> /\ (Came("mount")' <=> Came("mount"))
  BY WorkEffect DEF Hooks
<1>2. /\ FabricsKnown' <=> FabricsKnown
      /\ NoFabricMounted' <=> NoFabricMounted
      /\ LooksIn' = LooksIn
  BY <1>1, KnownStays
<1>3. ASSUME NEW q \in Paths, libs[q] # NoFile \/ Awaited(q)
      PROVE  libs'[q] # NoFile \/ Awaited(q)'
  <2>1. CASE Returns
    BY <1>3, <2>1 DEF Returns, Awaited
  <2>2. CASE Calls \/ Lists
    BY <1>3, <2>2 DEF Calls, Lists, StillAwaited
  <2>3. ASSUME NEW r \in Paths, Binds(r)
        PROVE  libs'[q] # NoFile \/ Awaited(q)'
    BY <1>3, <2>3 DEF Binds
  <2> QED
    BY <2>1, <2>2, <2>3, WorkOnLibs
<1>4. \A m : ProviderAt(m) => ProviderAt(m)'
  BY <1>2, <1>3 DEF ProviderAt
<1> QED
  BY <1>1, <1>2, <1>4 DEF ProvidersComing

LEMMA ProvidersStay ==
  ASSUME TypeOK, PlanFits, ImageKept, FabricsOfImage, ProvidersComing, [Next]_vars
  PROVE  ProvidersComing'
<1>1. CASE UNCHANGED libraryVars
  <2>1. /\ FabricsKnown' <=> FabricsKnown
        /\ NoFabricMounted' <=> NoFabricMounted
        /\ LooksIn' = LooksIn
    BY <1>1, KnownStays DEF libraryVars
  <2>2. \A m : ProviderAt(m) => ProviderAt(m)'
    BY <1>1, <2>1 DEF libraryVars, ProviderAt, Awaited
  <2> QED
    BY <1>1, <2>1, <2>2 DEF libraryVars, ProvidersComing, Came
<1> QED
  BY <1>1, LibrarySteps, ProvidersBegin, ProvidersWork

(* Whatever the order of the hooks, the image and its cache: each provider *)
(* is where the container's libfabric looks for it when it starts, though  *)
(* the mount hook reads the cache before its first mount and others change *)
(* the libraries after it.                                                 *)
THEOREM ProvidersAreFound ==
  ASSUME GlibcHasNoFabric,
         \A s \in Scenarios : MountsHaveTheirHook(s) /\ FabricsAre64Bit(s)
  PROVE  Spec => []ProvidersWhereLibfabricLooks
<1> DEFINE Inv == /\ TypeOK /\ PlanFits /\ ImageKept /\ CreatedIsLast
                  /\ FabricsOfImage /\ ImageFabrics64 /\ MountConfigured
                  /\ ProvidersComing
<1>1. Init => Inv
  <2> SUFFICES ASSUME Init
               PROVE  Inv
    OBVIOUS
  <2>1. PICK s \in Scenarios : Init!(s)
    BY DEF Init
  <2>2. FabricsOfImage /\ MountConfigured
    BY <2>1 DEF FabricsOfImage, MountConfigured, MountsHaveTheirHook
  <2>3. ImageFabrics64
    BY <2>1 DEF ImageFabrics64, ImageFabrics, Listable, FabricsAre64Bit
  <2>4. ~Came("mount") /\ ~Created
    BY <2>1, InitTyped, HooksOrder DEF Came, Created
  <2> QED
    BY <2>2, <2>3, <2>4, InitTyped, InitImage DEF CreatedIsLast, ProvidersComing
<1>2. Inv /\ [Next]_vars => Inv'
  BY StepIsTyped, StepImage, CreatedIsLastStays, FabricsStay, KnownStays, ProvidersStay
<1>3. Inv => ProvidersWhereLibfabricLooks
  <2> SUFFICES ASSUME Inv, Created, FabricsKnown, hasLdconfig, ~listFailed,
                      \A i \in DOMAIN mounts : mounts[i].name \notin FabricNames,
                      NEW i \in DOMAIN mounts, mounts[i].dir = Wildcard
               PROVE  \E d \in ProviderDirs :
                        libs[[dir |-> d, name |-> mounts[i].name]] # NoFile
    BY DEF ProvidersWhereLibfabricLooks, FabricsKnown
  <2>1. NoFabricMounted
    BY DEF NoFabricMounted, MountNames, ToSet
  <2>2. Came("mount")
    <3>1. PICK j \in DOMAIN order : order[j] = "mount"
      BY EmptySeq DEF MountConfigured, ToSet
    <3> QED
      BY <3>1, AllCame
  <2>3. Before("ldcache", "mount") /\ ~emptyPath => CacheRemade
    BY AllCame, HooksOrder DEF CreatedIsLast, Before, CacheRemade
  <2>4. ProviderDirs = LooksIn
    BY <2>1, <2>3, CacheListsFabrics, LibfabricLooksThere
  <2>5. PICK q \in Paths : /\ q.dir \in LooksIn /\ q.name = mounts[i].name
                           /\ libs[q] # NoFile \/ Awaited(q)
    BY <2>1, <2>2 DEF ProvidersComing, ProviderAt
  <2>6. libs[q] # NoFile /\ q = [dir |-> q.dir, name |-> mounts[i].name]
    BY <2>5 DEF CreatedIsLast, Awaited, Paths
  <2> QED
    BY <2>4, <2>5, <2>6
<1> QED
  BY <1>1, <1>2, <1>3, PTL DEF Spec
=============================================================================
