-------------------------- MODULE SshDaemonProofs --------------------------
(***************************************************************************)
(* Proofs about the SSH daemon, for any number of containers and pids, and *)
(* however often the hook is run after a container has stopped.            *)
(***************************************************************************)
EXTENDS SshDaemon, TLAPS

USE DEF files, vars

-----------------------------------------------------------------------------
(* Type correctness.                                                       *)

LEMMA NarrowIsPort == \A n \in Int : Narrow(n) \in Ports
<1> DEFINE last == 65535
<1>1. Ports = 0 .. last
  BY DEF Ports
<1>2. /\ last \in Int
      /\ \A n \in Int : n % 65536 \in Int /\ 0 <= n % 65536 /\ n % 65536 <= last
  OBVIOUS
<1> HIDE DEF last
<1>3. \A n \in Int : n % 65536 \in 0 .. last
  BY <1>2
<1> QED
  BY <1>1, <1>3 DEF Narrow

USE SshDaemonAssumption

LEMMA PortIsPort ==
  ASSUME NEW g \in Garbage
  PROVE  PortOfHook(g) \in (UsedPorts \cap Ports) \cup {None}
<1>1. \A n \in Int : Narrow(n) \in Ports
  BY NarrowIsPort
<1>2. \A n \in Int : n # None
  OBVIOUS
<1>3. g \in Ports
  OBVIOUS
<1>4. PortFromEnv(g) \in Ports \cup {None}
  BY <1>1, <1>3 DEF PortFromEnv
<1>5. PortOfHook(g) \in Ports \cup {None}
  BY <1>1, <1>4 DEF PortOfHook
<1> QED
  BY <1>5 DEF UsedPorts

LEMMA UsedPortsAreNarrow == UsedPorts \subseteq Ports
BY PortIsPort DEF UsedPorts

LEMMA InitTyped == Init => TypeOK
<1> SUFFICES ASSUME Init
             PROVE  TypeOK
  OBVIOUS
<1>1. PICK old \in [OldHostfiles -> Pids] :
        hostfile = [n \in HostNames |-> IF n \in OldHostfiles THEN old[n] ELSE None]
  BY DEF Init
<1>2. hostfile \in [HostNames -> Pids \cup {None}]
  BY <1>1
<1> QED
  BY <1>2 DEF Init, TypeOK, Last

(* The names of the host's pidfiles.                                       *)
LEMMA NameIsOne ==
  ASSUME TypeOK, NEW c \in Containers, port[c] # None
  PROVE  NameOf(c) \in NamesOf(c) /\ NameOf(c) \in HostNames
<1>1. port[c] \in UsedPorts
  BY DEF TypeOK
<1>2. PidfileHost[c] \in HostPaths \cup {None}
  OBVIOUS
<1> QED
  BY <1>1, <1>2 DEF NameOf, NamesOf, HostNames

LEMMA NamesAreOwn ==
  ASSUME TypeOK, NEW c \in Containers, OwnPidfile(c),
         NEW d \in Containers, d # c, port[d] # None
  PROVE  NameOf(d) \notin NamesOf(c)
<1>1. port[d] \in Ports /\ UsedPorts \subseteq Ports
  BY UsedPortsAreNarrow DEF TypeOK
<1>2. /\ PidfileHost[c] \in HostPaths \cup {None}
      /\ PidfileHost[d] \in HostPaths \cup {None}
      /\ \A f \in HostPaths : f \notin Containers \X Ports
  OBVIOUS
<1>3. CASE PidfileHost[c] # None
  <2>1. PidfileHost[d] # PidfileHost[c]
    BY <1>3 DEF OwnPidfile
  <2>2. <<d, port[d]>> \in Containers \X Ports
    BY <1>1
  <2>3. <<d, port[d]>> # PidfileHost[c]
    BY <1>2, <1>3, <2>2
  <2>4. NameOf(d) # PidfileHost[c]
    BY <2>1, <2>3 DEF NameOf
  <2> QED
    BY <1>3, <2>4 DEF NamesOf
<1>4. CASE PidfileHost[c] = None
  <2>1. NamesOf(c) = {c} \X UsedPorts /\ NamesOf(c) \subseteq Containers \X Ports
    BY <1>1, <1>4 DEF NamesOf
  <2>2. <<d, port[d]>> \notin {c} \X UsedPorts
    OBVIOUS
  <2>3. PidfileHost[d] # None => PidfileHost[d] \notin NamesOf(c)
    BY <1>2, <2>1
  <2> QED
    BY <2>1, <2>2, <2>3 DEF NameOf
<1> QED
  BY <1>3, <1>4

(* A step of the hook, as an action of one container.                      *)
LEMMA HookIsTyped ==
  ASSUME TypeOK, NEW c \in Containers, StartHook(c) \/ StopHook(c) \/ KillHook(c)
  PROVE  TypeOK'
<1> USE DEF TypeOK, Finish, Step
<1>1. CASE Begin(c)
  <2>1. PICK g \in Garbage :
          /\ port' = [port EXCEPT ![c] = PortOfHook(g)]
          /\ hook' = [hook EXCEPT ![c] = IF PortOfHook(g) = None
                                         THEN "failed" ELSE "started"]
    BY <1>1 DEF Begin
  <2> QED
    BY <1>1, <2>1, PortIsPort DEF Begin
<1>2. CASE SetUp(c)
  <2>1. CASE at[c] = Last
    BY <1>2, <2>1 DEF SetUp
  <2>2. CASE at[c] # Last
    <3>1. at[c] + 1 \in 1 .. Last
      BY <2>2 DEF Last
    <3> QED
      BY <1>2, <2>2, <3>1 DEF SetUp
  <2> QED
    BY <2>1, <2>2
<1>3. CASE SetUpFails(c)
  BY <1>3 DEF SetUpFails
<1>4. CASE LaunchDaemon(c)
  BY <1>4 DEF LaunchDaemon, CopyPidfile, Last
<1>5. CASE CopyPidfileToHost(c)
  <2>1. /\ hostfile' = hostfile \/ hostfile' = [hostfile EXCEPT ![NameOf(c)] = pidfile[c]]
        /\ CopyPidfile + 1 \in 1 .. Last
    BY <1>5 DEF CopyPidfileToHost, CopyPidfile, Last
  <2>2. hostfile' \in [HostNames -> Pids \cup {None}]
    BY <2>1
  <2> QED
    BY <1>5, <2>1, <2>2 DEF CopyPidfileToHost
<1>f. CASE CopyFails(c)
  <2>1. NameOf(c) \in HostNames
    BY <1>f, NameIsOne DEF CopyFails
  <2>2. PICK left \in {hostfile[NameOf(c)], None, pidfile[c]} :
          hostfile' = [hostfile EXCEPT ![NameOf(c)] = left]
    BY <1>f DEF CopyFails
  <2>3. left \in Pids \cup {None}
    BY <2>1
  <2>4. hostfile' \in [HostNames -> Pids \cup {None}]
    BY <2>2, <2>3
  <2> QED
    BY <1>f, <2>4 DEF CopyFails
<1>6. CASE BeginStop(c)
  <2>1. PICK g \in Garbage :
          /\ port' = [port EXCEPT ![c] = PortOfHook(g)]
          /\ hook' = [hook EXCEPT ![c] =
                        IF PortOfHook(g) = None \/ c \in Joining
                        THEN "failed" ELSE "stopping"]
    BY <1>6 DEF BeginStop
  <2> QED
    BY <1>6, <2>1, PortIsPort DEF BeginStop, Last
<1>7. CASE ReadPidfile(c)
  <2>0. port[c] # None
    BY <1>7 DEF ReadPidfile, Stopping
  <2>1. hostfile[NameOf(c)] \in Pids \cup {None} /\ 2 \in 1 .. Last
    BY <2>0, NameIsOne DEF Last
  <2>2. target' \in [Containers -> Pids \cup {None}]
    BY <1>7, <2>1 DEF ReadPidfile
  <2>3. hook' \in [Containers -> {"idle", "started", "stopping", "ok", "failed"}]
    <3>1. hook' = hook \/ hook' = [hook EXCEPT ![c] = "failed"]
      BY <1>7 DEF ReadPidfile
    <3> QED
      BY <3>1
  <2>4. at' \in [Containers -> 1 .. Last]
    BY <1>7, <2>1 DEF ReadPidfile
  <2>5. UNCHANGED <<port, alive, stops, proc, pidfile, hostfile, hit>>
    BY <1>7 DEF ReadPidfile
  <2>6. \A d \in Containers : hook'[d] \in {"started", "stopping"} => port'[d] # None
    <3>1. hook' = hook \/ hook' = [hook EXCEPT ![c] = "failed"]
      BY <1>7 DEF ReadPidfile
    <3> QED
      BY <2>5, <3>1
  <2> QED
    BY <2>2, <2>3, <2>4, <2>5, <2>6
<1>8. CASE RemovePidfile(c)
  <2>1. /\ hostfile' = [hostfile EXCEPT ![NameOf(c)] = None]
        /\ at' = [at EXCEPT ![c] = 3] /\ 3 \in 1 .. Last
        /\ UNCHANGED <<hook, port, alive, stops, proc, pidfile, target, hit>>
    BY <1>8 DEF RemovePidfile, Last
  <2>2. hostfile' \in [HostNames -> Pids \cup {None}] /\ at' \in [Containers -> 1 .. Last]
    BY <2>1
  <2> QED
    BY <2>1, <2>2
<1>9. ASSUME NEW ps \in SUBSET Pids, Signal(c, ps)
      PROVE  /\ proc' \in [Pids -> Containers \cup {"other", "free"}]
             /\ (\A p \in ps : proc[p] # "free")
                  => hit' \in [Containers -> SUBSET (Containers \cup {"other"})]
  BY <1>9 DEF Signal
<1>10. CASE KillDaemon(c)
  <2>1. target[c] \in Pids \/ target[c] = None
    OBVIOUS
  <2> QED
    BY <1>10 DEF KillDaemon, Signal
<1>11. CASE KillOther(c)
  BY <1>11 DEF KillOther, Signal
<1>12. CASE KillNobody(c)
  BY <1>9, <1>12 DEF KillNobody
<1>13. CASE KillHook(c)
  BY <1>13 DEF KillHook
<1> QED
  BY <1>1, <1>2, <1>3, <1>4, <1>5, <1>f, <1>6, <1>7, <1>8, <1>10, <1>11, <1>12,
     <1>13
  DEF StartHook, StopHook

LEMMA StepIsTyped == TypeOK /\ [Next]_vars => TypeOK'
<1> SUFFICES ASSUME TypeOK, [Next]_vars
             PROVE  TypeOK'
  OBVIOUS
<1>1. ASSUME NEW c \in Containers, WritePidfile(c) \/ DaemonDies(c) \/ ContainerStops(c)
      PROVE  TypeOK'
  <2>1. CASE WritePidfile(c)
    <3>1. PICK p \in DaemonPids(c) : pidfile' = [pidfile EXCEPT ![c] = PidSeen(c, p)]
      BY <2>1 DEF WritePidfile
    <3>2. PidSeen(c, p) \in Pids
      BY DEF PidSeen, DaemonPids
    <3>3. pidfile' \in [Containers -> Pids \cup {None}]
      BY <3>1, <3>2 DEF TypeOK
    <3> QED
      BY <2>1, <3>3 DEF WritePidfile, TypeOK
  <2>2. CASE DaemonDies(c)
    BY <2>2 DEF DaemonDies, DaemonPids, TypeOK
  <2>3. CASE ContainerStops(c)
    BY <2>3 DEF ContainerStops, TypeOK
  <2> QED
    BY <1>1, <2>1, <2>2, <2>3
<1>2. ASSUME NEW p \in Pids, OtherProcess(p)
      PROVE  TypeOK'
  BY <1>2 DEF OtherProcess, TypeOK
<1>3. CASE UNCHANGED vars
  BY <1>3 DEF TypeOK
<1> QED
  BY <1>1, <1>2, <1>3, HookIsTyped DEF Next

(* Every variable keeps its type, and ports fit into 16 bits.              *)
THEOREM TypeCorrect == Spec => []TypeOK
<1>1. Init => TypeOK
  BY InitTyped
<1> QED
  BY <1>1, StepIsTyped, PTL DEF Spec

-----------------------------------------------------------------------------
(* Which pids may be those of a container's daemon.                        *)

Life(c) ==
  /\ hook[c] = "idle" => at[c] = 1
  /\ hook[c] \in {"idle", "started"} => c \in alive /\ stops[c] = 0
  /\ hook[c] = "stopping" => c \notin Joining /\ at[c] \in 1..3
                             /\ c \notin alive /\ stops[c] > 0
  /\ c \in Joining /\ stops[c] > 0 => hook[c] = "failed"
  /\ Unlaunched(c) => /\ DaemonPids(c) = {}
                      /\ c \notin Stale => pidfile[c] = None
  /\ \A p, q \in DaemonPids(c) : p = q

(* The pidfiles and the hook that stops the daemon name the only pid that  *)
(* can be the daemon's.  This is about the containers whose pidfile is     *)
(* read.                                                                   *)
Tracked(c) == Trusted(c) /\ c \notin Joining

NamedByFiles(c) ==
  /\ c \notin Stale /\ pidfile[c] # None => DaemonPids(c) \subseteq {pidfile[c]}
  /\ ~BeforeCopy(c) =>
       \A n \in NamesOf(c) : hostfile[n] # None => DaemonPids(c) \subseteq {hostfile[n]}
  /\ BeforeCopy(c) /\ PidfileHost[c] \notin OldHostfiles =>
       \A n \in NamesOf(c) : hostfile[n] = None

NamedByHook(c) ==
  /\ hook[c] = "stopping" /\ at[c] # 1 =>
       target[c] \in Pids /\ DaemonPids(c) \subseteq {target[c]}
  /\ hook[c] = "ok" /\ stops[c] > 0 => DaemonPids(c) = {}

Named(c) == Tracked(c) => NamedByFiles(c) /\ NamedByHook(c)

(* Daemons are started in one place only.                                  *)
LEMMA DaemonsOnlyEnd ==
  ASSUME TypeOK, [Next]_vars, NEW c \in Containers, ~LaunchDaemon(c)
  PROVE  DaemonPids(c)' \subseteq DaemonPids(c)
<1> USE DEF TypeOK
<1> SUFFICES ASSUME NEW p \in Pids, proc'[p] = c
             PROVE  proc[p] = c
  BY DEF DaemonPids
<1>1. ASSUME NEW d \in Containers, LaunchDaemon(d)
      PROVE  proc[p] = c
  BY <1>1 DEF LaunchDaemon
<1>2. ASSUME NEW d \in Containers, KillDaemon(d) \/ KillOther(d) \/ KillNobody(d)
      PROVE  proc[p] = c
  BY <1>2 DEF KillDaemon, KillOther, KillNobody, Signal
<1>3. ASSUME NEW d \in Containers, DaemonDies(d) \/ ContainerStops(d)
      PROVE  proc[p] = c
  BY <1>3 DEF DaemonDies, ContainerStops
<1>4. ASSUME NEW q \in Pids, OtherProcess(q)
      PROVE  proc[p] = c
  BY <1>4 DEF OtherProcess
<1>5. ASSUME UNCHANGED proc
      PROVE  proc[p] = c
  BY <1>5
<1>6. ASSUME NEW d \in Containers,
             \/ Begin(d) \/ SetUp(d) \/ SetUpFails(d) \/ CopyPidfileToHost(d)
             \/ CopyFails(d) \/ WritePidfile(d) \/ BeginStop(d) \/ ReadPidfile(d)
             \/ RemovePidfile(d) \/ KillHook(d)
      PROVE  proc[p] = c
  BY <1>6, <1>5 DEF Begin, SetUp, SetUpFails, CopyPidfileToHost, CopyFails,
     WritePidfile, BeginStop, ReadPidfile, RemovePidfile, KillHook
<1>7. CASE UNCHANGED vars
  BY <1>5, <1>7
<1> QED
  BY <1>1, <1>2, <1>3, <1>4, <1>6, <1>7 DEF Next, StartHook, StopHook

(* A step of the hook of one container leaves the hook, the target and the *)
(* files of every other alone: those in the container, and those on the    *)
(* host if they are only the other's.                                      *)
Own(c) == <<hook[c], at[c], port[c], stops[c], pidfile[c], target[c],
            c \in alive, hit[c]>>

HostfilesStay(c) == \A n \in NamesOf(c) : hostfile'[n] = hostfile[n]

LEMMA OthersStay ==
  ASSUME TypeOK, NEW d \in Containers,
         \/ StartHook(d) \/ WritePidfile(d) \/ DaemonDies(d)
         \/ ContainerStops(d) \/ StopHook(d) \/ KillHook(d)
  PROVE  \A c \in Containers : c # d => Own(c)' = Own(c)
<1> USE DEF TypeOK, Own, Step, Finish
<1>1. CASE StartHook(d)
  <2>1. CASE Begin(d) \/ SetUp(d) \/ SetUpFails(d) \/ LaunchDaemon(d)
    BY <2>1 DEF Begin, SetUp, SetUpFails, LaunchDaemon
  <2>2. CASE CopyPidfileToHost(d) \/ CopyFails(d)
    BY <2>2 DEF CopyPidfileToHost, CopyFails
  <2> QED
    BY <1>1, <2>1, <2>2 DEF StartHook
<1>2. CASE WritePidfile(d) \/ DaemonDies(d) \/ ContainerStops(d) \/ KillHook(d)
  BY <1>2 DEF WritePidfile, DaemonDies, ContainerStops, KillHook
<1>3. CASE BeginStop(d) \/ ReadPidfile(d) \/ RemovePidfile(d)
  BY <1>3 DEF BeginStop, ReadPidfile, RemovePidfile
<1>4. CASE KillDaemon(d) \/ KillOther(d) \/ KillNobody(d)
  BY <1>4 DEF KillDaemon, KillOther, KillNobody, Signal
<1> QED
  BY <1>1, <1>2, <1>3, <1>4 DEF StopHook

(* Whoever writes or removes a pidfile of the host does so under his name. *)
WritesHostfile(d) == CopyPidfileToHost(d) \/ CopyFails(d) \/ RemovePidfile(d)

LEMMA WritersUseTheirName ==
  ASSUME TypeOK, NEW d \in Containers, WritesHostfile(d)
  PROVE  /\ port[d] # None
         /\ \A n \in HostNames : n # NameOf(d) => hostfile'[n] = hostfile[n]
<1>1. port[d] # None
  BY DEF WritesHostfile, CopyPidfileToHost, CopyFails, RemovePidfile, Stopping, TypeOK
<1>2. hostfile' = hostfile \/ \E x : hostfile' = [hostfile EXCEPT ![NameOf(d)] = x]
  BY DEF WritesHostfile, CopyPidfileToHost, CopyFails, RemovePidfile
<1> QED
  BY <1>1, <1>2 DEF TypeOK

LEMMA OthersKeepOut ==
  ASSUME TypeOK, [Next]_vars, NEW c \in Containers, OwnPidfile(c), ~WritesHostfile(c)
  PROVE  HostfilesStay(c)
<1>1. ASSUME NEW d \in Containers, WritesHostfile(d)
      PROVE  HostfilesStay(c)
  <2>1. d # c
    BY <1>1
  <2>2. port[d] # None /\ \A n \in HostNames : n # NameOf(d) => hostfile'[n] = hostfile[n]
    BY <1>1, WritersUseTheirName
  <2>3. NameOf(d) \notin NamesOf(c)
    BY <2>1, <2>2, NamesAreOwn
  <2>4. NamesOf(c) \subseteq HostNames
    BY DEF NamesOf, HostNames
  <2> QED
    BY <2>2, <2>3, <2>4 DEF HostfilesStay
<1>2. CASE UNCHANGED hostfile
  BY <1>2 DEF HostfilesStay
<1>3. ASSUME NEW d \in Containers,
             \/ Begin(d) \/ SetUp(d) \/ SetUpFails(d) \/ LaunchDaemon(d)
             \/ WritePidfile(d) \/ DaemonDies(d) \/ ContainerStops(d)
             \/ BeginStop(d) \/ ReadPidfile(d) \/ KillHook(d)
      PROVE  UNCHANGED hostfile
  BY <1>3 DEF Begin, SetUp, SetUpFails, LaunchDaemon, WritePidfile, DaemonDies,
     ContainerStops, BeginStop, ReadPidfile, KillHook
<1>4. ASSUME NEW d \in Containers, KillDaemon(d) \/ KillOther(d) \/ KillNobody(d)
      PROVE  UNCHANGED hostfile
  BY <1>4 DEF KillDaemon, KillOther, KillNobody
<1>5. ASSUME NEW p \in Pids, OtherProcess(p)
      PROVE  UNCHANGED hostfile
  BY <1>5 DEF OtherProcess
<1>6. CASE UNCHANGED vars
  BY <1>2, <1>6
<1> QED
  BY <1>1, <1>2, <1>3, <1>4, <1>5, <1>6 DEF Next, StartHook, StopHook, WritesHostfile

StepOf(c) == StartHook(c) \/ WritePidfile(c) \/ DaemonDies(c)
             \/ ContainerStops(c) \/ StopHook(c) \/ KillHook(c)

(* A step that is not one of c's own can at most end its daemon.           *)
LEMMA StepOfOther ==
  ASSUME TypeOK, [Next]_vars, NEW c \in Containers, ~StepOf(c)
  PROVE  Own(c)' = Own(c) /\ DaemonPids(c)' \subseteq DaemonPids(c)
<1>1. ~LaunchDaemon(c)
  BY DEF StepOf, StartHook
<1>2. Own(c)' = Own(c)
  <2>1. ASSUME NEW p \in Pids, OtherProcess(p)
        PROVE  Own(c)' = Own(c)
    BY <2>1 DEF OtherProcess, Own
  <2>2. CASE UNCHANGED vars
    BY <2>2 DEF Own
  <2>3. ASSUME NEW d \in Containers, StepOf(d)
        PROVE  Own(c)' = Own(c)
    <3>1. c # d
      BY <2>3
    <3> QED
      BY <2>3, <3>1, OthersStay DEF StepOf
  <2> QED
    BY <2>1, <2>2, <2>3 DEF Next, StepOf
<1> QED
  BY <1>1, <1>2, DaemonsOnlyEnd

LEMMA IdleStays ==
  ASSUME NEW c \in Containers, Life(c), Named(c), Own(c)' = Own(c),
         DaemonPids(c)' \subseteq DaemonPids(c),
         Tracked(c) => HostfilesStay(c)
  PROVE  Life(c)' /\ Named(c)'
<1>1. /\ UNCHANGED <<hook[c], at[c], stops[c], pidfile[c], target[c]>>
      /\ c \in alive' <=> c \in alive
  BY DEF Own
<1>2. (Unlaunched(c)' <=> Unlaunched(c)) /\ (BeforeCopy(c)' <=> BeforeCopy(c))
  BY <1>1 DEF Unlaunched, BeforeCopy
<1>3. Life(c)'
  BY <1>1, <1>2 DEF Life
<1>4. Named(c)'
  <2> SUFFICES ASSUME Tracked(c)
               PROVE  NamedByFiles(c)' /\ NamedByHook(c)'
    BY DEF Named, Tracked, Trusted, OwnPidfile
  <2>1. NamedByFiles(c) /\ NamedByHook(c) /\ HostfilesStay(c)
    BY DEF Named
  <2>2. NamedByFiles(c)'
    BY <1>1, <1>2, <2>1 DEF NamedByFiles, HostfilesStay, NamesOf
  <2>3. NamedByHook(c)'
    BY <1>1, <2>1 DEF NamedByHook
  <2> QED
    BY <2>2, <2>3
<1> QED
  BY <1>3, <1>4

(* The steps of a container's own.  Most leave the files of the host alone.*)
LEMMA DaemonPidsSame ==
  ASSUME NEW c \in Containers, UNCHANGED proc
  PROVE  DaemonPids(c)' = DaemonPids(c)
BY DEF DaemonPids

LEMMA TrackedSame == \A c \in Containers : Tracked(c)' <=> Tracked(c)
BY DEF Tracked, Trusted, OwnPidfile

LEMMA NoPathIsNone == None \notin OldHostfiles
OBVIOUS

(* The pidfile is looked for when its daemon has written it, if it is not  *)
(* slow.                                                                   *)
LEMMA CopyTakesThePid ==
  ASSUME TypeOK, NEW c \in Containers, Tracked(c), NamedByFiles(c),
         WaitedForPidfile(c)
  PROVE  /\ pidfile[c] # None => DaemonPids(c) \subseteq {pidfile[c]}
         /\ c \notin Slow /\ pidfile[c] = None => DaemonPids(c) = {}
<1>1. c \notin Slow => \A p \in DaemonPids(c) : pidfile[c] = p
  BY DEF WaitedForPidfile, PidSeen, Tracked
<1>2. None \notin DaemonPids(c)
  BY DEF DaemonPids
<1>3. c \in Stale => c \notin Slow
  BY DEF Tracked, Trusted
<1> QED
  BY <1>1, <1>2, <1>3 DEF NamedByFiles

LEMMA CopyNames ==
  ASSUME TypeOK, NEW c \in Containers, Life(c), Tracked(c), NamedByFiles(c),
         CopyPidfileToHost(c) \/ CopyFails(c)
  PROVE  NamedByFiles(c)'
<1> USE DEF TypeOK, Step, Finish
<1>1. /\ hook[c] = "started" /\ at[c] = CopyPidfile /\ WaitedForPidfile(c)
      /\ \/ hook'[c] = "started" /\ at'[c] = CopyPidfile + 1
         \/ hook'[c] = "failed"
      /\ UNCHANGED <<proc, pidfile>>
  BY DEF CopyPidfileToHost, CopyFails
<1>2. BeforeCopy(c) /\ ~BeforeCopy(c)'
  BY <1>1 DEF BeforeCopy, CopyPidfile
<1>3. DaemonPids(c)' = DaemonPids(c)
  BY <1>1, DaemonPidsSame
<1>4. /\ pidfile[c] # None => DaemonPids(c) \subseteq {pidfile[c]}
      /\ c \notin Slow /\ pidfile[c] = None => DaemonPids(c) = {}
  BY <1>1, CopyTakesThePid
<1>5. PidfileHost[c] \in OldHostfiles => c \notin Slow /\ ~CopyFails(c)
  <2>1. SetUpSteps[CopyPidfile] = "pidfile"
    BY DEF SetUpSteps, CopyPidfile
  <2> QED
    BY <2>1 DEF Tracked, Trusted, CopyFails
<1>6. ASSUME NEW n \in NamesOf(c), hostfile'[n] # None
      PROVE  DaemonPids(c) \subseteq {hostfile'[n]}
  <2>1. /\ PidfileHost[c] \notin OldHostfiles => hostfile[n] = None
        /\ n \in HostNames
    BY <1>2 DEF NamedByFiles, NamesOf, HostNames
  <2>2. CASE CopyPidfileToHost(c)
    <3>1. CASE pidfile[c] = None
      <4>1. hostfile' = hostfile
        BY <2>2, <3>1 DEF CopyPidfileToHost
      <4>2. PidfileHost[c] \in OldHostfiles
        BY <1>6, <2>1, <4>1
      <4> QED
        BY <1>4, <1>5, <3>1, <4>2
    <3>2. CASE pidfile[c] # None
      <4>1. hostfile' = [hostfile EXCEPT ![NameOf(c)] = pidfile[c]]
        BY <2>2, <3>2 DEF CopyPidfileToHost
      <4>2. n = NameOf(c)
        <5>1. CASE PidfileHost[c] # None
          BY <5>1 DEF NamesOf, NameOf
        <5>2. CASE PidfileHost[c] = None
          BY <1>6, <2>1, <4>1, <5>2, NoPathIsNone
        <5> QED
          BY <5>1, <5>2
      <4> QED
        BY <1>4, <2>1, <3>2, <4>1, <4>2
    <3> QED
      BY <3>1, <3>2
  <2>3. CASE CopyFails(c)
    <3>1. PICK left \in {hostfile[NameOf(c)], None, pidfile[c]} :
            hostfile' = [hostfile EXCEPT ![NameOf(c)] = left]
      BY <2>3 DEF CopyFails
    <3>2. hostfile[n] = None /\ pidfile[c] # None
      BY <1>5, <2>1, <2>3 DEF CopyFails
    <3>3. n = NameOf(c)
      BY <1>6, <2>1, <3>1, <3>2
    <3>4. hostfile'[n] = pidfile[c]
      BY <1>6, <2>1, <3>1, <3>2, <3>3
    <3> QED
      BY <1>4, <3>2, <3>4
  <2> QED
    BY <2>2, <2>3
<1>7. c \notin Stale /\ pidfile[c] # None => DaemonPids(c) \subseteq {pidfile[c]}
  BY DEF NamedByFiles
<1>8. NamesOf(c)' = NamesOf(c)
  BY DEF NamesOf
<1> QED
  BY <1>1, <1>2, <1>3, <1>6, <1>7, <1>8 DEF NamedByFiles

LEMMA OwnStepStays ==
  ASSUME TypeOK, [Next]_vars, NEW c \in Containers, Life(c), Named(c), StepOf(c)
  PROVE  Life(c)' /\ Named(c)'
<1> USE DEF TypeOK, Step, Finish
<1>1. ASSUME ~LaunchDaemon(c)
      PROVE  DaemonPids(c)' \subseteq DaemonPids(c)
  BY <1>1, DaemonsOnlyEnd
<1>t. (Tracked(c)' <=> Tracked(c)) /\ NamesOf(c)' = NamesOf(c)
  BY TrackedSame DEF NamesOf
<1>n. Tracked(c) => NamedByFiles(c) /\ NamedByHook(c)
  BY DEF Named
<1>2. CASE Begin(c)
  <2>1. /\ hook[c] = "idle" /\ hook'[c] \in {"started", "failed"}
        /\ UNCHANGED <<at, alive, stops, proc, pidfile, hostfile, target>>
    BY <1>2 DEF Begin
  <2>2. DaemonPids(c)' = {} /\ DaemonPids(c) = {}
    BY <2>1, DaemonPidsSame DEF Life, Unlaunched
  <2>3. Life(c)'
    BY <2>1, <2>2 DEF Life, Unlaunched
  <2>4. Tracked(c) => NamedByFiles(c)' /\ NamedByHook(c)'
    BY <1>n, <1>t, <2>1, <2>2 DEF NamedByFiles, NamedByHook, BeforeCopy
  <2> QED
    BY <1>t, <2>3, <2>4 DEF Named
<1>3. CASE SetUp(c) \/ SetUpFails(c)
  <2>1. /\ hook[c] = "started"
        /\ \/ hook'[c] = "failed" /\ at' = at /\ at[c] # CopyPidfile
           \/ hook'[c] = "ok" /\ at' = at /\ at[c] = Last
           \/ hook'[c] = "started" /\ at'[c] = at[c] + 1
              /\ at[c] \notin {StartDaemon, CopyPidfile}
        /\ UNCHANGED <<alive, stops, proc, pidfile, hostfile, target>>
    BY <1>3 DEF SetUp, SetUpFails
  <2>2. DaemonPids(c)' = DaemonPids(c)
    BY <2>1, DaemonPidsSame
  <2>3. Unlaunched(c)' => Unlaunched(c)
    BY <2>1 DEF Unlaunched, StartDaemon
  <2>4. Life(c)'
    BY <2>1, <2>2, <2>3 DEF Life, Unlaunched
  <2>5. BeforeCopy(c)' => BeforeCopy(c)
    BY <2>1 DEF BeforeCopy, CopyPidfile
  <2>6. BeforeCopy(c) /\ ~BeforeCopy(c)' => Unlaunched(c)
    BY <2>1 DEF BeforeCopy, CopyPidfile, Unlaunched, StartDaemon, Last
  <2>7. Unlaunched(c) => DaemonPids(c) = {}
    BY DEF Life
  <2>8. Tracked(c) => NamedByFiles(c)'
    BY <1>n, <1>t, <2>1, <2>2, <2>5, <2>6, <2>7 DEF NamedByFiles
  <2>9. stops[c] = 0 /\ hook'[c] # "stopping"
    BY <2>1 DEF Life
  <2> QED
    BY <1>t, <2>1, <2>4, <2>8, <2>9 DEF Named, NamedByHook
<1>4. CASE LaunchDaemon(c)
  <2>1. /\ hook[c] = "started" /\ at[c] = StartDaemon
        /\ hook'[c] = "started" /\ at'[c] = CopyPidfile
        /\ UNCHANGED <<alive, stops, pidfile, hostfile, target>>
    BY <1>4 DEF LaunchDaemon
  <2>2. /\ DaemonPids(c) = {} /\ (c \notin Stale => pidfile[c] = None)
    BY <2>1 DEF Life, Unlaunched, StartDaemon
  <2>3. PICK p \in Pids : proc' = [proc EXCEPT ![p] = c]
    BY <1>4 DEF LaunchDaemon
  <2>4. DaemonPids(c)' = {p}
    BY <2>2, <2>3 DEF DaemonPids
  <2>5. ~Unlaunched(c)' /\ BeforeCopy(c) /\ BeforeCopy(c)'
    BY <2>1 DEF Unlaunched, BeforeCopy, StartDaemon, CopyPidfile
  <2>6. Life(c)'
    BY <2>1, <2>4, <2>5 DEF Life
  <2>7. Tracked(c) => NamedByFiles(c)' /\ NamedByHook(c)'
    BY <1>n, <1>t, <2>1, <2>2, <2>5 DEF NamedByFiles, NamedByHook
  <2> QED
    BY <1>t, <2>6, <2>7 DEF Named
<1>5. CASE CopyPidfileToHost(c) \/ CopyFails(c)
  <2>1. /\ hook[c] = "started" /\ at[c] = CopyPidfile
        /\ \/ hook'[c] = "started" /\ at'[c] = CopyPidfile + 1
         \/ hook'[c] = "failed"
        /\ UNCHANGED <<alive, stops, proc, pidfile, target>>
    BY <1>5 DEF CopyPidfileToHost, CopyFails
  <2>2. DaemonPids(c)' = DaemonPids(c) /\ ~Unlaunched(c)'
    BY <2>1, DaemonPidsSame DEF Unlaunched, StartDaemon, CopyPidfile
  <2>3. Life(c)'
    BY <2>1, <2>2 DEF Life
  <2>4. Tracked(c) => NamedByFiles(c)'
    BY <1>n, <1>5, CopyNames
  <2>5. stops'[c] = 0 /\ hook'[c] # "stopping"
    BY <2>1 DEF Life
  <2> QED
    BY <1>t, <2>3, <2>4, <2>5 DEF Named, NamedByHook
<1>6. CASE WritePidfile(c)
  <2>1. PICK p \in DaemonPids(c) : pidfile' = [pidfile EXCEPT ![c] = PidSeen(c, p)]
    BY <1>6 DEF WritePidfile
  <2>2. /\ UNCHANGED <<hook, at, alive, stops, proc, hostfile, target>>
        /\ DaemonPids(c)' = DaemonPids(c)
        /\ c \notin Joining => pidfile'[c] = p
    BY <1>6, <2>1, DaemonPidsSame DEF WritePidfile, PidSeen
  <2>3. DaemonPids(c) \subseteq {p} /\ ~Unlaunched(c)
    BY <2>1 DEF Life
  <2>4. (Unlaunched(c)' <=> Unlaunched(c)) /\ (BeforeCopy(c)' <=> BeforeCopy(c))
    BY <2>2 DEF Unlaunched, BeforeCopy
  <2>5. Life(c)'
    BY <2>2, <2>3, <2>4 DEF Life
  <2>6. Tracked(c) => NamedByFiles(c)' /\ NamedByHook(c)'
    BY <1>n, <1>t, <2>2, <2>3, <2>4 DEF NamedByFiles, NamedByHook, Tracked
  <2> QED
    BY <1>t, <2>5, <2>6 DEF Named
<1>7. CASE DaemonDies(c) \/ ContainerStops(c)
  <2>1. /\ UNCHANGED <<hook, at, stops, pidfile, hostfile, target>>
        /\ alive' = alive \/ (hook[c] \in {"ok", "failed"})
    BY <1>7 DEF DaemonDies, ContainerStops
  <2>2. DaemonPids(c)' \subseteq DaemonPids(c)
    BY <1>1, <2>1 DEF LaunchDaemon, StartDaemon, CopyPidfile
  <2>3. (Unlaunched(c)' <=> Unlaunched(c)) /\ (BeforeCopy(c)' <=> BeforeCopy(c))
    BY <2>1 DEF Unlaunched, BeforeCopy
  <2>4. c \in alive' => c \in alive
    BY <1>7 DEF DaemonDies, ContainerStops
  <2>5. Life(c)'
    BY <2>1, <2>2, <2>3, <2>4 DEF Life
  <2>6. Tracked(c) => NamedByFiles(c)' /\ NamedByHook(c)'
    BY <1>n, <1>t, <2>1, <2>2, <2>3 DEF NamedByFiles, NamedByHook
  <2> QED
    BY <1>t, <2>5, <2>6 DEF Named
<1>8. CASE BeginStop(c)
  <2>1. /\ hook[c] \in {"ok", "failed"}
        /\ hook'[c] \in {"failed", "stopping"} /\ at'[c] = 1
        /\ c \in Joining => hook'[c] = "failed"
        /\ c \notin alive /\ stops'[c] > 0
        /\ UNCHANGED <<alive, proc, pidfile, hostfile, target>>
    BY <1>8 DEF BeginStop
  <2>2. DaemonPids(c)' = DaemonPids(c) /\ ~Unlaunched(c)'
    BY <2>1, DaemonPidsSame DEF Unlaunched
  <2>3. ~BeforeCopy(c) /\ ~BeforeCopy(c)'
    BY <2>1 DEF BeforeCopy
  <2>4. Life(c)'
    BY <2>1, <2>2 DEF Life
  <2>5. Tracked(c) => NamedByFiles(c)' /\ NamedByHook(c)'
    BY <1>n, <1>t, <2>1, <2>2, <2>3 DEF NamedByFiles, NamedByHook
  <2> QED
    BY <1>t, <2>4, <2>5 DEF Named
<1>9. CASE ReadPidfile(c) \/ RemovePidfile(c) \/ KillHook(c)
  <2>1. /\ hook[c] = "stopping"
        /\ \/ hook'[c] = "failed" /\ target' = target
           \/ /\ hook' = hook /\ at[c] = 1 /\ at'[c] = 2
              /\ target'[c] = hostfile[NameOf(c)] /\ hostfile[NameOf(c)] # None
           \/ hook' = hook /\ at[c] = 2 /\ at'[c] = 3 /\ target' = target
        /\ hostfile' = hostfile \/ hostfile' = [hostfile EXCEPT ![NameOf(c)] = None]
        /\ UNCHANGED <<alive, stops, proc, pidfile>>
    BY <1>9 DEF ReadPidfile, RemovePidfile, KillHook, Stopping
  <2>2. DaemonPids(c)' = DaemonPids(c) /\ ~Unlaunched(c)'
    BY <2>1, DaemonPidsSame DEF Unlaunched
  <2>3. ~BeforeCopy(c) /\ ~BeforeCopy(c)'
    BY <2>1 DEF BeforeCopy
  <2>4. NameOf(c) \in NamesOf(c) /\ hostfile[NameOf(c)] \in Pids \cup {None}
    BY <2>1, NameIsOne
  <2>5. Life(c)'
    BY <2>1, <2>2 DEF Life
  <2>6. \A n \in NamesOf(c) : hostfile'[n] = hostfile[n] \/ hostfile'[n] = None
    <3>1. NamesOf(c) \subseteq HostNames
      BY DEF NamesOf, HostNames
    <3> QED
      BY <2>1, <3>1
  <2>7. Tracked(c) => NamedByFiles(c)'
    BY <1>n, <1>t, <2>1, <2>2, <2>3, <2>6 DEF NamedByFiles
  <2>8. Tracked(c) => NamedByHook(c)'
    <3> SUFFICES ASSUME Tracked(c)
                 PROVE  NamedByHook(c)'
      OBVIOUS
    <3>1. hostfile[NameOf(c)] # None => DaemonPids(c) \subseteq {hostfile[NameOf(c)]}
      BY <1>n, <2>3, <2>4 DEF NamedByFiles
    <3> QED
      BY <1>n, <2>1, <2>2, <2>4, <3>1 DEF NamedByHook
  <2> QED
    BY <1>t, <2>5, <2>7, <2>8 DEF Named
<1>10. CASE KillDaemon(c) \/ KillOther(c) \/ KillNobody(c)
  <2>1. /\ hook[c] = "stopping" /\ at[c] = 3 /\ hook'[c] \in {"ok", "failed"}
        /\ UNCHANGED <<at, alive, stops, pidfile, hostfile, target>>
    BY <1>10 DEF KillDaemon, KillOther, KillNobody, Stopping
  <2>2. DaemonPids(c)' \subseteq DaemonPids(c)
    BY <1>1, <2>1 DEF LaunchDaemon
  <2>3. ~BeforeCopy(c) /\ ~BeforeCopy(c)' /\ ~Unlaunched(c)'
    BY <2>1 DEF BeforeCopy, Unlaunched
  <2>4. Life(c)'
    BY <2>1, <2>2, <2>3 DEF Life
  <2>5. target[c] \notin DaemonPids(c)'
    <3>1. CASE KillDaemon(c)
      BY <3>1 DEF KillDaemon, Signal, DaemonPids
    <3>2. CASE KillOther(c) \/ KillNobody(c)
      <4>1. proc[target[c]] # c
        BY <3>2 DEF KillOther, KillNobody
      <4> QED
        BY <2>2, <4>1 DEF DaemonPids
    <3> QED
      BY <1>10, <3>1, <3>2
  <2>6. Tracked(c) => DaemonPids(c)' = {}
    BY <1>n, <2>1, <2>2, <2>5 DEF NamedByHook
  <2>7. Tracked(c) => NamedByFiles(c)' /\ NamedByHook(c)'
    BY <1>n, <1>t, <2>1, <2>3, <2>6 DEF NamedByFiles, NamedByHook
  <2> QED
    BY <1>t, <2>4, <2>7 DEF Named
<1> QED
  BY <1>2, <1>3, <1>4, <1>5, <1>6, <1>7, <1>8, <1>9, <1>10
  DEF StepOf, StartHook, StopHook

Lives == \A c \in Containers : Life(c) /\ Named(c)

LEMMA LifeStays ==
  ASSUME TypeOK, Lives, [Next]_vars
  PROVE  Lives'
<1> SUFFICES ASSUME NEW c \in Containers
             PROVE  Life(c)' /\ Named(c)'
  BY DEF Lives
<1>1. Life(c) /\ Named(c)
  BY DEF Lives
<1>2. CASE StepOf(c)
  BY <1>1, <1>2, OwnStepStays
<1>3. CASE ~StepOf(c)
  <2>1. ~WritesHostfile(c)
    BY <1>3 DEF StepOf, WritesHostfile, StartHook, StopHook
  <2>2. Tracked(c) => HostfilesStay(c)
    BY <2>1, OthersKeepOut DEF Tracked, Trusted
  <2> QED
    BY <1>1, <1>3, <2>2, StepOfOther, IdleStays
<1> QED
  BY <1>2, <1>3

LEMMA InitNames ==
  ASSUME Init, NEW c \in Containers, PidfileHost[c] \notin OldHostfiles
  PROVE  \A n \in NamesOf(c) : hostfile[n] = None
<1> SUFFICES ASSUME NEW n \in NamesOf(c)
             PROVE  hostfile[n] = None
  OBVIOUS
<1>1. n \in HostNames
  BY DEF NamesOf, HostNames
<1>2. n \notin OldHostfiles
  <2>1. CASE PidfileHost[c] = None
    <3>1. n \in Containers \X Ports
      BY <2>1, UsedPortsAreNarrow DEF NamesOf
    <3> QED
      BY <3>1
  <2>2. CASE PidfileHost[c] # None
    BY <2>2 DEF NamesOf
  <2> QED
    BY <2>1, <2>2
<1> QED
  BY <1>1, <1>2 DEF Init

LEMMA LifeAtFirst == Init => Lives
<1> SUFFICES ASSUME Init, NEW c \in Containers
             PROVE  Life(c) /\ Named(c)
  BY DEF Lives
<1>1. /\ hook[c] = "idle" /\ at[c] = 1 /\ c \in alive /\ stops[c] = 0
      /\ (c \notin Stale => pidfile[c] = None)
  BY DEF Init
<1>2. DaemonPids(c) = {}
  BY DEF Init, DaemonPids
<1>3. PidfileHost[c] \notin OldHostfiles => \A n \in NamesOf(c) : hostfile[n] = None
  BY InitNames
<1>4. Life(c)
  BY <1>1, <1>2 DEF Life
<1> QED
  BY <1>1, <1>2, <1>3, <1>4 DEF Named, NamedByFiles, NamedByHook

LEMMA LivesAlways == Spec => [](TypeOK /\ Lives)
<1>1. Init => TypeOK /\ Lives
  BY InitTyped, LifeAtFirst
<1>2. TypeOK /\ Lives /\ [Next]_vars => (TypeOK /\ Lives)'
  BY StepIsTyped, LifeStays
<1> QED
  BY <1>1, <1>2, PTL DEF Spec

(* Whatever dies, is slow, is killed or is signalled by another container's*)
(* stop: a stop that reports success has left no daemon, if the file it    *)
(* read can only have been its own container's (Trusted).                  *)
THEOREM StoppedMeansStoppedTheorem == Spec => []StoppedMeansStopped
<1>1. TypeOK /\ Lives => StoppedMeansStopped
  <2> SUFFICES ASSUME Lives, NEW c \in Containers, Trusted(c), stops[c] > 0,
                      hook[c] = "ok"
               PROVE  DaemonPids(c) = {}
    BY DEF StoppedMeansStopped
  <2>1. Life(c) /\ Named(c)
    BY DEF Lives
  <2>2. Tracked(c)
    BY <2>1 DEF Life, Tracked
  <2> QED
    BY <2>1, <2>2 DEF Named, NamedByHook
<1> QED
  BY <1>1, LivesAlways, PTL

(* Once it is copied, and as long as a daemon runs, the pidfile on the host*)
(* names it, even when the image brought an old pidfile, another lay under *)
(* the annotated name, or the copy has failed.                             *)
THEOREM HostPidfileNamesDaemonTheorem == Spec => []HostPidfileNamesDaemon
<1>1. TypeOK /\ Lives => HostPidfileNamesDaemon
  BY DEF Lives, Named, NamedByFiles, Tracked, HostPidfileNamesDaemon
<1> QED
  BY <1>1, LivesAlways, PTL

-----------------------------------------------------------------------------
(* What the stop signals.  This takes daemons that do not die by themselves*)
(* and write their pidfile in time, and pidfiles that no two containers    *)
(* share and that were not there before: a single stop that misses its     *)
(* daemon may signal everybody.                                            *)

PidfilesAreOwn ==
  \A c \in Containers \ Joining : OwnPidfile(c) /\ PidfileHost[c] \notin OldHostfiles

KeptFiles(c) ==
  /\ \A n \in NamesOf(c) : hostfile[n] # None => hostfile[n] \in DaemonPids(c)
  /\ \A m, n \in NamesOf(c) : hostfile[m] # None /\ hostfile[n] # None => m = n
  /\ Stopping(c, 2) => hostfile[NameOf(c)] # None
  /\ Stopping(c, 3) => \A n \in NamesOf(c) : hostfile[n] = None

Kept(c) ==
  /\ c \notin Joining => KeptFiles(c)
  /\ hook[c] = "started" /\ at[c] = CopyPidfile => DaemonPids(c) # {}
  /\ hook[c] = "stopping" /\ at[c] # 1 => target[c] \in DaemonPids(c)
  /\ hit[c] \subseteq {c}

Keeps == \A c \in Containers : Kept(c)

(* The stopping hook signals a daemon, and one of its own container.       *)
LEMMA OnlyOwnDaemonIsKilled ==
  ASSUME Keeps, NEW c \in Containers
  PROVE  /\ ~KillOther(c) /\ ~KillNobody(c)
         /\ KillDaemon(c) => proc[target[c]] = c /\ target[c] \in Pids
<1>1. Stopping(c, 3) => target[c] \in DaemonPids(c)
  BY DEF Keeps, Kept, Stopping
<1>2. c # "other" /\ c # "free"
  OBVIOUS
<1> QED
  BY <1>1, <1>2 DEF KillOther, KillNobody, KillDaemon, DaemonPids

LEMMA DaemonsStay ==
  ASSUME TypeOK, Keeps, Mortal = {}, [Next]_vars, NEW c \in Containers,
         ~KillDaemon(c), ~(ContainerStops(c) /\ c \in Joining)
  PROVE  DaemonPids(c) \subseteq DaemonPids(c)'
<1> USE DEF TypeOK
<1> SUFFICES ASSUME NEW p \in Pids, proc[p] = c
             PROVE  proc'[p] = c
  BY DEF DaemonPids
<1>1. c # "other" /\ c # "free"
  OBVIOUS
<1>2. ASSUME NEW d \in Containers, LaunchDaemon(d)
      PROVE  proc'[p] = c
  BY <1>1, <1>2 DEF LaunchDaemon
<1>3. ASSUME NEW d \in Containers, KillDaemon(d) \/ KillOther(d) \/ KillNobody(d)
      PROVE  proc'[p] = c
  <2>1. KillDaemon(d) /\ proc[target[d]] = d
    BY <1>3, OnlyOwnDaemonIsKilled
  <2>2. c # d
    BY <2>1
  <2> QED
    BY <2>1, <2>2 DEF KillDaemon, Signal
<1>4. ASSUME NEW d \in Containers, DaemonDies(d) \/ ContainerStops(d)
      PROVE  proc'[p] = c
  BY <1>4 DEF DaemonDies, ContainerStops
<1>5. ASSUME NEW q \in Pids, OtherProcess(q)
      PROVE  proc'[p] = c
  BY <1>1, <1>5 DEF OtherProcess
<1>6. ASSUME NEW d \in Containers,
             \/ Begin(d) \/ SetUp(d) \/ SetUpFails(d) \/ CopyPidfileToHost(d)
             \/ CopyFails(d) \/ WritePidfile(d) \/ BeginStop(d) \/ ReadPidfile(d)
             \/ RemovePidfile(d) \/ KillHook(d)
      PROVE  proc'[p] = c
  BY <1>6 DEF Begin, SetUp, SetUpFails, CopyPidfileToHost, CopyFails,
     WritePidfile, BeginStop, ReadPidfile, RemovePidfile, KillHook
<1>7. CASE UNCHANGED vars
  BY <1>7
<1> QED
  BY <1>2, <1>3, <1>4, <1>5, <1>6, <1>7 DEF Next, StartHook, StopHook

LEMMA OthersKeep ==
  ASSUME TypeOK, Keeps, Mortal = {}, PidfilesAreOwn, [Next]_vars,
         NEW c \in Containers, ~StepOf(c)
  PROVE  Kept(c)'
<1>1. Own(c)' = Own(c) /\ DaemonPids(c)' \subseteq DaemonPids(c)
  BY StepOfOther
<1>2. DaemonPids(c) \subseteq DaemonPids(c)'
  BY DaemonsStay DEF StepOf, StopHook
<1>3. UNCHANGED <<hook[c], at[c], port[c], target[c], hit[c]>>
  BY <1>1 DEF Own
<1>4. ~WritesHostfile(c)
  BY DEF StepOf, WritesHostfile, StartHook, StopHook
<1>5. c \notin Joining => KeptFiles(c)'
  <2> SUFFICES ASSUME c \notin Joining
               PROVE  KeptFiles(c)'
    OBVIOUS
  <2>1. HostfilesStay(c) /\ KeptFiles(c)
    BY <1>4, OthersKeepOut DEF PidfilesAreOwn, Keeps, Kept
  <2>2. NamesOf(c)' = NamesOf(c) /\ NameOf(c)' = NameOf(c)
    BY <1>3 DEF NamesOf, NameOf
  <2>3. \A i : Stopping(c, i) => NameOf(c) \in NamesOf(c)
    BY NameIsOne DEF Stopping, TypeOK
  <2>4. \A i : Stopping(c, i)' <=> Stopping(c, i)
    BY <1>3 DEF Stopping
  <2> QED
    BY <1>1, <1>2, <2>1, <2>2, <2>3, <2>4 DEF KeptFiles, HostfilesStay
<1>6. Kept(c)
  BY DEF Keeps
<1> QED
  BY <1>1, <1>2, <1>3, <1>5, <1>6 DEF Kept

LEMMA OwnStepKeeps ==
  ASSUME TypeOK, Lives, Keeps, Mortal = {}, Slow = {}, PidfilesAreOwn, [Next]_vars,
         NEW c \in Containers, StepOf(c)
  PROVE  Kept(c)'
<1> USE DEF TypeOK, Step, Finish
<1>0. Life(c) /\ Named(c) /\ Kept(c)
  BY DEF Lives, Keeps
<1>n. NamesOf(c)' = NamesOf(c) /\ NamesOf(c) \subseteq HostNames
  BY DEF NamesOf, HostNames
<1>s. ASSUME hook'[c] # "stopping", UNCHANGED <<proc, hostfile, hit>>,
             hook'[c] = "started" /\ at'[c] = CopyPidfile => DaemonPids(c) # {}
      PROVE  Kept(c)'
  <2>1. DaemonPids(c)' = DaemonPids(c)
    BY <1>s, DaemonPidsSame
  <2> QED
    BY <1>0, <1>n, <1>s, <2>1 DEF Kept, KeptFiles, Stopping
<1>1. CASE Begin(c) \/ SetUp(c) \/ SetUpFails(c)
  <2>1. CASE Begin(c)
    BY <1>0, <1>s, <2>1 DEF Begin, Life, CopyPidfile
  <2>2. CASE SetUp(c) \/ SetUpFails(c)
    BY <1>s, <2>2 DEF SetUp, SetUpFails, StartDaemon, CopyPidfile
  <2> QED
    BY <1>1, <2>1, <2>2
<1>2. CASE LaunchDaemon(c)
  <2>1. /\ hook[c] = "started" /\ at[c] = StartDaemon /\ hook'[c] = "started"
        /\ UNCHANGED <<hostfile, target, hit>>
    BY <1>2 DEF LaunchDaemon
  <2>2. c \notin Joining => \A n \in NamesOf(c) : hostfile[n] = None
    <3>1. BeforeCopy(c) /\ DaemonPids(c) = {}
      BY <1>0, <2>1 DEF BeforeCopy, Life, Unlaunched, StartDaemon, CopyPidfile
    <3> QED
      BY <1>0, <3>1 DEF Kept, KeptFiles
  <2>3. DaemonPids(c)' # {}
    BY <1>2 DEF LaunchDaemon, DaemonPids
  <2> QED
    BY <1>0, <1>n, <2>1, <2>2, <2>3 DEF Kept, KeptFiles, Stopping
<1>3. CASE CopyPidfileToHost(c) \/ CopyFails(c)
  <2>1. /\ hook[c] = "started" /\ at[c] = CopyPidfile
        /\ WaitedForPidfile(c)
        /\ \/ hook'[c] = "started" /\ at'[c] = CopyPidfile + 1
         \/ hook'[c] = "failed"
        /\ UNCHANGED <<proc, target, hit>>
    BY <1>3 DEF CopyPidfileToHost, CopyFails
  <2>2. DaemonPids(c)' = DaemonPids(c) /\ DaemonPids(c) # {}
    BY <1>0, <2>1, DaemonPidsSame DEF Kept
  <2>3. CASE c \in Joining
    BY <1>0, <2>1, <2>2, <2>3 DEF Kept, CopyPidfile
  <2>4. CASE c \notin Joining
    <3>1. pidfile[c] \in DaemonPids(c)
      BY <2>1, <2>2, <2>4 DEF WaitedForPidfile, PidSeen
    <3>2. \A n \in NamesOf(c) : hostfile[n] = None
      <4>1. Tracked(c) /\ PidfileHost[c] \notin OldHostfiles
        BY <2>4 DEF Tracked, Trusted, PidfilesAreOwn
      <4>2. BeforeCopy(c)
        BY <2>1 DEF BeforeCopy
      <4> QED
        BY <1>0, <4>1, <4>2 DEF Named, NamedByFiles
    <3>3. \/ hostfile' = hostfile
          \/ \E x \in {None, pidfile[c]} : hostfile' = [hostfile EXCEPT ![NameOf(c)] = x]
      <4>1. hostfile[NameOf(c)] = None
        BY <2>1, <3>2, NameIsOne
      <4> QED
        BY <1>3, <4>1 DEF CopyPidfileToHost, CopyFails
    <3>4. \A n \in NamesOf(c) :
            \/ hostfile'[n] = None
            \/ n = NameOf(c) /\ hostfile'[n] = pidfile[c]
      BY <1>n, <3>2, <3>3
    <3>5. hook'[c] # "stopping"
      BY <2>1
    <3> QED
      BY <1>0, <1>n, <2>1, <2>2, <3>1, <3>4, <3>5 DEF Kept, KeptFiles, Stopping, CopyPidfile
  <2> QED
    BY <2>3, <2>4
<1>4. CASE WritePidfile(c)
  <2>1. UNCHANGED <<hook, at, port, proc, hostfile, target, hit>>
    BY <1>4 DEF WritePidfile
  <2>2. DaemonPids(c)' = DaemonPids(c) /\ NameOf(c)' = NameOf(c)
    BY <2>1, DaemonPidsSame DEF NameOf
  <2> QED
    BY <1>0, <1>n, <2>1, <2>2 DEF Kept, KeptFiles, Stopping
<1>5. CASE DaemonDies(c)
  BY <1>5 DEF DaemonDies
<1>6. CASE ContainerStops(c)
  <2>1. /\ hook[c] \in {"ok", "failed"}
        /\ UNCHANGED <<hook, at, hostfile, target, hit>>
        /\ c \notin Joining => DaemonPids(c)' = DaemonPids(c)
    BY <1>6 DEF ContainerStops, DaemonPids
  <2> QED
    BY <1>0, <1>n, <2>1 DEF Kept, KeptFiles, Stopping
<1>7. CASE BeginStop(c)
  <2>1. /\ hook'[c] \in {"failed", "stopping"} /\ at'[c] = 1
        /\ UNCHANGED <<proc, hostfile, target, hit>>
    BY <1>7 DEF BeginStop
  <2>2. DaemonPids(c)' = DaemonPids(c)
    BY <2>1, DaemonPidsSame
  <2> QED
    BY <1>0, <1>n, <2>1, <2>2 DEF Kept, KeptFiles, Stopping
<1>8. CASE ReadPidfile(c)
  <2>1. /\ hook[c] = "stopping" /\ UNCHANGED <<port, proc, hostfile, hit>>
        /\ \/ hook'[c] = "failed" /\ target' = target
           \/ /\ hook' = hook /\ at'[c] = 2
              /\ target'[c] = hostfile[NameOf(c)] /\ hostfile[NameOf(c)] # None
    BY <1>8 DEF ReadPidfile, Stopping
  <2>2. c \notin Joining /\ NameOf(c) \in NamesOf(c) /\ NameOf(c)' = NameOf(c)
    BY <1>0, <2>1, NameIsOne DEF Life, NameOf
  <2>3. DaemonPids(c)' = DaemonPids(c)
    BY <2>1, DaemonPidsSame
  <2>4. KeptFiles(c)'
    BY <1>0, <1>n, <2>1, <2>2, <2>3 DEF Kept, KeptFiles, Stopping
  <2> QED
    BY <1>0, <2>1, <2>2, <2>3, <2>4 DEF Kept, KeptFiles
<1>9. CASE KillHook(c)
  BY <1>s, <1>9 DEF KillHook
<1>r. CASE RemovePidfile(c)
  <2>1. /\ Stopping(c, 2) /\ UNCHANGED <<hook, port, proc, target, hit>>
        /\ hostfile' = [hostfile EXCEPT ![NameOf(c)] = None] /\ at'[c] = 3
    BY <1>r DEF RemovePidfile, Stopping
  <2>2. c \notin Joining /\ NameOf(c) \in NamesOf(c)
    BY <1>0, <2>1, NameIsOne DEF Life, Stopping
  <2>3. \A n \in NamesOf(c) : hostfile'[n] = None
    <3>1. \A n \in NamesOf(c) : n # NameOf(c) => hostfile[n] = None
      BY <1>0, <2>1, <2>2 DEF Kept, KeptFiles
    <3> QED
      BY <1>n, <2>1, <3>1
  <2>4. DaemonPids(c)' = DaemonPids(c) /\ target[c] \in DaemonPids(c)
    BY <1>0, <2>1, DaemonPidsSame DEF Kept, Stopping
  <2> QED
    BY <1>0, <1>n, <2>1, <2>3, <2>4 DEF Kept, KeptFiles, Stopping
<1>10. CASE KillDaemon(c) \/ KillOther(c) \/ KillNobody(c)
  <2>1. KillDaemon(c) /\ proc[target[c]] = c
    BY <1>10, OnlyOwnDaemonIsKilled
  <2>2. /\ hook'[c] = "ok" /\ hostfile' = hostfile /\ Stopping(c, 3)
        /\ hit'[c] = hit[c] \cup {proc[p] : p \in {target[c]}}
    BY <2>1 DEF KillDaemon, Signal
  <2>3. hit'[c] \subseteq {c}
    BY <1>0, <2>1, <2>2 DEF Kept
  <2>4. c \notin Joining => \A n \in NamesOf(c) : hostfile'[n] = None
    BY <1>0, <2>2 DEF Kept, KeptFiles
  <2> QED
    BY <1>n, <2>2, <2>3, <2>4 DEF Kept, KeptFiles, Stopping
<1> QED
  BY <1>1, <1>2, <1>3, <1>4, <1>5, <1>6, <1>7, <1>8, <1>9, <1>r, <1>10
  DEF StepOf, StartHook, StopHook

LEMMA KeepsStay ==
  ASSUME Mortal = {}, Slow = {}, PidfilesAreOwn
  PROVE  TypeOK /\ Lives /\ Keeps /\ [Next]_vars => (TypeOK /\ Lives /\ Keeps)'
<1> SUFFICES ASSUME TypeOK, Lives, Keeps, [Next]_vars
             PROVE  TypeOK' /\ Lives' /\ Keeps'
  OBVIOUS
<1>1. TypeOK' /\ Lives'
  BY StepIsTyped, LifeStays
<1>2. Keeps'
  BY OthersKeep, OwnStepKeeps DEF Keeps
<1> QED
  BY <1>1, <1>2

LEMMA KeepsAtFirst ==
  ASSUME PidfilesAreOwn
  PROVE  Init => TypeOK /\ Lives /\ Keeps
<1> SUFFICES ASSUME Init, NEW c \in Containers
             PROVE  Kept(c)
  BY InitTyped, LifeAtFirst DEF Keeps
<1>1. hook[c] = "idle" /\ hit[c] = {} /\ BeforeCopy(c)
  BY DEF Init, BeforeCopy
<1>2. c \notin Joining => \A n \in NamesOf(c) : hostfile[n] = None
  <2> SUFFICES ASSUME c \notin Joining
               PROVE  \A n \in NamesOf(c) : hostfile[n] = None
    OBVIOUS
  <2>1. PidfileHost[c] \notin OldHostfiles
    BY DEF PidfilesAreOwn
  <2> QED
    BY <2>1, InitNames
<1> QED
  BY <1>1, <1>2 DEF Kept, KeptFiles, Stopping

(* A daemon that lives and writes its pidfile in time is what the stop     *)
(* signals, and the only thing it signals, whatever other processes run,   *)
(* whichever containers stop at the same time, wherever a set-up fails and *)
(* a hook is killed while it stops a daemon: as long as no two containers  *)
(* have the same pidfile by annotation, and no annotated one was there     *)
(* before.                                                                 *)
THEOREM StopSignalsOnlyItsDaemonTheorem ==
  ASSUME Mortal = {}, Slow = {}, PidfilesAreOwn
  PROVE  Spec => []StopSignalsOnlyItsDaemon
<1>1. TypeOK /\ Lives /\ Keeps => StopSignalsOnlyItsDaemon
  BY DEF Keeps, Kept, StopSignalsOnlyItsDaemon
<1> QED
  BY <1>1, KeepsAtFirst, KeepsStay, PTL DEF Spec

-----------------------------------------------------------------------------
(* What has ended stays ended.                                             *)

Gone(c) == c \notin alive /\ DaemonPids(c) = {}

AliveInHook(c) == hook[c] \in {"idle", "started"} => c \in alive

LEMMA AliveInHookStays ==
  ASSUME TypeOK, [Next]_vars, NEW c \in Containers, AliveInHook(c)
  PROVE  AliveInHook(c)'
<1> USE DEF TypeOK, AliveInHook, Step, Finish
<1>1. ASSUME NEW d \in Containers,
             \/ Begin(d) \/ SetUp(d) \/ SetUpFails(d) \/ LaunchDaemon(d)
             \/ CopyPidfileToHost(d) \/ CopyFails(d)
      PROVE  AliveInHook(c)'
  BY <1>1 DEF Begin, SetUp, SetUpFails, LaunchDaemon, CopyPidfileToHost, CopyFails
<1>2. ASSUME NEW d \in Containers, WritePidfile(d) \/ DaemonDies(d) \/ KillHook(d)
      PROVE  AliveInHook(c)'
  BY <1>2 DEF WritePidfile, DaemonDies, KillHook
<1>3. ASSUME NEW d \in Containers, ContainerStops(d)
      PROVE  AliveInHook(c)'
  BY <1>3 DEF ContainerStops
<1>4. ASSUME NEW d \in Containers, StopHook(d)
      PROVE  AliveInHook(c)'
  BY <1>4 DEF StopHook, BeginStop, ReadPidfile, RemovePidfile, KillDaemon, KillOther,
              KillNobody
<1>5. CASE UNCHANGED <<hook, alive>>
  BY <1>5
<1> QED
  BY <1>1, <1>2, <1>3, <1>4, <1>5 DEF Next, StartHook, OtherProcess, vars

LEMMA GoneStays ==
  ASSUME TypeOK, [Next]_vars, NEW c \in Containers, AliveInHook(c), Gone(c)
  PROVE  Gone(c)'
<1>1. ~LaunchDaemon(c)
  BY DEF LaunchDaemon, AliveInHook, Gone
<1>2. DaemonPids(c)' = {}
  BY <1>1, DaemonsOnlyEnd DEF Gone
<1>3. alive' \subseteq alive
  BY DEF Next, StartHook, StopHook, Begin, SetUp, SetUpFails, LaunchDaemon,
         CopyPidfileToHost, CopyFails, WritePidfile, DaemonDies, KillHook, ContainerStops, BeginStop,
         ReadPidfile, RemovePidfile, KillDaemon, KillOther, KillNobody, OtherProcess, vars
<1> QED
  BY <1>2, <1>3 DEF Gone

(* A container that has stopped and has no daemon gets none again, whatever*)
(* runs of the hook are still to come.  (That the daemon ends is liveness.)*)
THEOREM GoneForGood ==
  ASSUME NEW c \in Containers
  PROVE  Spec => [](Gone(c) => []Gone(c))
<1>1. Init => AliveInHook(c)
  BY DEF Init, AliveInHook
<1>2. TypeOK /\ AliveInHook(c) /\ [Next]_vars => AliveInHook(c)'
  BY AliveInHookStays
<1>3. TypeOK /\ AliveInHook(c) /\ Gone(c) /\ [Next]_vars => Gone(c)'
  BY GoneStays
<1> QED
  BY <1>1, <1>2, <1>3, InitTyped, StepIsTyped, PTL DEF Spec

-----------------------------------------------------------------------------
(* The daemon of one container, as DaemonLife has it.                      *)

Reported(c) == stops[c] > 0 /\ hook[c] = "ok"

(* A step of somebody else, which at most ends the daemon.                 *)
LEMMA OthersLetItLive ==
  ASSUME TypeOK, [Next]_vars, NEW c \in Containers, Life(c), ~StepOf(c)
  PROVE  [Daemon(c)!Next]_(Daemon(c)!vars)
<1>1. /\ hook'[c] = hook[c] /\ at'[c] = at[c] /\ stops'[c] = stops[c]
      /\ c \in alive' <=> c \in alive
      /\ DaemonPids(c)' \subseteq DaemonPids(c)
  BY StepOfOther DEF Own
<1>2. Unlaunched(c)' <=> Unlaunched(c)
  BY <1>1 DEF Unlaunched
<1>3. (c \in alive)' = (c \in alive) /\ (Reported(c)' <=> Reported(c))
  BY <1>1 DEF Reported
<1>4. CASE DaemonPids(c) = {} \/ DaemonPids(c)' # {}
  <2>1. DaemonOf(c)' = DaemonOf(c)
    BY <1>1, <1>2, <1>4 DEF DaemonOf
  <2> QED
    BY <1>3, <2>1 DEF Daemon!vars, Reported
<1>5. CASE DaemonPids(c) # {} /\ DaemonPids(c)' = {}
  <2>1. DaemonOf(c) = "running" /\ DaemonOf(c)' = "ended"
    BY <1>2, <1>5 DEF DaemonOf, Life
  <2> QED
    BY <1>3, <2>1 DEF Daemon!Next, Daemon!Finish, Reported
<1> QED
  BY <1>4, <1>5

LEMMA LifeOfDaemon ==
  ASSUME TypeOK, TypeOK', [Next]_vars, NEW c \in Containers,
         Life(c), Life(c)', Trusted(c), Named(c)', StepOf(c)
  PROVE  [Daemon(c)!Next]_(Daemon(c)!vars)
<1> USE DEF TypeOK, Step, Finish
<1>u. Unlaunched(c) => DaemonOf(c) = "none"
  BY DEF Life, DaemonOf
<1>n. ~Unlaunched(c)' => DaemonOf(c)' \in {"running", "ended"}
  BY DEF DaemonOf
<1>e. DaemonPids(c)' = {} /\ ~Unlaunched(c)' => DaemonOf(c)' = "ended"
  BY DEF DaemonOf
<1>s. ASSUME DaemonOf(c)' = DaemonOf(c), alive' = alive,
             Reported(c)' <=> Reported(c)
      PROVE  UNCHANGED Daemon(c)!vars
  BY <1>s DEF Daemon!vars, Reported
<1>f. ASSUME DaemonOf(c) # "ended", DaemonOf(c)' = "ended",
             alive' = alive, Reported(c)' <=> Reported(c)
      PROVE  Daemon(c)!Next
  BY <1>f DEF Daemon!Next, Daemon!Finish, Reported
<1>1. CASE Begin(c)
  <2>1. /\ hook[c] = "idle" /\ hook'[c] \in {"started", "failed"}
        /\ UNCHANGED <<at, alive, stops, proc>>
    BY <1>1 DEF Begin
  <2>2. DaemonPids(c)' = {} /\ DaemonOf(c) = "none"
    BY <1>u, <2>1 DEF DaemonPids, Life, Unlaunched
  <2>3. ~Reported(c) /\ ~Reported(c)'
    BY <2>1 DEF Reported
  <2>4. DaemonOf(c)' \in {"none", "ended"}
    BY <2>2 DEF DaemonOf
  <2> QED
    BY <1>s, <1>f, <2>1, <2>2, <2>3, <2>4
<1>2. CASE SetUp(c) \/ SetUpFails(c) \/ CopyPidfileToHost(c) \/ CopyFails(c)
  <2>1. /\ hook[c] = "started" /\ stops[c] = 0
        /\ UNCHANGED <<alive, stops, proc>>
    BY <1>2 DEF SetUp, SetUpFails, CopyPidfileToHost, CopyFails, Life
  <2>2. DaemonPids(c)' = DaemonPids(c)
    BY <2>1 DEF DaemonPids
  <2>3. ~Reported(c) /\ ~Reported(c)'
    BY <2>1 DEF Reported
  <2>4. \/ hook'[c] \in {"ok", "failed"}
        \/ hook' = hook /\ at'[c] = at[c] + 1 /\ at[c] # StartDaemon
    BY <1>2 DEF SetUp, SetUpFails, CopyPidfileToHost, CopyFails, CopyPidfile,
                     StartDaemon
  <2>5. Unlaunched(c)' => Unlaunched(c)
    BY <2>1, <2>4 DEF Unlaunched, StartDaemon
  <2>6. DaemonOf(c)' \in {DaemonOf(c), "ended"}
    BY <2>2, <2>5 DEF DaemonOf
  <2> QED
    BY <1>s, <1>f, <2>1, <2>3, <2>6
<1>3. CASE LaunchDaemon(c)
  <2>1. /\ hook[c] = "started" /\ at[c] = StartDaemon /\ c \in alive
        /\ UNCHANGED <<hook, alive, stops>>
    BY <1>3 DEF LaunchDaemon, Life
  <2>2. DaemonOf(c) = "none"
    BY <1>u, <2>1 DEF Unlaunched, StartDaemon
  <2>3. DaemonPids(c)' # {}
    BY <1>3 DEF LaunchDaemon, DaemonPids
  <2>4. DaemonOf(c)' = "running"
    BY <2>3 DEF DaemonOf
  <2> QED
    BY <2>1, <2>2, <2>4 DEF Daemon!Next, Daemon!Start
<1>4. CASE WritePidfile(c)
  <2>1. UNCHANGED <<hook, at, stops, alive, proc>>
    BY <1>4 DEF WritePidfile
  <2> QED
    BY <1>s, <2>1 DEF DaemonOf, DaemonPids, Unlaunched, Reported
<1>5. CASE DaemonDies(c)
  <2>1. DaemonPids(c) # {} /\ UNCHANGED <<hook, at, stops, alive>>
    BY <1>5 DEF DaemonDies
  <2>2. DaemonOf(c) = "running" /\ ~Unlaunched(c) /\ ~Unlaunched(c)'
    BY <2>1 DEF DaemonOf, Life, Unlaunched
  <2>3. DaemonOf(c)' \in {"running", "ended"} /\ (Reported(c)' <=> Reported(c))
    BY <1>n, <2>1, <2>2 DEF Reported
  <2> QED
    BY <1>s, <1>f, <2>1, <2>2, <2>3
<1>6. CASE ContainerStops(c)
  <2>1. /\ c \in alive /\ c \notin alive' /\ hook[c] \in {"ok", "failed"}
        /\ UNCHANGED <<hook, at, stops>>
    BY <1>6 DEF ContainerStops
  <2>2. ~Unlaunched(c) /\ ~Unlaunched(c)' /\ (Reported(c)' <=> Reported(c))
    BY <2>1 DEF Unlaunched, Reported
  <2>3. DaemonPids(c)' \subseteq DaemonPids(c)
    BY <1>6 DEF ContainerStops, DaemonPids
  <2>4. DaemonOf(c) # "none" /\ DaemonOf(c)' \in {DaemonOf(c), "ended"}
    BY <2>2, <2>3 DEF DaemonOf
  <2> QED
    BY <2>1, <2>2, <2>4 DEF Daemon!Next, Daemon!ContainerStops, Reported
<1>7. CASE BeginStop(c)
  <2>1. /\ hook[c] \in {"ok", "failed"} /\ hook'[c] \in {"failed", "stopping"}
        /\ UNCHANGED <<alive, proc>>
    BY <1>7 DEF BeginStop
  <2>2. DaemonPids(c)' = DaemonPids(c) /\ ~Unlaunched(c) /\ ~Unlaunched(c)'
    BY <2>1 DEF DaemonPids, Unlaunched
  <2>3. DaemonOf(c)' = DaemonOf(c) /\ ~Reported(c)'
    BY <2>1, <2>2 DEF DaemonOf, Reported
  <2>4. CASE Reported(c)
    BY <2>1, <2>3, <2>4 DEF Daemon!Next, Daemon!StopAgain, Reported
  <2>5. CASE ~Reported(c)
    BY <1>s, <2>1, <2>3, <2>5
  <2> QED
    BY <2>4, <2>5
<1>8. CASE ReadPidfile(c) \/ RemovePidfile(c) \/ KillHook(c)
  <2>1. /\ hook[c] = "stopping" /\ hook'[c] \in {"stopping", "failed"}
        /\ UNCHANGED <<alive, proc>>
    BY <1>8 DEF ReadPidfile, RemovePidfile, KillHook, Stopping
  <2>2. DaemonPids(c)' = DaemonPids(c) /\ ~Unlaunched(c) /\ ~Unlaunched(c)'
    BY <2>1 DEF DaemonPids, Unlaunched
  <2>3. DaemonOf(c)' = DaemonOf(c) /\ ~Reported(c) /\ ~Reported(c)'
    BY <2>1, <2>2 DEF DaemonOf, Reported
  <2> QED
    BY <1>s, <2>1, <2>3
<1>9. CASE KillDaemon(c) \/ KillOther(c) \/ KillNobody(c)
  <2>1. /\ hook[c] = "stopping" /\ hook'[c] \in {"ok", "failed"}
        /\ c \notin alive /\ stops[c] > 0
        /\ UNCHANGED <<alive, stops>>
    BY <1>9 DEF KillDaemon, KillOther, KillNobody, Stopping, Life
  <2>2. DaemonOf(c) # "none" /\ ~Unlaunched(c)'
    BY <2>1 DEF DaemonOf, Unlaunched
  <2>3. DaemonPids(c)' \subseteq DaemonPids(c)
    BY <2>1, DaemonsOnlyEnd DEF LaunchDaemon
  <2>4. DaemonOf(c)' \in {DaemonOf(c), "ended"}
    BY <2>1, <2>2, <2>3 DEF DaemonOf, Unlaunched
  <2>5. CASE hook'[c] = "ok"
    <3>1. DaemonPids(c)' = {}
      <4>1. Tracked(c)' /\ stops'[c] > 0
        BY <2>1, TrackedSame DEF Tracked, Life
      <4> QED
        BY <2>5, <4>1 DEF Named, NamedByHook
    <3>2. DaemonOf(c)' = "ended"
      BY <1>e, <2>2, <3>1
    <3>3. ~Reported(c) /\ Reported(c)'
      BY <2>1, <2>5 DEF Reported
    <3> QED
      BY <2>1, <2>2, <3>2, <3>3 DEF Daemon!Next, Daemon!Report, Reported
  <2>6. CASE hook'[c] = "failed"
    <3>1. ~Reported(c) /\ ~Reported(c)'
      BY <2>1, <2>6 DEF Reported
    <3> QED
      BY <1>s, <1>f, <2>1, <2>4, <3>1
  <2> QED
    BY <2>1, <2>5, <2>6
<1> QED
  BY <1>1, <1>2, <1>3, <1>4, <1>5, <1>6, <1>7, <1>8, <1>9
  DEF StepOf, StartHook, StopHook

(* Whatever dies, is slow, is killed, fails or is stopped twice: the daemon*)
(* of every container starts at most once, while the container lives, never*)
(* comes back, and has ended when a stop reports success, if the pidfile it*)
(* read can only have been its own container's (Trusted).  Nothing is asked*)
(* of the other containers, which may share pidfiles and signal this one's *)
(* daemon.                                                                 *)
THEOREM ImplementsDaemonLifeTheorem == Spec => ImplementsDaemonLife
<1>1. Init => \A c \in Containers : Daemon(c)!Init
  <2> SUFFICES ASSUME Init, NEW c \in Containers PROVE Daemon(c)!Init
    OBVIOUS
  <2>1. hook[c] = "idle" /\ c \in alive /\ stops[c] = 0 /\ DaemonPids(c) = {}
    BY DEF Init, DaemonPids
  <2> QED
    BY <2>1 DEF Daemon!Init, DaemonOf, Unlaunched
<1>2. TypeOK /\ Lives /\ (TypeOK /\ Lives)' /\ [Next]_vars
      => \A c \in Containers :
           Trusted(c) => [Daemon(c)!Next]_(Daemon(c)!vars)
  BY OthersLetItLive, LifeOfDaemon DEF Lives
<1>3. Init => \A c \in Containers : Trusted(c) => Daemon(c)!Init
  BY <1>1
<1> QED
  BY <1>2, <1>3, LivesAlways, PTL DEF Spec, ImplementsDaemonLife
=============================================================================
