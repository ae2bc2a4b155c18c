----------------------------- MODULE SshDaemon -----------------------------
(***************************************************************************)
(* The SSH daemon of a container (src/ssh/SshHook.cpp, startStopSshDaemon).*)
(* The hook runs once when the container is created, to set up SSH and     *)
(* start a Dropbear daemon, and again when the container has stopped.  The *)
(* two runs share nothing but the host's pidfile.  Its name is that of an  *)
(* annotation, or else is made of the container's id and the port number   *)
(* that each run works out for itself.  An annotated file may be there     *)
(* before, and may be that of other containers as well.                    *)
(*                                                                         *)
(* Pids are those of the host.  With JOIN_NAMESPACES the daemon lives in   *)
(* the container's pid namespace and dies with the container; without, it  *)
(* is a process of the host and lasts until it is stopped.  What the       *)
(* former writes into its pidfile is its pid in its own namespace, which   *)
(* on the host is that of somebody else, or of nobody.                     *)
(***************************************************************************)
EXTENDS Integers

CONSTANTS
  Containers,
  Joining,        \* the containers whose hook has JOIN_NAMESPACES set
  Pids,           \* process ids of the host
  None,           \* no pid; an environment variable or annotation not set
  ServerPort,     \* SERVER_PORT (an integer, or None)
  DefaultPort,    \* SERVER_PORT_DEFAULT (an integer, or None)
  AnnotatedPort,  \* the annotation com.hooks.ssh.port (an integer, or None)
  HostPaths,      \* paths that com.hooks.ssh.pidfile_host may name
  PidfileHost,    \* PidfileHost[c]: the path c's annotation names, or None
  OldHostfiles,   \* those of HostPaths where an old pidfile lies at first
  InnerPid,       \* InnerPid[c]: the pid a joining daemon sees itself having
  Garbage,        \* what an uninitialized serverPort may hold
  FailingSteps,   \* the set-up steps that may throw
  Mortal,         \* the containers whose daemon may die by itself
  Slow,           \* those whose daemon may take over 50 ms for its pidfile
  Stale,          \* those whose root filesystem contains an old pidfile
  Killable,       \* those whose hook may be killed while it stops the daemon
  OthersMayRun,   \* TRUE if the host runs other processes
  MaxStops        \* bound: how often the engine runs the hook after the stop

Ports == 0 .. 65535

ASSUME SshDaemonAssumption ==
  /\ Joining \subseteq Containers
  /\ None \notin Pids \cup Containers \cup Int
  /\ {"other", "free"} \cap Containers = {}
  /\ {ServerPort, DefaultPort, AnnotatedPort} \subseteq Int \cup {None}
  /\ Garbage \subseteq Ports
  /\ \A f \in HostPaths : f # None /\ f \notin Containers \X Ports
  /\ PidfileHost \in [Containers -> HostPaths \cup {None}]
  /\ OldHostfiles \subseteq HostPaths
  /\ InnerPid \in [Joining -> Pids]
  /\ Mortal \cup Slow \cup Stale \cup Killable \subseteq Containers
  /\ OthersMayRun \in BOOLEAN
  /\ MaxStops \in Nat \ {0}

\* What startStopSshDaemon does in the container, in its order.
SetUpSteps == <<"namespaces", "dropbear", "keysdir", "keys", "passwd",
                "environment", "profile", "daemon", "pidfile", "ssh">>
Last == 10
StartDaemon == 8
CopyPidfile == 9

VARIABLES
  hook,       \* hook[c]: "idle", "started", "stopping", "ok" or "failed"
  at,         \* at[c]: the index in SetUpSteps, or the step of the stop
  port,       \* port[c]: serverPort of the hook process (None: none yet)
  alive,      \* the containers that have not stopped
  stops,      \* stops[c]: runs of the hook after the container stopped
  proc,       \* proc[p]: the container whose daemon p is, "other" or "free"
  pidfile,    \* pidfile[c]: content of the pidfile in the container
  hostfile,   \* hostfile[n]: content of the pidfile of that name on the host
  target,     \* target[c]: the pid the stopping hook has read
  hit         \* history: hit[c], what stopping c's daemon has signalled

vars == <<hook, at, port, alive, stops, proc, pidfile, hostfile, target, hit>>
files == <<pidfile, hostfile>>

-----------------------------------------------------------------------------
(* The port number, and the names of the host's pidfiles.                  *)

Narrow(n) == n % 65536    \* assigned to a std::uint16_t

(* getServerPortFromEnv.  serverPort starts uninitialized; an unset        *)
(* variable makes getVariable throw, and the value stays what it was.  The *)
(* default, if set, overrides SERVER_PORT.                                 *)
PortFromEnv(garbage) ==
  LET given == IF ServerPort = None THEN garbage ELSE Narrow(ServerPort)
  IN  IF DefaultPort # None THEN Narrow(DefaultPort)
      ELSE IF given = 0 THEN None ELSE given

(* ... which the annotation overrides in parseConfigJSONOfBundle, but only *)
(* once getServerPortFromEnv has returned.  None: the hook has thrown.     *)
PortOfHook(garbage) ==
  IF PortFromEnv(garbage) = None \/ AnnotatedPort = None
  THEN PortFromEnv(garbage)
  ELSE Narrow(AnnotatedPort)

\* What serverPort may be once the hook knows it.
UsedPorts == {PortOfHook(g) : g \in Garbage} \ {None}

HostNames == (Containers \X UsedPorts) \cup HostPaths

(* The file both runs take for c's: the annotated one, whatever the port,  *)
(* or dropbear-<hostname>-<container>-<port>.pid.                          *)
NameOf(c) == IF PidfileHost[c] # None THEN PidfileHost[c] ELSE <<c, port[c]>>

-----------------------------------------------------------------------------
(* The state at first.                                                     *)

TypeOK ==
  /\ hook \in [Containers -> {"idle", "started", "stopping", "ok", "failed"}]
  /\ at \in [Containers -> 1 .. Last]
  /\ port \in [Containers -> (UsedPorts \cap Ports) \cup {None}]
  /\ \A c \in Containers : hook[c] \in {"started", "stopping"} => port[c] # None
  /\ alive \in SUBSET Containers
  /\ stops \in [Containers -> 0 .. MaxStops]
  /\ proc \in [Pids -> Containers \cup {"other", "free"}]
  /\ pidfile \in [Containers -> Pids \cup {None}]
  /\ hostfile \in [HostNames -> Pids \cup {None}]
  /\ target \in [Containers -> Pids \cup {None}]
  /\ hit \in [Containers -> SUBSET (Containers \cup {"other"})]

Init ==
  /\ hook = [c \in Containers |-> "idle"]
  /\ at = [c \in Containers |-> 1]
  /\ port = [c \in Containers |-> None]
  /\ alive = Containers
  /\ stops = [c \in Containers |-> 0]
  /\ proc = [p \in Pids |-> "free"]
  /\ pidfile \in {f \in [Containers -> Pids \cup {None}] :
                    \A c \in Containers : c \notin Stale <=> f[c] = None}
  /\ \E old \in [OldHostfiles -> Pids] :
       hostfile = [n \in HostNames |-> IF n \in OldHostfiles THEN old[n] ELSE None]
  /\ target = [c \in Containers |-> None]
  /\ hit = [c \in Containers |-> {}]

-----------------------------------------------------------------------------
(* The set-up, when the container is created.                              *)

DaemonPids(c) == {p \in Pids : proc[p] = c}

Finish(c, outcome) ==
  /\ hook' = [hook EXCEPT ![c] = outcome]
  /\ UNCHANGED at

Step(c, i) ==
  /\ at' = [at EXCEPT ![c] = i]
  /\ UNCHANGED hook

Begin(c) ==
  /\ hook[c] = "idle"
  /\ \E g \in Garbage :
       /\ port' = [port EXCEPT ![c] = PortOfHook(g)]
       /\ hook' = [hook EXCEPT ![c] = IF PortOfHook(g) = None
                                      THEN "failed" ELSE "started"]
  /\ UNCHANGED <<at, alive, stops, proc, files, target, hit>>

(* Operators named Bad... are faulty variants of the one that follows      *)
(* them; no specification uses them.  They check that the properties fail  *)
(* when the code is wrong.                                                 *)

\* The set-up does not know its last step.
BadSetUp(c) ==
  /\ hook[c] = "started"
  /\ at[c] \notin {StartDaemon, CopyPidfile}
  /\ Step(c, at[c] + 1)
  /\ UNCHANGED <<port, alive, stops, proc, files, target, hit>>

(* Every step but the daemon's works on the container's files only.        *)
SetUp(c) ==
  /\ hook[c] = "started"
  /\ at[c] \notin {StartDaemon, CopyPidfile}
  /\ IF at[c] = Last
     THEN Finish(c, "ok")
     ELSE Step(c, at[c] + 1)
  /\ UNCHANGED <<port, alive, stops, proc, files, target, hit>>

SetUpFails(c) ==
  /\ hook[c] = "started"
  /\ at[c] # CopyPidfile
  /\ SetUpSteps[at[c]] \in FailingSteps
  /\ Finish(c, "failed")
  /\ UNCHANGED <<port, alive, stops, proc, files, target, hit>>

(* startSshDaemonInContainer: forkExecWait returns when Dropbear's parent  *)
(* process has exited; the daemon itself goes on and writes its pidfile.   *)
LaunchDaemon(c) ==
  /\ hook[c] = "started"
  /\ at[c] = StartDaemon
  /\ \E p \in Pids : proc[p] = "free" /\ proc' = [proc EXCEPT ![p] = c]
  /\ Step(c, CopyPidfile)
  /\ UNCHANGED <<port, alive, stops, files, target, hit>>

PidSeen(c, p) == IF c \in Joining THEN InnerPid[c] ELSE p

WritePidfile(c) ==
  /\ \E p \in DaemonPids(c) :
       /\ pidfile[c] # PidSeen(c, p)
       /\ pidfile' = [pidfile EXCEPT ![c] = PidSeen(c, p)]
  /\ UNCHANGED <<hook, at, port, alive, stops, proc, hostfile, target, hit>>

\* The hook does not wait before it looks for the pidfile.
BadCopyPidfileToHost(c) ==
  /\ hook[c] = "started"
  /\ at[c] = CopyPidfile
  /\ IF pidfile[c] # None
     THEN hostfile' = [hostfile EXCEPT ![NameOf(c)] = pidfile[c]]
     ELSE UNCHANGED hostfile
  /\ Step(c, CopyPidfile + 1)
  /\ UNCHANGED <<port, alive, stops, proc, pidfile, target, hit>>

WaitedForPidfile(c) ==
  c \in Slow \/ \A p \in DaemonPids(c) : pidfile[c] = PidSeen(c, p)

(* 50 ms later the pidfile is copied to the host if there is one; if not,  *)
(* the hook warns and succeeds nevertheless.                               *)
CopyPidfileToHost(c) ==
  /\ hook[c] = "started"
  /\ at[c] = CopyPidfile
  /\ WaitedForPidfile(c)
  /\ IF pidfile[c] # None
     THEN hostfile' = [hostfile EXCEPT ![NameOf(c)] = pidfile[c]]
     ELSE UNCHANGED hostfile
  /\ Step(c, CopyPidfile + 1)
  /\ UNCHANGED <<port, alive, stops, proc, pidfile, target, hit>>

(* copyFile removes what was there, copies, and sets the owner; whichever  *)
(* of them throws, the daemon keeps running.                               *)
CopyFails(c) ==
  /\ hook[c] = "started"
  /\ at[c] = CopyPidfile
  /\ SetUpSteps[CopyPidfile] \in FailingSteps
  /\ WaitedForPidfile(c)
  /\ pidfile[c] # None
  /\ \E left \in {hostfile[NameOf(c)], None, pidfile[c]} :
       hostfile' = [hostfile EXCEPT ![NameOf(c)] = left]
  /\ Finish(c, "failed")
  /\ UNCHANGED <<port, alive, stops, proc, pidfile, target, hit>>

-----------------------------------------------------------------------------
(* The host.                                                               *)

DaemonDies(c) ==
  /\ c \in Mortal
  /\ \E p \in DaemonPids(c) : proc' = [proc EXCEPT ![p] = "free"]
  /\ UNCHANGED <<hook, at, port, alive, stops, files, target, hit>>

OtherProcess(p) ==
  /\ OthersMayRun
  /\ \/ proc[p] = "free" /\ proc' = [proc EXCEPT ![p] = "other"]
     \/ proc[p] = "other" /\ proc' = [proc EXCEPT ![p] = "free"]
  /\ UNCHANGED <<hook, at, port, alive, stops, files, target, hit>>

(* The container stops after its hook has returned (at once if the hook    *)
(* failed), and takes its pid namespace with it.                           *)
ContainerStops(c) ==
  /\ c \in alive
  /\ hook[c] \in {"ok", "failed"}
  /\ alive' = alive \ {c}
  /\ proc' = [p \in Pids |-> IF proc[p] = c /\ c \in Joining
                             THEN "free" ELSE proc[p]]
  /\ UNCHANGED <<hook, at, port, stops, files, target, hit>>

-----------------------------------------------------------------------------
(* stopSshDaemon, when the container has stopped.                          *)

Stopping(c, i) == hook[c] = "stopping" /\ at[c] = i

(* The engine runs the hook with the container's state "stopped".  With    *)
(* JOIN_NAMESPACES it does not stop anything: it goes on to enter the      *)
(* namespaces of the container's process, which is gone, and fails.        *)
BeginStop(c) ==
  /\ c \notin alive
  /\ hook[c] \in {"ok", "failed"}
  /\ stops[c] < MaxStops
  /\ stops' = [stops EXCEPT ![c] = @ + 1]
  /\ at' = [at EXCEPT ![c] = 1]
  /\ \E g \in Garbage :
       /\ port' = [port EXCEPT ![c] = PortOfHook(g)]
       /\ hook' = [hook EXCEPT ![c] =
                     IF PortOfHook(g) = None \/ c \in Joining
                     THEN "failed" ELSE "stopping"]
  /\ UNCHANGED <<alive, proc, files, target, hit>>

\* A missing pidfile is taken for a daemon that is gone.
BadReadPidfile(c) ==
  /\ Stopping(c, 1)
  /\ IF hostfile[NameOf(c)] # None
     THEN target' = [target EXCEPT ![c] = hostfile[NameOf(c)]] /\ Step(c, 2)
     ELSE Finish(c, "ok") /\ UNCHANGED target
  /\ UNCHANGED <<port, alive, stops, proc, files, hit>>

(* readFile throws when there is no pidfile of that name, and asks nothing *)
(* about whose pidfile it is.                                              *)
ReadPidfile(c) ==
  /\ Stopping(c, 1)
  /\ IF hostfile[NameOf(c)] # None
     THEN target' = [target EXCEPT ![c] = hostfile[NameOf(c)]] /\ Step(c, 2)
     ELSE Finish(c, "failed") /\ UNCHANGED target
  /\ UNCHANGED <<port, alive, stops, proc, files, hit>>

RemovePidfile(c) ==
  /\ Stopping(c, 2)
  /\ hostfile' = [hostfile EXCEPT ![NameOf(c)] = None]
  /\ Step(c, 3)
  /\ UNCHANGED <<port, alive, stops, proc, pidfile, target, hit>>

\* SIGTERM ends a daemon; another process may do with it what it likes.
Signal(c, ps) ==
  /\ hit' = [hit EXCEPT ![c] = @ \cup {proc[p] : p \in ps}]
  /\ proc' = [p \in Pids |-> IF p \in ps /\ proc[p] \in Containers
                             THEN "free" ELSE proc[p]]

(* kill(getpgid(pid), SIGTERM), without a minus sign: not the group but    *)
(* its leader gets the signal, or pid itself if there is no leader.  A     *)
(* daemon leads its own group, another process may be led by any other.    *)
KillDaemon(c) ==
  /\ Stopping(c, 3)
  /\ proc[target[c]] \in Containers
  /\ Signal(c, {target[c]})
  /\ Finish(c, "ok")
  /\ UNCHANGED <<port, alive, stops, files, target>>

KillOther(c) ==
  /\ Stopping(c, 3)
  /\ proc[target[c]] = "other"
  /\ \E leader \in Pids :
       /\ proc[leader] \notin Containers
       /\ Signal(c, IF proc[leader] = "other" THEN {leader} ELSE {target[c]})
  /\ Finish(c, "ok")
  /\ UNCHANGED <<port, alive, stops, files, target>>

(* When no process has that pid, getpgid returns -1, and kill(-1) signals  *)
(* every process there is.  Only if there is none does the hook report     *)
(* that it was unable to kill the daemon.                                  *)
KillNobody(c) ==
  /\ Stopping(c, 3)
  /\ proc[target[c]] = "free"
  /\ LET everybody == {p \in Pids : proc[p] # "free"}
     IN  /\ Signal(c, everybody)
         /\ Finish(c, IF everybody = {} THEN "failed" ELSE "ok")
  /\ UNCHANGED <<port, alive, stops, files, target>>

(* The hook dies between two calls.                                        *)
KillHook(c) ==
  /\ c \in Killable
  /\ hook[c] = "stopping"
  /\ Finish(c, "failed")
  /\ UNCHANGED <<port, alive, stops, proc, files, target, hit>>

StartHook(c) == Begin(c) \/ SetUp(c) \/ SetUpFails(c) \/ LaunchDaemon(c)
                \/ CopyPidfileToHost(c) \/ CopyFails(c)

StopHook(c) == BeginStop(c) \/ ReadPidfile(c) \/ RemovePidfile(c)
               \/ KillDaemon(c) \/ KillOther(c) \/ KillNobody(c)

Next == \/ \E c \in Containers :
             StartHook(c) \/ WritePidfile(c) \/ DaemonDies(c)
             \/ ContainerStops(c) \/ StopHook(c) \/ KillHook(c)
        \/ \E p \in Pids : OtherProcess(p)

Spec == Init /\ [][Next]_vars

(* The engine runs its hooks, a daemon writes its pidfile, and every       *)
(* container ends some day.                                                *)
FairSpec == /\ Spec
            /\ \A c \in Containers : /\ WF_vars(StartHook(c))
                                     /\ WF_vars(WritePidfile(c))
                                     /\ WF_vars(ContainerStops(c))
                                     /\ WF_vars(StopHook(c))

-----------------------------------------------------------------------------
(* The names that c's runs may give their pidfile, whatever the port.      *)
NamesOf(c) ==
  IF PidfileHost[c] # None THEN {PidfileHost[c]} ELSE {c} \X UsedPorts

OwnPidfile(c) ==
  PidfileHost[c] # None
    => \A d \in Containers \ {c} : PidfileHost[d] # PidfileHost[c]

(* The code takes the pid of whatever pidfile lies under the name.  It can *)
(* be that of c's daemon only if no other container writes there and what  *)
(* lay there, or in the image, was replaced for sure.  With                *)
(* JOIN_NAMESPACES nothing is read, and nothing can be mistaken.           *)
Trusted(c) ==
  \/ c \in Joining
  \/ /\ OwnPidfile(c)
     /\ PidfileHost[c] \in OldHostfiles
          => c \notin Slow /\ "pidfile" \notin FailingSteps
     /\ c \notin Stale \cap Slow

BeforeCopy(c) ==
  hook[c] = "idle" \/ (hook[c] = "started" /\ at[c] <= CopyPidfile)

(* Stopping the daemon of a container signals that daemon and no other     *)
(* process: the log calls it "Deactivating SSH daemon with ... PID", and   *)
(* a daemon that cannot be killed is to be reported.  (Not so if two       *)
(* containers share a pidfile, or one finds an old one.)                   *)
StopSignalsOnlyItsDaemon == \A c \in Containers : hit[c] \subseteq {c}

(* From the time it is copied, the pidfile on the host names the           *)
(* container's daemon for as long as that daemon runs, so that the stop    *)
(* finds it (which with JOIN_NAMESPACES does not look for it).             *)
HostPidfileNamesDaemon ==
  \A c \in Containers \ Joining :
    Trusted(c) /\ ~BeforeCopy(c) /\ DaemonPids(c) # {} =>
      \A n \in NamesOf(c) : hostfile[n] # None => hostfile[n] \in DaemonPids(c)

(* The hook could not copy the pidfile: it fails, and nothing on the host  *)
(* tells the pid of the daemon that runs.                                  *)
CopyLost(c) ==
  /\ c \notin Joining
  /\ hook[c] = "failed"
  /\ at[c] = CopyPidfile
  /\ hostfile[NameOf(c)] = None

(* Whatever the port, and wherever else the set-up fails, it leaves a      *)
(* daemon the stop can find: no daemon outlives its container for ever.    *)
NoDaemonOutlivesItsContainer ==
  \A c \in Containers :
    (c \notin alive /\ stops[c] = 0 /\ ~CopyLost(c)) ~> (DaemonPids(c) = {})

(* Once the hook reports that it has stopped the daemon, the daemon does   *)
(* not run, whether it has died before, its pid is used by somebody else,  *)
(* or an earlier attempt to stop it was interrupted.                       *)
StoppedMeansStopped ==
  \A c \in Containers :
    Trusted(c) /\ stops[c] > 0 /\ hook[c] = "ok" => DaemonPids(c) = {}

\* The refinement mapping, one for each container.
Unlaunched(c) == hook[c] = "idle" \/ (hook[c] = "started" /\ at[c] <= StartDaemon)

DaemonOf(c) == IF DaemonPids(c) # {} THEN "running"
               ELSE IF Unlaunched(c) THEN "none" ELSE "ended"

Daemon(c) == INSTANCE DaemonLife
               WITH daemon <- DaemonOf(c),
                    lives <- c \in alive,
                    reported <- (stops[c] > 0 /\ hook[c] = "ok")

(* The runs of the hook (startStopSshDaemon), the host and the container   *)
(* together treat the daemon of every container as DaemonLife says, also   *)
(* while others share pidfiles and stop what is not theirs.                *)
ImplementsDaemonLife ==
  /\ \A c \in Containers : Trusted(c) => Daemon(c)!Init
  /\ [][\A c \in Containers :
          Trusted(c) => [Daemon(c)!Next]_(Daemon(c)!vars)]_vars
=============================================================================
