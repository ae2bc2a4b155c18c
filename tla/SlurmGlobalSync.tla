-------------------------- MODULE SlurmGlobalSync --------------------------
(***************************************************************************)
(* The Slurm global synchronization hook (src/slurm_global_sync): a        *)
(* barrier across the tasks of one Slurm job step, built from files in a   *)
(* directory shared by all nodes,                                          *)
(*                                                                         *)
(*   .../slurm-global-sync/jobid-J-stepid-S/arrival/slurm-procid-P         *)
(*   .../slurm-global-sync/jobid-J-stepid-S/departure/slurm-procid-P       *)
(*                                                                         *)
(* Every task runs one hook process per container it launches.  A process  *)
(* creates its arrival file, polls until the arrival directory holds       *)
(* SLURM_NTASKS entries, creates its departure file, and exits; the        *)
(* process with procid 0 also polls the departure directory and then       *)
(* removes the whole tree, one entry at a time.                            *)
(*                                                                         *)
(* The grain of atomicity is one system call on the shared directory.      *)
(***************************************************************************)
EXTENDS Integers, FiniteSets

CONSTANTS Procs,         \* the tasks of the step (the values of SLURM_PROCID)
          Root,          \* the task whose SLURM_PROCID is "0"
          NTasks,        \* SLURM_NTASKS, as every container's environment has it
          Unconfigured,  \* tasks whose container may lack the SLURM_* variables,
                         \* or whose hook may fail to read its configuration
          Killable,      \* tasks whose hook may be killed (hook timeout, scancel)
          MaxLaunches    \* bound: containers a task launches within the step

ASSUME SyncAssumption ==
  /\ IsFiniteSet(Procs)
  /\ Root \in Procs
  /\ NTasks = Cardinality(Procs)
  /\ Unconfigured \subseteq Procs
  /\ Killable \subseteq Procs
  /\ MaxLaunches \in Nat \ {0}

Phases == {"arrival", "departure"}

VARIABLES
  status,     \* status[p]: is p's hook running, and if not how did it end
  launch,     \* launch[p]: how many containers task p has launched
  phase,      \* phase[p]: how far p's hook has come (kept when it ends)
  step,       \* step[p]: the call p's hook makes next within that phase
  dirs,       \* which of the two directories exist
  files,      \* files[d]: the tasks that have a file in directory d
  sweep,      \* the progress of procid 0's remove_all
  signalled   \* history: signalled[d][p], the last launch in which p created
              \* its file in d (0: never)

proc == <<status, phase, step>>
tree == <<dirs, files, signalled>>
vars == <<status, launch, phase, step, dirs, files, sweep, signalled>>

NoSweep == [queue |-> {}, dir |-> "none", listed |-> {}]

TypeOK ==
  /\ status \in [Procs -> {"absent", "running", "ok", "setupError",
                           "internalError", "ioError", "killed"}]
  /\ launch \in [Procs -> 0 .. MaxLaunches]
  /\ phase \in [Procs -> Phases \cup {"init", "finished"}]
  /\ step \in [Procs -> {"parse", "check", "mkdirs", "touch", "wait",
                         "open", "sweep"}]
  /\ dirs \in SUBSET Phases
  /\ files \in [Phases -> SUBSET Procs]
  /\ sweep \in [queue : SUBSET Phases, dir : Phases \cup {"none"},
                listed : SUBSET Procs]
  /\ signalled \in [Phases -> [Procs -> 0 .. MaxLaunches]]

Init ==
  /\ status = [p \in Procs |-> "absent"]
  /\ launch = [p \in Procs |-> 0]
  /\ phase = [p \in Procs |-> "init"]
  /\ step = [p \in Procs |-> "parse"]
  /\ dirs = {}
  /\ files = [d \in Phases |-> {}]
  /\ sweep = NoSweep
  /\ signalled = [d \in Phases |-> [p \in Procs |-> 0]]

-----------------------------------------------------------------------------
(* How a step leaves the process that takes it.                            *)

Running(p) == status[p] = "running"

Goto(p, ph, st) ==
  /\ phase' = [phase EXCEPT ![p] = ph]
  /\ step' = [step EXCEPT ![p] = st]
  /\ UNCHANGED status

Exit(p, outcome) ==
  /\ status' = [status EXCEPT ![p] = outcome]
  /\ UNCHANGED <<phase, step>>

\* The hook has done all it had to do.
Succeed(p) ==
  /\ status' = [status EXCEPT ![p] = "ok"]
  /\ phase' = [phase EXCEPT ![p] = "finished"]
  /\ UNCHANGED step

-----------------------------------------------------------------------------
(* Operators named Bad... are faulty variants of the one that follows      *)
(* them; no specification uses them.  They check that the properties fail  *)
(* when the code is wrong.                                                 *)

BadLaunch(p) ==
  /\ ~Running(p)
  /\ launch' = [launch EXCEPT ![p] = @ + 1]
  /\ status' = [status EXCEPT ![p] = "running"]
  /\ phase' = [phase EXCEPT ![p] = "init"]
  /\ step' = [step EXCEPT ![p] = "parse"]
  /\ UNCHANGED <<tree, sweep>>

(* The runtime starts the hook for a new container of task p.              *)
Launch(p) ==
  /\ ~Running(p)
  /\ launch[p] < MaxLaunches
  /\ launch' = [launch EXCEPT ![p] = @ + 1]
  /\ status' = [status EXCEPT ![p] = "running"]
  /\ phase' = [phase EXCEPT ![p] = "init"]
  /\ step' = [step EXCEPT ![p] = "parse"]
  /\ UNCHANGED <<tree, sweep>>

(* parseConfigJSONOfBundle, dropPrivileges and loadConfigs.  Without the   *)
(* SLURM_* variables the hook is disabled, but main still drops            *)
(* privileges, to a uid and gid nobody has assigned: setresuid may accept  *)
(* or refuse them.                                                         *)
SetUp(p) ==
  \/ Goto(p, "arrival", "check")
  \/ /\ p \in Unconfigured
     /\ \E outcome \in {"ok", "setupError"} : Exit(p, outcome)

(* The constructor, dropPrivileges, loadConfigs and the first test of      *)
(* performSynchronization.                                                 *)
Parse(p) ==
  /\ Running(p)
  /\ step[p] = "parse"
  /\ SetUp(p)
  /\ UNCHANGED <<launch, tree, sweep>>

(* createSyncFile: a file that exists already is an internal error.        *)
Check(p) ==
  /\ Running(p)
  /\ step[p] = "check"
  /\ IF p \in files[phase[p]]
     THEN Exit(p, "internalError")
     ELSE Goto(p, phase[p], "mkdirs")
  /\ UNCHANGED <<launch, tree, sweep>>

(* createFileIfNecessary first creates the directories that are missing... *)
MakeDirs(p) ==
  /\ Running(p)
  /\ step[p] = "mkdirs"
  /\ dirs' = dirs \cup {phase[p]}
  /\ Goto(p, phase[p], "touch")
  /\ UNCHANGED <<launch, files, signalled, sweep>>

\* Procid 0 does not wait for the departures of the others.
BadTouchNoWait(p) ==
  /\ Running(p)
  /\ step[p] = "touch"
  /\ phase[p] \in dirs
  /\ files' = [files EXCEPT ![phase[p]] = @ \cup {p}]
  /\ signalled' = [signalled EXCEPT ![phase[p]][p] = launch[p]]
  /\ IF phase[p] = "departure"
     THEN IF p = Root THEN Goto(p, phase[p], "open") ELSE Succeed(p)
     ELSE Goto(p, phase[p], "wait")
  /\ UNCHANGED <<launch, dirs, sweep>>

\* Nobody takes the role of procid 0.
BadTouchNoRoot(p) ==
  /\ Running(p)
  /\ step[p] = "touch"
  /\ phase[p] \in dirs
  /\ files' = [files EXCEPT ![phase[p]] = @ \cup {p}]
  /\ signalled' = [signalled EXCEPT ![phase[p]][p] = launch[p]]
  /\ IF phase[p] = "departure" THEN Succeed(p) ELSE Goto(p, phase[p], "wait")
  /\ UNCHANGED <<launch, dirs, sweep>>

(* ... and then the file, which fails if the directory is gone meanwhile.  *)
(* After its departure file only procid 0 has more to do.                  *)
Touch(p) ==
  /\ Running(p)
  /\ step[p] = "touch"
  /\ phase[p] \in dirs
  /\ files' = [files EXCEPT ![phase[p]] = @ \cup {p}]
  /\ signalled' = [signalled EXCEPT ![phase[p]][p] = launch[p]]
  /\ IF phase[p] = "departure" /\ p # Root
     THEN Succeed(p)
     ELSE Goto(p, phase[p], "wait")
  /\ UNCHANGED <<launch, dirs, sweep>>

TouchFails(p) ==
  /\ Running(p)
  /\ step[p] = "touch"
  /\ phase[p] \notin dirs
  /\ Exit(p, "ioError")
  /\ UNCHANGED <<launch, tree, sweep>>

BadAllPresent(d) == Cardinality(files[d]) >= NTasks - 1

(* allInstancesArrived and allInstancesDeparted compare for equality.      *)
AllPresent(d) == Cardinality(files[d]) = NTasks

\* The departure is signalled with the arrival file.
BadWaitOverSameFile(p) ==
  /\ Running(p)
  /\ step[p] = "wait"
  /\ AllPresent(phase[p])
  /\ Goto(p, "arrival", "check")
  /\ UNCHANGED <<launch, tree, sweep>>

\* Procid 0 cleans up as soon as everybody has arrived.
BadWaitOverCleansUp(p) ==
  /\ Running(p)
  /\ step[p] = "wait"
  /\ phase[p] \in dirs
  /\ AllPresent(phase[p])
  /\ IF phase[p] = "arrival" /\ p # Root
     THEN Goto(p, "departure", "check")
     ELSE Goto(p, "departure", "open")
  /\ UNCHANGED <<launch, tree, sweep>>

(* The poll that ends a waiting loop.  Polls that see fewer entries change *)
(* nothing and are stuttering steps.                                       *)
WaitOver(p) ==
  /\ Running(p)
  /\ step[p] = "wait"
  /\ phase[p] \in dirs
  /\ AllPresent(phase[p])
  /\ IF phase[p] = "arrival"
     THEN Goto(p, "departure", "check")
     ELSE Goto(p, "departure", "open")
  /\ UNCHANGED <<launch, tree, sweep>>

(* The directory iterator throws when the directory does not exist; main   *)
(* catches only libsarus::Error, so the process is terminated.             *)
PollFails(p) ==
  /\ Running(p)
  /\ step[p] = "wait"
  /\ phase[p] \notin dirs
  /\ Exit(p, "ioError")
  /\ UNCHANGED <<launch, tree, sweep>>

-----------------------------------------------------------------------------
(* cleanupSyncDir: boost's remove_all lists the sync directory, then for   *)
(* each subdirectory lists it, unlinks what it listed, and removes it, and *)
(* at last removes the sync directory itself.                              *)

SweepOpen(p) ==
  /\ Running(p)
  /\ step[p] = "open"
  /\ sweep' = [NoSweep EXCEPT !.queue = dirs]
  /\ Goto(p, phase[p], "sweep")
  /\ UNCHANGED <<launch, tree>>

Sweeping(p) == Running(p) /\ step[p] = "sweep"

SweepDir(p) ==
  /\ Sweeping(p)
  /\ sweep.dir = "none"
  /\ \E d \in sweep.queue :
       sweep' = [queue |-> sweep.queue \ {d}, dir |-> d, listed |-> files[d]]
  /\ UNCHANGED <<proc, launch, tree>>

(* An entry created after the listing began may be seen by it or not.      *)
SweepFile(p) ==
  /\ Sweeping(p)
  /\ sweep.dir # "none"
  /\ \E f \in files[sweep.dir] :
       /\ files' = [files EXCEPT ![sweep.dir] = @ \ {f}]
       /\ sweep' = [sweep EXCEPT !.listed = @ \ {f}]
  /\ UNCHANGED <<proc, launch, dirs, signalled>>

SweepRmdir(p) ==
  /\ Sweeping(p)
  /\ sweep.dir # "none"
  /\ sweep.listed = {}
  /\ IF files[sweep.dir] = {}
     THEN /\ dirs' = dirs \ {sweep.dir}
          /\ sweep' = [sweep EXCEPT !.dir = "none"]
          /\ UNCHANGED proc
     ELSE /\ Exit(p, "ioError")
          /\ UNCHANGED <<dirs, sweep>>
  /\ UNCHANGED <<launch, files, signalled>>

SweepEnd(p) ==
  /\ Sweeping(p)
  /\ sweep.dir = "none"
  /\ sweep.queue = {}
  /\ IF dirs = {} THEN Succeed(p) ELSE Exit(p, "ioError")
  /\ UNCHANGED <<launch, tree, sweep>>

-----------------------------------------------------------------------------
(* The runtime aborts a hook that exceeds its timeout, or the user cancels *)
(* the step: the process dies between two system calls.                    *)
Kill(p) ==
  /\ p \in Killable
  /\ Running(p)
  /\ Exit(p, "killed")
  /\ UNCHANGED <<launch, tree, sweep>>

CleanupSyncDir(p) == SweepOpen(p) \/ SweepDir(p) \/ SweepFile(p)
                     \/ SweepRmdir(p) \/ SweepEnd(p)

Run(p) == Parse(p) \/ Check(p) \/ MakeDirs(p) \/ Touch(p) \/ TouchFails(p)
          \/ WaitOver(p) \/ PollFails(p) \/ CleanupSyncDir(p)

Next == \E p \in Procs : Launch(p) \/ Run(p) \/ Kill(p)

Spec == Init /\ [][Next]_vars

(* Slurm starts every task of a step, and the kernel runs every process    *)
(* that is not killed (the polling loops sleep 100 ms and always wake up). *)
FairSpec == Spec /\ \A p \in Procs : WF_vars(Launch(p)) /\ WF_vars(Run(p))

-----------------------------------------------------------------------------
(* Progress of a task, read off its phase and step.                        *)

Passed(p) == phase[p] = "departure" \/ phase[p] = "finished"

Departed(p) == \/ phase[p] = "finished"
               \/ /\ phase[p] = "departure"
                  /\ step[p] \in {"wait", "open", "sweep"}

CleaningUp == \/ phase[Root] = "finished"
              \/ phase[Root] = "departure" /\ step[Root] = "sweep"

\* The hook of p has ended without taking part, for want of its settings.
Disabled(p) == phase[p] = "init" /\ status[p] \in {"ok", "setupError"}

Missing(p) == Disabled(p) \/ status[p] = "killed"

Succeeded(p) == status[p] = "ok" /\ phase[p] = "finished"

PollsArrivals(p) == Running(p) /\ phase[p] = "arrival" /\ step[p] = "wait"

(* Nobody gets past the arrival barrier of its k-th container before every *)
(* task of the step has arrived with its own k-th container: what          *)
(* synchronizeArrival claims when it logs "Successfully waited for arrival *)
(* of all container instances".                                            *)
NobodyPassesEarly ==
  \A p \in Procs : Passed(p) =>
    \A q \in Procs : signalled["arrival"][q] >= launch[p]

(* The weaker promise that survives stale files, kills and relaunches: a   *)
(* task is let through only if every task has arrived at least once.       *)
NobodyPassesUnseen ==
  \A p \in Procs : Passed(p) => \A q \in Procs : signalled["arrival"][q] > 0

(* Procid 0 starts removing the tree only when every task has left both    *)
(* barriers at least once, so no first-time waiter loses its directory.    *)
CleanupAfterAllDeparted ==
  CleaningUp => \A q \in Procs : signalled["departure"][q] > 0

\* The "internal error" of createSyncFile: the hook meets a file of its own task.
NoInternalError == \A p \in Procs : status[p] # "internalError"

NoIoError == \A p \in Procs : status[p] # "ioError"

(* No hook fails once it takes part: createSyncFile never meets a file of  *)
(* its own task, nobody polls or writes into a directory that              *)
(* cleanupSyncDir has removed, and the removal itself is never disturbed by*)
(* a late file.                                                            *)
NoHookFails == NoInternalError /\ NoIoError

(* A file is removed only after everybody it signals to has seen it: while *)
(* a task still waits in a phase, the files of that phase only grow.       *)
WaitersLoseNoFile ==
  [][\A d \in Phases :
       (\E p \in Procs : Running(p) /\ phase[p] = d /\ step[p] = "wait")
         => files[d] \subseteq files'[d]]_vars

(* A hook that polls a directory in vain, or has nothing more to do.       *)
Polling(p) == Running(p) /\ step[p] = "wait" /\ ~AllPresent(phase[p])

CanGoOn(p) == launch[p] = 0 \/ (Running(p) /\ ~Polling(p))

(* The hooks never all wait for each other: until all have succeeded, some *)
(* hook has something to do besides polling, unless a peer is missing.     *)
NoCommonWait ==
  \/ \A p \in Procs : Succeeded(p)
  \/ \E p \in Procs : Missing(p) \/ CanGoOn(p)

(* Procid 0 succeeds only if the tree has gone, and none of its peers, who *)
(* may still be running, makes it anew: together with EveryTaskSucceeds,   *)
(* the sync directory does not outlive the step (cleanupSyncDir).          *)
SuccessLeavesNoTree == Succeeded(Root) => dirs = {}

(* Every task gets through both barriers and its hook succeeds, unless     *)
(* some hook was disabled or killed.                                       *)
EveryTaskSucceeds ==
  \A p \in Procs : <>(Succeeded(p) \/ \E q \in Procs : Missing(q))

(* There is no timeout: when a peer's hook is disabled, every other task   *)
(* that is not killed ends up polling the arrival directory for ever.      *)
DisabledPeerHangsAll ==
  (\E p \in Procs : Disabled(p)) ~>
    [](\A p \in Procs : Missing(p) \/ PollsArrivals(p))

-----------------------------------------------------------------------------
(* With one container per task the hook implements the abstract barrier.   *)

ArrivedSet == {p \in Procs : signalled["arrival"][p] > 0}
PassedSet == {p \in Procs : Passed(p)}
LostSet == {p \in Procs : status[p] \in {"setupError", "internalError",
                                        "ioError", "killed"}}

Barrier == INSTANCE StepBarrier WITH arrived <- ArrivedSet,
                                     passed <- PassedSet,
                                     swept <- CleaningUp,
                                     lost <- LostSet

ImplementsBarrier == Barrier!Spec
=============================================================================
