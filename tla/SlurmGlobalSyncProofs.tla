----------------------- MODULE SlurmGlobalSyncProofs -----------------------
(***************************************************************************)
(* Theorems about the Slurm global synchronization hook, for every number  *)
(* of tasks.                                                               *)
(*                                                                         *)
(* The first part holds for any number of containers per task, with tasks  *)
(* killed at any point.  The second part assumes that every task launches  *)
(* one container within the step (MaxLaunches = 1), which is what the      *)
(* names of the synchronization files presuppose.                          *)
(***************************************************************************)
EXTENDS SlurmGlobalSync, FiniteSetTheorems, TLAPS

Signalled(d, p) == signalled[d][p] > 0

(* The reading of "wait until the directory holds SLURM_NTASKS entries":   *)
(* the entries are those of all tasks.                                     *)
LEMMA FullDirectory ==
  ASSUME TypeOK, NEW d \in Phases, AllPresent(d)
  PROVE  files[d] = Procs
<1>1. files[d] \subseteq Procs
  BY DEF TypeOK
<1> QED
  BY <1>1, SyncAssumption, FS_Subset DEF SyncAssumption, AllPresent

-----------------------------------------------------------------------------
(* Part 1: any number of launches, any kills.                              *)

(* The phases and the calls that go with them: what phase and step may be  *)
(* together.  TypeOK is inductive only with it.                            *)
Control(p) ==
  /\ phase[p] = "init" <=> step[p] = "parse"
  /\ phase[p] = "arrival" => step[p] \in {"check", "mkdirs", "touch", "wait"}
  /\ phase[p] = "finished" => step[p] \in {"touch", "sweep"}

WellFormed == TypeOK /\ \A p \in Procs : Control(p)

LEMMA WellFormedInit == Init => WellFormed
BY SyncAssumption
DEF SyncAssumption, Init, TypeOK, NoSweep, WellFormed, Control, Phases

LEMMA WellFormedStep == WellFormed /\ [Next]_vars => WellFormed'
<1> SUFFICES ASSUME WellFormed, [Next]_vars PROVE WellFormed'
  OBVIOUS
<1> USE DEF WellFormed, TypeOK, Control, Phases
<1>1. ASSUME NEW p \in Procs, Launch(p) PROVE WellFormed'
  <2>1. launch[p] + 1 \in 0 .. MaxLaunches
    BY <1>1, SyncAssumption DEF Launch, SyncAssumption
  <2> QED
    BY <1>1, <2>1 DEF Launch, tree
<1>2. ASSUME NEW p \in Procs, Parse(p) PROVE WellFormed'
  BY <1>2 DEF Parse, SetUp, Goto, Exit, tree
<1>3. ASSUME NEW p \in Procs, Check(p) PROVE WellFormed'
  BY <1>3 DEF Check, Goto, Exit, tree
<1>4. ASSUME NEW p \in Procs, MakeDirs(p) PROVE WellFormed'
  BY <1>4 DEF MakeDirs, Goto
<1>5. ASSUME NEW p \in Procs, Touch(p) PROVE WellFormed'
  <2>1. phase[p] \in Phases
    BY <1>5 DEF Touch
  <2>2. files' \in [Phases -> SUBSET Procs]
    BY <1>5, <2>1 DEF Touch
  <2>3. signalled' \in [Phases -> [Procs -> 0 .. MaxLaunches]]
    BY <1>5, <2>1 DEF Touch
  <2> QED
    BY <1>5, <2>2, <2>3 DEF Touch, Goto, Succeed
<1>6. ASSUME NEW p \in Procs, TouchFails(p) \/ PollFails(p) \/ Kill(p)
      PROVE  WellFormed'
  <2>1. CASE TouchFails(p)
    BY <2>1 DEF TouchFails, Exit, tree
  <2>2. CASE PollFails(p)
    BY <2>2 DEF PollFails, Exit, tree
  <2>3. CASE Kill(p)
    BY <2>3 DEF Kill, Exit, tree
  <2> QED
    BY <1>6, <2>1, <2>2, <2>3
<1>7. ASSUME NEW p \in Procs, WaitOver(p) PROVE WellFormed'
  BY <1>7 DEF WaitOver, Goto, tree
<1>8. ASSUME NEW p \in Procs, SweepOpen(p) PROVE WellFormed'
  BY <1>8 DEF SweepOpen, Goto, tree, NoSweep
<1>9. ASSUME NEW p \in Procs, SweepDir(p) PROVE WellFormed'
  BY <1>9 DEF SweepDir, tree, proc
<1>10. ASSUME NEW p \in Procs, SweepFile(p) PROVE WellFormed'
  BY <1>10 DEF SweepFile, proc
<1>11. ASSUME NEW p \in Procs, SweepRmdir(p) PROVE WellFormed'
  BY <1>11 DEF SweepRmdir, Exit, proc
<1>12. ASSUME NEW p \in Procs, SweepEnd(p) PROVE WellFormed'
  BY <1>12 DEF SweepEnd, Sweeping, Exit, Succeed, tree
<1>13. CASE UNCHANGED vars
  BY <1>13 DEF vars
<1> QED
  BY <1>1, <1>2, <1>3, <1>4, <1>5, <1>6, <1>7, <1>8, <1>9, <1>10, <1>11,
     <1>12, <1>13
  DEF Next, Run, CleanupSyncDir

(* Every step of the hook yields well-typed state: its processes, the      *)
(* shared directory and the traversal of remove_all.                       *)
THEOREM TypeCorrect == Spec => []TypeOK
<1>1. WellFormed => TypeOK
  BY DEF WellFormed
<1> QED
  BY <1>1, WellFormedInit, WellFormedStep, PTL DEF Spec

(* What the files and the processes' progress say about the past.  Files   *)
(* come only from signals; whoever has passed a barrier saw the directory  *)
(* full at some moment, and signals are never taken back.                  *)
RunningInv ==
  \A p \in Procs : Running(p) => launch[p] > 0 /\ phase[p] # "finished"

FilesAreSignals == \A d \in Phases : \A q \in files[d] : Signalled(d, q)

SweepersSawAll ==
  \A p \in Procs : \/ step[p] \in {"open", "sweep"}
                   \/ p = Root /\ phase[p] = "finished"
                   => \A q \in Procs : Signalled("departure", q)

History == /\ WellFormed
           /\ RunningInv
           /\ FilesAreSignals
           /\ NobodyPassesUnseen
           /\ SweepersSawAll

LEMMA HistoryInit == Init => History
BY WellFormedInit, SyncAssumption
DEF SyncAssumption, Init, Phases, History, RunningInv, FilesAreSignals,
    NobodyPassesUnseen, SweepersSawAll, Passed, Running

LEMMA HistoryStep == History /\ [Next]_vars => History'
<1> SUFFICES ASSUME History, [Next]_vars PROVE History'
  OBVIOUS
<1>w. WellFormed'
  BY WellFormedStep DEF History
<1> USE DEF History, WellFormed, TypeOK, Control, Phases, RunningInv,
            FilesAreSignals, NobodyPassesUnseen, SweepersSawAll, Signalled,
            Passed, Running
<1>1. ASSUME NEW p \in Procs, Launch(p) PROVE History'
  BY <1>w, <1>1, SyncAssumption DEF Launch, tree, SyncAssumption
<1>2. ASSUME NEW p \in Procs, Parse(p) PROVE History'
  BY <1>w, <1>2 DEF Parse, SetUp, Goto, Exit, tree
<1>3. ASSUME NEW p \in Procs, Check(p) PROVE History'
  BY <1>w, <1>3 DEF Check, Goto, Exit, tree
<1>4. ASSUME NEW p \in Procs, MakeDirs(p) PROVE History'
  BY <1>w, <1>4 DEF MakeDirs, Goto
<1>5. ASSUME NEW p \in Procs, Touch(p) PROVE History'
  <2>1. \A d \in Phases, q \in Procs : Signalled(d, q) => Signalled(d, q)'
    BY <1>5 DEF Touch
  <2>2. signalled'[phase[p]][p] > 0
    BY <1>5 DEF Touch
  <2>3. FilesAreSignals'
    BY <1>5, <2>1, <2>2 DEF Touch
  <2>4. NobodyPassesUnseen'
    BY <1>5, <2>1 DEF Touch, Succeed, Goto
  <2>5. SweepersSawAll'
    BY <1>5, <2>1 DEF Touch, Succeed, Goto
  <2>6. RunningInv'
    BY <1>5 DEF Touch, Succeed, Goto
  <2> QED
    BY <1>w, <2>3, <2>4, <2>5, <2>6
<1>6. ASSUME NEW p \in Procs, TouchFails(p) \/ PollFails(p) \/ Kill(p)
      PROVE  History'
  BY <1>w, <1>6 DEF TouchFails, PollFails, Kill, Exit, tree
<1>7. ASSUME NEW p \in Procs, WaitOver(p) PROVE History'
  <2>1. phase[p] \in Phases
    BY <1>7 DEF WaitOver
  <2>2. files[phase[p]] = Procs
    BY <1>7, <2>1, FullDirectory DEF WaitOver
  <2>3. \A q \in Procs : Signalled(phase[p], q)
    BY <2>1, <2>2
  <2> QED
    BY <1>w, <1>7, <2>3 DEF WaitOver, Goto, tree
<1>8. ASSUME NEW p \in Procs, SweepOpen(p) PROVE History'
  BY <1>w, <1>8 DEF SweepOpen, Goto, tree
<1>9. ASSUME NEW p \in Procs, SweepDir(p) PROVE History'
  BY <1>w, <1>9 DEF SweepDir, tree, proc
<1>10. ASSUME NEW p \in Procs, SweepFile(p) PROVE History'
  BY <1>w, <1>10 DEF SweepFile, proc
<1>11. ASSUME NEW p \in Procs, SweepRmdir(p) PROVE History'
  BY <1>w, <1>11 DEF SweepRmdir, Exit, proc
<1>12. ASSUME NEW p \in Procs, SweepEnd(p) PROVE History'
  BY <1>w, <1>12 DEF SweepEnd, Sweeping, Exit, Succeed, tree
<1>13. CASE UNCHANGED vars
  BY <1>w, <1>13 DEF vars
<1> QED
  BY <1>1, <1>2, <1>3, <1>4, <1>5, <1>6, <1>7, <1>8, <1>9, <1>10, <1>11,
     <1>12, <1>13
  DEF Next, Run, CleanupSyncDir

(* However often tasks are killed and relaunched and whatever files they   *)
(* leave behind, nobody passes a barrier some task has never reached.      *)
THEOREM NobodyPassesUnseenTheorem == Spec => []NobodyPassesUnseen
<1>1. History => NobodyPassesUnseen
  BY DEF History
<1> QED
  BY <1>1, HistoryInit, HistoryStep, PTL DEF Spec

(* Nor is the shared directory removed before every task has left it once. *)
THEOREM CleanupTheorem == Spec => []CleanupAfterAllDeparted
<1>1. History => CleanupAfterAllDeparted
  BY SyncAssumption
  DEF History, SweepersSawAll, CleanupAfterAllDeparted, CleaningUp, Signalled,
      SyncAssumption
<1> QED
  BY <1>1, HistoryInit, HistoryStep, PTL DEF Spec

-----------------------------------------------------------------------------
(* Part 2: one container per task.                                         *)

(* The history agrees with the progress: a task has signalled exactly when *)
(* its phase says so, and only one launch is ever needed.                  *)
Arrived(p) == \/ Passed(p)
              \/ phase[p] = "arrival" /\ step[p] = "wait"

HistoryIsProgress ==
  \A p \in Procs :
    /\ Arrived(p) <=> Signalled("arrival", p)
    /\ Departed(p) <=> Signalled("departure", p)
    /\ launch[p] = 0 => phase[p] = "init" /\ status[p] = "absent"

(* Only procid 0 waits for the departures and cleans up, and only after    *)
(* everybody has departed.                                                 *)
RootAlone ==
  /\ \A p \in Procs : phase[p] = "departure" /\ step[p] \in {"wait", "open", "sweep"}
                       => p = Root
  /\ step[Root] = "open" \/ CleaningUp => \A q \in Procs : Departed(q)

(* Until the cleanup begins the tree holds every signal ever given.        *)
TreeIntact ==
  ~CleaningUp => \A d \in Phases, q \in Procs :
                   Signalled(d, q) => d \in dirs /\ q \in files[d]

(* Between the two halves of createFileIfNecessary the directory stays.    *)
TouchersHaveDir ==
  \A p \in Procs : step[p] = "touch" /\ phase[p] # "finished"
                   => phase[p] \in dirs

(* remove_all has yet to visit, or is visiting, all that is left.          *)
SweepIsComplete ==
  step[Root] = "sweep" =>
    /\ dirs \subseteq sweep.queue \cup {sweep.dir}
    /\ sweep.dir # "none" => files[sweep.dir] \subseteq sweep.listed

OneLaunch == /\ History
             /\ HistoryIsProgress
             /\ RootAlone
             /\ TreeIntact
             /\ TouchersHaveDir
             /\ SweepIsComplete
             /\ NoInternalError
             /\ NoIoError

LEMMA OneLaunchInit == Init => OneLaunch
BY HistoryInit, SyncAssumption
DEF SyncAssumption, Init, Phases, OneLaunch, HistoryIsProgress, RootAlone,
    TreeIntact, TouchersHaveDir, SweepIsComplete, NoInternalError, NoIoError,
    Arrived, Passed, Departed, CleaningUp, Signalled

(* Where procid 0 is while it removes the tree.                            *)
LEMMA SweeperIsRoot ==
  ASSUME OneLaunch, NEW p \in Procs, Running(p), step[p] \in {"open", "sweep"}
  PROVE  p = Root /\ phase[p] = "departure" /\ \A q \in Procs : Departed(q)
<1>1. phase[p] = "departure"
  BY DEF OneLaunch, History, WellFormed, TypeOK, Control, Phases, RunningInv
<1>2. p = Root
  BY <1>1 DEF OneLaunch, RootAlone
<1> QED
  BY <1>1, <1>2 DEF OneLaunch, RootAlone, CleaningUp

(* A task that has not left the departure barrier's first half finds the   *)
(* tree intact: the cleanup waits for it.                                  *)
LEMMA NotDepartedKeepsTree ==
  ASSUME OneLaunch, NEW p \in Procs, ~Departed(p)
  PROVE  ~CleaningUp /\ step[Root] \notin {"open", "sweep"}
<1>1. ~CleaningUp /\ step[Root] # "open"
  BY DEF OneLaunch, RootAlone
<1>2. step[Root] # "sweep"
  <2>1. Root \in Procs
    BY SyncAssumption DEF SyncAssumption
  <2>2. Control(Root)
    BY <2>1 DEF OneLaunch, History, WellFormed
  <2>3. phase[Root] \in Phases \cup {"init", "finished"}
    <3>1. phase \in [Procs -> Phases \cup {"init", "finished"}]
      BY Zenon DEF OneLaunch, History, WellFormed, TypeOK
    <3> QED
      BY <2>1, <3>1
  <2> QED
    BY <1>1, <2>2, <2>3 DEF CleaningUp, Control, Phases
<1> QED
  BY <1>1, <1>2

LEMMA OneLaunchStep ==
  ASSUME MaxLaunches = 1
  PROVE  OneLaunch /\ [Next]_vars => OneLaunch'
<1> SUFFICES ASSUME OneLaunch, [Next]_vars PROVE OneLaunch'
  OBVIOUS
<1>h. History'
  BY HistoryStep DEF OneLaunch
<1>r. Root \in Procs
  BY SyncAssumption DEF SyncAssumption
<1> USE <1>h, <1>r
    DEF OneLaunch, History, WellFormed, TypeOK, Control, Phases, RunningInv,
        FilesAreSignals, HistoryIsProgress, RootAlone, TreeIntact,
        TouchersHaveDir, SweepIsComplete, NoInternalError, NoIoError,
        Arrived, Passed, Departed, CleaningUp, Signalled, Running
<1>1. ASSUME NEW p \in Procs, Launch(p) PROVE OneLaunch'
  <2>1. launch[p] = 0
    BY <1>1 DEF Launch
  <2>2. phase[p] = "init" /\ step[p] = "parse"
    BY <2>1
  <2>3. UNCHANGED <<phase, step, tree, sweep>>
    BY <1>1, <2>2 DEF Launch
  <2> QED
    BY <1>1, <2>2, <2>3 DEF Launch, tree
<1>2. ASSUME NEW p \in Procs, Parse(p) PROVE OneLaunch'
  <2>1. phase[p] = "init" /\ ~Departed(p)
    BY <1>2 DEF Parse
  <2> QED
    BY <1>2, <2>1, NotDepartedKeepsTree DEF Parse, SetUp, Goto, Exit, tree
<1>3. ASSUME NEW p \in Procs, Check(p) PROVE OneLaunch'
  <2>1. phase[p] \in Phases
    BY <1>3 DEF Check
  <2>2. ~Signalled(phase[p], p)
    BY <1>3, <2>1 DEF Check
  <2>3. p \notin files[phase[p]]
    BY <2>1, <2>2
  <2> QED
    BY <1>3, <2>1, <2>3 DEF Check, Goto, tree
<1>4. ASSUME NEW p \in Procs, MakeDirs(p) PROVE OneLaunch'
  <2>1. phase[p] \in Phases /\ ~Departed(p)
    BY <1>4 DEF MakeDirs
  <2> QED
    BY <1>4, <2>1, NotDepartedKeepsTree DEF MakeDirs, Goto
<1>5. ASSUME NEW p \in Procs, Touch(p) PROVE OneLaunch'
  <2>1. phase[p] \in Phases /\ ~Departed(p)
    BY <1>5 DEF Touch
  <2>2. launch[p] > 0 /\ launch[p] \in Nat
    BY <1>5 DEF Touch
  <2>3. \A d \in Phases, q \in Procs :
          signalled'[d][q] > 0 <=> Signalled(d, q) \/ (d = phase[p] /\ q = p)
    BY <1>5, <2>2 DEF Touch
  <2>4. \A d \in Phases, q \in Procs :
          q \in files'[d] <=> q \in files[d] \/ (d = phase[p] /\ q = p)
    BY <1>5 DEF Touch
  <2>5. HistoryIsProgress'
    BY <1>5, <2>1, <2>2, <2>3 DEF Touch, Goto, Succeed
  <2>6. TreeIntact'
    BY <1>5, <2>1, <2>3, <2>4, NotDepartedKeepsTree DEF Touch, Goto, Succeed
  <2>7. RootAlone' /\ TouchersHaveDir' /\ SweepIsComplete'
    BY <1>5, <2>1, NotDepartedKeepsTree DEF Touch, Goto, Succeed
  <2>8. NoInternalError' /\ NoIoError'
    BY <1>5 DEF Touch, Goto, Succeed
  <2> QED
    BY <2>5, <2>6, <2>7, <2>8
<1>6. ASSUME NEW p \in Procs, TouchFails(p) PROVE OneLaunch'
  BY <1>6 DEF TouchFails
<1>7. ASSUME NEW p \in Procs, WaitOver(p) PROVE OneLaunch'
  <2>1. phase[p] \in Phases
    BY <1>7 DEF WaitOver
  <2>2. \A q \in Procs : Signalled(phase[p], q)
    BY <1>7, <2>1, FullDirectory DEF WaitOver
  <2>3. CASE phase[p] = "arrival"
    <3>1. ~Departed(p)
      BY <1>7, <2>3 DEF WaitOver
    <3> QED
      BY <1>7, <2>3, <3>1, NotDepartedKeepsTree DEF WaitOver, Goto, tree
  <2>4. CASE phase[p] = "departure"
    <3>1. p = Root /\ \A q \in Procs : Departed(q)
      BY <1>7, <2>2, <2>4 DEF WaitOver
    <3> QED
      BY <1>7, <2>4, <3>1 DEF WaitOver, Goto, tree
  <2> QED
    BY <2>1, <2>3, <2>4
<1>8. ASSUME NEW p \in Procs, PollFails(p) PROVE OneLaunch'
  <2>1. Signalled(phase[p], p) /\ phase[p] \in Phases
    BY <1>8 DEF PollFails
  <2>2. ~CleaningUp
    BY <1>8, NotDepartedKeepsTree DEF PollFails
  <2> QED
    BY <1>8, <2>1, <2>2 DEF PollFails
<1>9. ASSUME NEW p \in Procs, SweepOpen(p) PROVE OneLaunch'
  <2>1. p = Root /\ phase[p] = "departure" /\ \A q \in Procs : Departed(q)
    BY <1>9, SweeperIsRoot DEF SweepOpen
  <2> QED
    BY <1>9, <2>1 DEF SweepOpen, Goto, tree, NoSweep
<1>10. ASSUME NEW p \in Procs, SweepDir(p) PROVE OneLaunch'
  BY <1>10 DEF SweepDir, Sweeping, tree, proc
<1>11. ASSUME NEW p \in Procs, SweepFile(p) PROVE OneLaunch'
  <2>1. p = Root /\ phase[p] = "departure" /\ \A q \in Procs : Departed(q)
    BY <1>11, SweeperIsRoot DEF SweepFile, Sweeping
  <2> QED
    BY <1>11, <2>1 DEF SweepFile, Sweeping, proc
<1>12. ASSUME NEW p \in Procs, SweepRmdir(p) PROVE OneLaunch'
  <2>1. p = Root /\ phase[p] = "departure" /\ \A q \in Procs : Departed(q)
    BY <1>12, SweeperIsRoot DEF SweepRmdir, Sweeping
  <2>2. files[sweep.dir] = {}
    BY <1>12, <2>1 DEF SweepRmdir, Sweeping
  <2> QED
    BY <1>12, <2>1, <2>2 DEF SweepRmdir, Sweeping, proc
<1>13. ASSUME NEW p \in Procs, SweepEnd(p) PROVE OneLaunch'
  <2>1. p = Root /\ phase[p] = "departure" /\ \A q \in Procs : Departed(q)
    BY <1>13, SweeperIsRoot DEF SweepEnd, Sweeping
  <2>2. dirs = {}
    BY <1>13, <2>1 DEF SweepEnd, Sweeping
  <2> QED
    BY <1>13, <2>1, <2>2 DEF SweepEnd, Sweeping, Succeed, tree
<1>14. ASSUME NEW p \in Procs, Kill(p) PROVE OneLaunch'
  BY <1>14 DEF Kill, Exit, tree
<1>15. CASE UNCHANGED vars
  BY <1>15 DEF vars
<1> QED
  BY <1>1, <1>2, <1>3, <1>4, <1>5, <1>6, <1>7, <1>8, <1>9, <1>10, <1>11,
     <1>12, <1>13, <1>14, <1>15
  DEF Next, Run, CleanupSyncDir

(* With one container per task nobody passes before everybody has arrived. *)
THEOREM NobodyPassesEarlyTheorem ==
  ASSUME MaxLaunches = 1
  PROVE  Spec => []NobodyPassesEarly
<1>1. OneLaunch => NobodyPassesEarly
  BY DEF OneLaunch, History, WellFormed, TypeOK, Phases, NobodyPassesUnseen,
         NobodyPassesEarly
<1> QED
  BY <1>1, OneLaunchInit, OneLaunchStep, PTL DEF Spec

(* With one container per task no hook that takes part fails: none meets   *)
(* its own file, and no call on the shared directory fails while procid 0  *)
(* takes it apart entry by entry.                                          *)
THEOREM NoHookFailsTheorem ==
  ASSUME MaxLaunches = 1
  PROVE  Spec => []NoHookFails
<1>1. OneLaunch => NoHookFails
  BY DEF OneLaunch, NoHookFails
<1> QED
  BY <1>1, OneLaunchInit, OneLaunchStep, PTL DEF Spec

(* With one container per task no file disappears from a directory that    *)
(* somebody is still polling.                                              *)
THEOREM WaitersLoseNoFileTheorem ==
  ASSUME MaxLaunches = 1
  PROVE  Spec => WaitersLoseNoFile
<1> DEFINE Kept == \A d \in Phases :
       (\E p \in Procs : Running(p) /\ phase[p] = d /\ step[p] = "wait")
         => files[d] \subseteq files'[d]
<1>1. OneLaunch /\ [Next]_vars => Kept
  <2> SUFFICES ASSUME OneLaunch, [Next]_vars PROVE Kept
    OBVIOUS
  <2> USE DEF OneLaunch, History, WellFormed, TypeOK
  <2>1. ASSUME NEW p \in Procs, SweepFile(p) PROVE Kept
    <3>1. p = Root /\ \A q \in Procs : Departed(q)
      BY <2>1, SweeperIsRoot DEF SweepFile, Sweeping
    <3>2. ~ \E q \in Procs : step[q] = "wait" /\ phase[q] \in Phases
      BY <2>1, <3>1, SyncAssumption
      DEF SweepFile, Sweeping, Departed, RootAlone, Phases, SyncAssumption
    <3> QED
      BY <3>2
  <2>2. ASSUME NEW p \in Procs, Touch(p) PROVE Kept
    BY <2>2 DEF Touch
  <2>3. ASSUME files' = files PROVE Kept
    BY <2>3
  <2> QED
    BY <2>1, <2>2, <2>3
    DEF Next, Run, CleanupSyncDir, vars, tree, Launch, Parse,
        SetUp, Check, MakeDirs, TouchFails, WaitOver, PollFails, SweepOpen, SweepDir,
        SweepRmdir, SweepEnd, Kill
<1> QED
  BY <1>1, OneLaunchInit, OneLaunchStep, PTL DEF Spec, WaitersLoseNoFile

(* How hooks end: a hook that has not begun was not launched, and one that *)
(* ended by itself did so at one of three points.                          *)
EndsKnown ==
  \A p \in Procs : /\ status[p] = "absent" => launch[p] = 0
                   /\ status[p] = "setupError" => phase[p] = "init"
                   /\ status[p] = "ok" => phase[p] \in {"init", "finished"}

LEMMA EndsKnownStep ==
  OneLaunch /\ EndsKnown /\ [Next]_vars => EndsKnown'
<1> SUFFICES ASSUME OneLaunch, EndsKnown, [Next]_vars PROVE EndsKnown'
  OBVIOUS
<1> USE DEF OneLaunch, History, WellFormed, TypeOK, Control, EndsKnown, Running
<1>1. ASSUME NEW p \in Procs, Launch(p) PROVE EndsKnown'
  BY <1>1 DEF Launch
<1>2. ASSUME NEW p \in Procs, Parse(p) PROVE EndsKnown'
  BY <1>2 DEF Parse, SetUp, Goto, Exit
<1>3. ASSUME NEW p \in Procs, Running(p), UNCHANGED launch,
             \/ \E ph, st : Goto(p, ph, st)
             \/ \E how \in {"internalError", "ioError", "killed"} : Exit(p, how)
             \/ Succeed(p)
      PROVE  EndsKnown'
  BY <1>3 DEF Goto, Exit, Succeed
<1>4. ASSUME UNCHANGED <<proc, launch>> PROVE EndsKnown'
  BY <1>4 DEF proc
<1>5. ASSUME NEW p \in Procs, Run(p) \/ Kill(p), ~Parse(p) PROVE EndsKnown'
  <2>1. CASE Check(p) \/ MakeDirs(p) \/ Touch(p) \/ TouchFails(p)
    BY <1>3, <2>1 DEF Check, MakeDirs, Touch, TouchFails
  <2>2. CASE WaitOver(p) \/ PollFails(p) \/ Kill(p)
    BY <1>3, <2>2 DEF WaitOver, PollFails, Kill
  <2>3. CASE SweepOpen(p) \/ SweepEnd(p)
    BY <1>3, <2>3 DEF SweepOpen, SweepEnd, Sweeping
  <2>4. CASE SweepDir(p) \/ SweepFile(p) \/ SweepRmdir(p)
    BY <1>3, <1>4, <2>4 DEF SweepDir, SweepFile, SweepRmdir, Sweeping
  <2> QED
    BY <1>5, <2>1, <2>2, <2>3, <2>4 DEF Run, CleanupSyncDir
<1>6. CASE UNCHANGED vars
  BY <1>4, <1>6 DEF vars, proc
<1> QED
  BY <1>1, <1>2, <1>5, <1>6 DEF Next

\* What every task has signalled is in its directory, until the cleanup.
LEMMA AllSignalledIsPresent ==
  ASSUME OneLaunch, ~CleaningUp, NEW d \in Phases, \A q \in Procs : Signalled(d, q)
  PROVE  AllPresent(d)
<1>1. files[d] = Procs
  BY DEF OneLaunch, TreeIntact, History, WellFormed, TypeOK
<1> QED
  BY <1>1, SyncAssumption DEF SyncAssumption, AllPresent

LEMMA NoCommonWaitEver ==
  ASSUME OneLaunch, EndsKnown PROVE NoCommonWait
<1> SUFFICES ASSUME \A p \in Procs : ~Missing(p) /\ ~CanGoOn(p),
                    NEW p \in Procs, ~Succeeded(p)
             PROVE  FALSE
  BY DEF NoCommonWait
<1>1. \A q \in Procs : Succeeded(q) \/ Polling(q)
  <2> SUFFICES ASSUME NEW q \in Procs, ~Polling(q) PROVE Succeeded(q)
    OBVIOUS
  <2>1. ~Missing(q) /\ ~Running(q) /\ launch[q] # 0
    BY DEF CanGoOn
  <2>2. status[q] \notin {"absent", "running", "killed", "setupError",
                         "internalError", "ioError"}
    BY <2>1
    DEF EndsKnown, Missing, Disabled, Running, OneLaunch, NoInternalError, NoIoError
  <2>3. status[q] = "ok"
    BY <2>2 DEF OneLaunch, History, WellFormed, TypeOK
  <2> QED
    BY <2>1, <2>3 DEF EndsKnown, Missing, Disabled, Succeeded
<1>2. /\ Polling(p)
      /\ phase[p] \in Phases /\ step[p] = "wait" /\ ~AllPresent(phase[p])
  BY <1>1
  DEF Polling, OneLaunch, History, WellFormed, TypeOK, Control, RunningInv
<1>3. \A q \in Procs : Arrived(q)
  BY <1>1
  DEF Polling, Succeeded, Arrived, Passed, Phases,
      OneLaunch, History, WellFormed, TypeOK, Control, RunningInv
<1>4. \A q \in Procs : Signalled("arrival", q)
  BY <1>3 DEF OneLaunch, HistoryIsProgress
<1>5. ~CleaningUp
  <2>1. CASE phase[p] = "arrival"
    BY <2>1, NotDepartedKeepsTree DEF Departed
  <2>2. CASE phase[p] = "departure"
    BY <1>2, <2>2 DEF OneLaunch, RootAlone, CleaningUp
  <2> QED
    BY <1>2, <2>1, <2>2 DEF Phases
<1>6. phase[p] = "departure"
  BY <1>2, <1>4, <1>5, AllSignalledIsPresent DEF Phases
<1>7. \A q \in Procs : phase[q] # "arrival"
  BY <1>1, <1>4, <1>5, AllSignalledIsPresent DEF Polling, Succeeded, Phases
<1>8. \A q \in Procs : Departed(q)
  BY <1>1, <1>7
  DEF Polling, Succeeded, Departed, Phases,
      OneLaunch, History, WellFormed, TypeOK, Control, RunningInv
<1>9. \A q \in Procs : Signalled("departure", q)
  BY <1>8 DEF OneLaunch, HistoryIsProgress
<1> QED
  BY <1>2, <1>5, <1>6, <1>9, AllSignalledIsPresent DEF Phases

(* With one container per task the loops of performSynchronization never   *)
(* wait for each other: as long as no peer is missing, some hook has       *)
(* something to do besides polling, until all have succeeded.              *)
THEOREM NoCommonWaitTheorem ==
  ASSUME MaxLaunches = 1
  PROVE  Spec => []NoCommonWait
<1>1. Init => EndsKnown
  BY DEF Init, EndsKnown
<1>2. OneLaunch /\ EndsKnown => NoCommonWait
  BY NoCommonWaitEver
<1> QED
  BY <1>1, <1>2, EndsKnownStep, OneLaunchInit, OneLaunchStep, PTL DEF Spec

(* With one container per task, procid 0 succeeds only when the tree has   *)
(* gone, and its peers, some of whose hooks may still be about to exit,    *)
(* never make it anew (cleanupSyncDir).                                    *)
THEOREM SuccessLeavesNoTreeTheorem ==
  ASSUME MaxLaunches = 1
  PROVE  Spec => []SuccessLeavesNoTree
<1>r. Root \in Procs
  BY SyncAssumption DEF SyncAssumption
<1>1. Init => SuccessLeavesNoTree
  BY DEF Init, SuccessLeavesNoTree
<1>2. OneLaunch /\ OneLaunch' /\ SuccessLeavesNoTree /\ [Next]_vars
      => SuccessLeavesNoTree'
  <2> SUFFICES ASSUME OneLaunch, OneLaunch', SuccessLeavesNoTree, [Next]_vars,
                      Succeeded(Root)'
               PROVE  dirs' = {}
    BY DEF SuccessLeavesNoTree
  <2> USE <1>r DEF OneLaunch, History, WellFormed, TypeOK, Control, Running
  <2>1. CASE Succeeded(Root)
    <3>1. dirs = {}
      BY <2>1 DEF SuccessLeavesNoTree
    <3>2. CleaningUp
      BY <2>1 DEF Succeeded, CleaningUp
    <3>3. ASSUME NEW p \in Procs, MakeDirs(p) PROVE FALSE
      BY <3>2, <3>3, NotDepartedKeepsTree DEF MakeDirs, Departed, RunningInv
    <3> QED
      BY <3>1, <3>3
      DEF Next, Run, CleanupSyncDir, vars, tree, Launch, Parse, Check, Touch,
          TouchFails, WaitOver, PollFails, SweepOpen, SweepDir, SweepFile,
          SweepRmdir, SweepEnd, Kill
  <2>2. CASE ~Succeeded(Root)
    <3>1. ASSUME NEW p \in Procs, Launch(p) \/ Run(p) \/ Kill(p), ~SweepEnd(p)
          PROVE  FALSE
      <4>1. CASE Launch(p)
        BY <2>2, <4>1 DEF Launch, Succeeded
      <4>2. CASE Parse(p)
        BY <2>2, <4>2 DEF Parse, SetUp, Goto, Exit, Succeeded
      <4>3. CASE Check(p) \/ MakeDirs(p) \/ TouchFails(p)
        BY <2>2, <4>3 DEF Check, MakeDirs, TouchFails, Goto, Exit, Succeeded
      <4>4. CASE Touch(p)
        BY <2>2, <4>4 DEF Touch, Goto, Succeed, Succeeded
      <4>5. CASE WaitOver(p) \/ PollFails(p) \/ Kill(p)
        BY <2>2, <4>5 DEF WaitOver, PollFails, Kill, Goto, Exit, Succeeded
      <4>6. CASE SweepOpen(p) \/ SweepDir(p)
        BY <2>2, <4>6 DEF SweepOpen, SweepDir, Goto, Succeeded, proc
      <4>7. CASE SweepFile(p) \/ SweepRmdir(p)
        BY <2>2, <4>7 DEF SweepFile, SweepRmdir, Exit, Succeeded, proc
      <4> QED
        BY <3>1, <4>1, <4>2, <4>3, <4>4, <4>5, <4>6, <4>7 DEF Run, CleanupSyncDir
    <3>2. ASSUME NEW p \in Procs, SweepEnd(p) PROVE dirs' = {}
      <4>1. p = Root
        BY <3>2, SweeperIsRoot DEF SweepEnd, Sweeping
      <4> QED
        BY <2>2, <3>2, <4>1 DEF SweepEnd, Sweeping, Exit, Succeeded, tree
    <3>3. CASE UNCHANGED vars
      BY <2>2, <3>3 DEF vars, Succeeded
    <3> QED
      BY <3>1, <3>2, <3>3 DEF Next
  <2> QED
    BY <2>1, <2>2
<1> QED
  BY <1>1, <1>2, OneLaunchInit, OneLaunchStep, PTL DEF Spec

(* Waiting for a disabled peer: the others never come past the arrivals,   *)
(* and once all that are left wait there, no step of any hook remains but a*)
(* kill.                                                                   *)
SomePeerDisabled == \E p \in Procs : Disabled(p)
AllAwaitArrivals == \A p \in Procs : Missing(p) \/ PollsArrivals(p)

LEMMA DisabledBarsAll ==
  ASSUME MaxLaunches = 1, OneLaunch, NEW p \in Procs, Disabled(p)
  PROVE  /\ \A q \in Procs : ~Passed(q) /\ ~Departed(q)
         /\ ~AllPresent("arrival")
         /\ ~CleaningUp
<1> USE DEF OneLaunch, History, WellFormed, TypeOK, Phases
<1>1. phase[p] = "init" /\ ~Arrived(p)
  BY DEF Disabled, Arrived, Passed
<1>2. ~Signalled("arrival", p)
  BY <1>1 DEF HistoryIsProgress
<1>3. \A q \in Procs : ~Passed(q)
  BY <1>2 DEF NobodyPassesUnseen, Signalled
<1>4. \A q \in Procs : ~Departed(q)
  BY <1>3 DEF Departed, Passed
<1>5. ~AllPresent("arrival")
  <2>1. p \notin files["arrival"]
    BY <1>2 DEF FilesAreSignals
  <2> QED
    BY <2>1, FullDirectory
<1> QED
  BY <1>3, <1>4, <1>5 DEF RootAlone

LEMMA WaitStays ==
  ASSUME MaxLaunches = 1, OneLaunch, SomePeerDisabled, AllAwaitArrivals, [Next]_vars
  PROVE  (SomePeerDisabled /\ AllAwaitArrivals)'
<1>1. PICK p \in Procs : Disabled(p)
  BY DEF SomePeerDisabled
<1>2. ~AllPresent("arrival") /\ ~CleaningUp
  BY <1>1, DisabledBarsAll
<1> USE DEF OneLaunch, History, WellFormed, TypeOK, Phases
<1>3. ASSUME NEW q \in Procs, Missing(q)
      PROVE  ~Running(q) /\ ~Launch(q)
  <2>1. status[q] \notin {"absent", "running"}
    BY <1>3 DEF Missing, Disabled
  <2>2. launch[q] # 0
    BY <2>1 DEF HistoryIsProgress
  <2> QED
    BY <2>1, <2>2 DEF Running, Launch
<1>4. ASSUME NEW q \in Procs, PollsArrivals(q)
      PROVE  "arrival" \in dirs
  <2>1. Arrived(q)
    BY <1>4 DEF PollsArrivals, Arrived
  <2>2. Signalled("arrival", q)
    BY <2>1 DEF HistoryIsProgress
  <2> QED
    BY <1>2, <2>2 DEF TreeIntact
<1>5. ASSUME NEW q \in Procs, Launch(q) \/ Run(q)
      PROVE  FALSE
  <2>1. PollsArrivals(q)
    <3>1. Missing(q) => ~Running(q) /\ ~Launch(q)
      BY <1>3
    <3>2. Run(q) => Running(q)
      BY DEF Run, Parse, Check, MakeDirs, Touch, TouchFails, WaitOver, PollFails,
             CleanupSyncDir, SweepOpen, SweepDir, SweepFile, SweepRmdir, SweepEnd, Sweeping
    <3> QED
      BY <1>5, <3>1, <3>2 DEF AllAwaitArrivals
  <2>2. Running(q) /\ phase[q] = "arrival" /\ step[q] = "wait" /\ "arrival" \in dirs
    BY <1>4, <2>1 DEF PollsArrivals
  <2> QED
    BY <1>2, <1>5, <2>2
    DEF Launch, Run, Parse, Check, MakeDirs, Touch, TouchFails, WaitOver, PollFails,
        CleanupSyncDir, SweepOpen, SweepDir, SweepFile, SweepRmdir, SweepEnd, Sweeping
<1>6. ASSUME NEW q \in Procs, Kill(q)
      PROVE  (SomePeerDisabled /\ AllAwaitArrivals)'
  <2>1. status' = [status EXCEPT ![q] = "killed"] /\ UNCHANGED <<phase, step>> /\ Running(q)
    BY <1>6 DEF Kill, Exit
  <2>2. q # p
    BY <1>1, <1>3, <2>1 DEF Missing
  <2>3. Disabled(p)'
    BY <1>1, <2>1, <2>2 DEF Disabled
  <2>4. ASSUME NEW r \in Procs
        PROVE  Missing(r)' \/ PollsArrivals(r)'
    BY <2>1 DEF AllAwaitArrivals, Missing, Disabled, PollsArrivals, Running
  <2> QED
    BY <2>3, <2>4 DEF SomePeerDisabled, AllAwaitArrivals
<1>7. CASE UNCHANGED vars
  BY <1>7 DEF vars, proc, SomePeerDisabled, AllAwaitArrivals, Missing, Disabled,
              PollsArrivals, Running
<1> QED
  BY <1>5, <1>6, <1>7 DEF Next

(* There is no timeout: with one container per task, the hooks that are all*)
(* left polling for a disabled peer poll for ever, whoever of them is      *)
(* killed.  (That they come to this point is liveness.)                    *)
THEOREM WaitingIsForEver ==
  ASSUME MaxLaunches = 1
  PROVE  Spec => []((SomePeerDisabled /\ AllAwaitArrivals) => []AllAwaitArrivals)
<1>1. OneLaunch /\ (SomePeerDisabled /\ AllAwaitArrivals) /\ [Next]_vars
      => (SomePeerDisabled /\ AllAwaitArrivals)'
  BY WaitStays
<1> QED
  BY <1>1, OneLaunchInit, OneLaunchStep, PTL DEF Spec

(* With one container per task the files and the polling implement the     *)
(* barrier of StepBarrier: each call on the shared directory is an         *)
(* arrival, a passage, the sweep, a loss, or invisible.                    *)
THEOREM ImplementsBarrierTheorem ==
  ASSUME MaxLaunches = 1
  PROVE  Spec => ImplementsBarrier
<1> USE DEF ArrivedSet, PassedSet, LostSet, Barrier!vars
<1>1. Init => Barrier!Init
  BY SyncAssumption
  DEF Init, Barrier!Init, Passed, CleaningUp, Phases, SyncAssumption
<1>2. OneLaunch /\ [Next]_vars => [Barrier!Next]_(Barrier!vars)
  <2> SUFFICES ASSUME OneLaunch, [Next]_vars
               PROVE  [Barrier!Next]_(Barrier!vars)
    OBVIOUS
  <2>o. OneLaunch'
    BY OneLaunchStep
  <2>r. Root \in Procs
    BY SyncAssumption DEF SyncAssumption
  <2> USE <2>r DEF OneLaunch, History, WellFormed, TypeOK, Control, Phases,
                   RunningInv, Running, Passed, CleaningUp
  <2>1. ASSUME NEW p \in Procs, Launch(p)
        PROVE  UNCHANGED Barrier!vars
    <3>1. launch[p] = 0
      BY <2>1 DEF Launch
    <3>2. phase[p] = "init" /\ step[p] = "parse" /\ status[p] = "absent"
      BY <3>1 DEF HistoryIsProgress
    <3>3. UNCHANGED <<ArrivedSet, PassedSet, CleaningUp>>
      BY <2>1, <3>2 DEF Launch, tree
    <3>4. UNCHANGED LostSet
      BY <2>1, <3>2 DEF Launch
    <3> QED
      BY <3>3, <3>4
  <2>2. ASSUME NEW p \in Procs, Parse(p)
        PROVE  Barrier!Lose(p) \/ UNCHANGED Barrier!vars
    BY <2>2 DEF Parse, SetUp, Goto, Exit, tree, Barrier!Lose
  <2>3. ASSUME NEW p \in Procs, Check(p) PROVE UNCHANGED Barrier!vars
    BY <2>o, <2>3 DEF Check, Goto, Exit, tree, NoInternalError
  <2>4. ASSUME NEW p \in Procs, MakeDirs(p) PROVE UNCHANGED Barrier!vars
    BY <2>4 DEF MakeDirs, Goto
  <2>5. ASSUME NEW p \in Procs, Touch(p)
        PROVE  Barrier!Arrive(p) \/ UNCHANGED Barrier!vars
    <3>1. CASE phase[p] = "arrival"
      <4>1. ~Arrived(p) /\ ArrivedSet' = ArrivedSet \cup {p}
        BY <2>5, <3>1 DEF Touch, Arrived
      <4>2. p \notin ArrivedSet \cup LostSet
        BY <2>5, <4>1 DEF Touch, HistoryIsProgress, Signalled
      <4>3. UNCHANGED <<PassedSet, CleaningUp, LostSet>>
        BY <2>5, <3>1 DEF Touch, Goto
      <4> QED
        BY <4>1, <4>2, <4>3 DEF Barrier!Arrive
    <3>2. CASE phase[p] = "departure"
      <4>1. UNCHANGED ArrivedSet
        BY <2>5, <3>2 DEF Touch
      <4>2. UNCHANGED <<PassedSet, CleaningUp, LostSet>>
        BY <2>5, <3>2 DEF Touch, Goto, Succeed
      <4> QED
        BY <4>1, <4>2
    <3> QED
      BY <2>5, <3>1, <3>2 DEF Touch
  <2>6. ASSUME NEW p \in Procs, TouchFails(p) \/ PollFails(p) PROVE FALSE
    BY <2>o, <2>6 DEF TouchFails, PollFails, Exit, NoIoError
  <2>7. ASSUME NEW p \in Procs, WaitOver(p)
        PROVE  Barrier!Pass(p) \/ UNCHANGED Barrier!vars
    <3>1. CASE phase[p] = "arrival"
      <4>1. ArrivedSet = Procs
        BY <2>7, <3>1, FullDirectory DEF WaitOver, FilesAreSignals, Signalled
      <4>2. p \notin PassedSet \cup LostSet
        BY <2>7, <3>1 DEF WaitOver
      <4>3. PassedSet' = PassedSet \cup {p}
        BY <2>7, <3>1 DEF WaitOver, Goto
      <4>4. UNCHANGED <<ArrivedSet, CleaningUp, LostSet>>
        BY <2>7, <3>1 DEF WaitOver, Goto, tree
      <4> QED
        BY <4>1, <4>2, <4>3, <4>4 DEF Barrier!Pass
    <3>2. CASE phase[p] = "departure"
      BY <2>7, <3>2 DEF WaitOver, Goto, tree
    <3> QED
      BY <2>7, <3>1, <3>2 DEF WaitOver
  <2>8. ASSUME NEW p \in Procs, SweepOpen(p) PROVE Barrier!Sweep
    <3>1. p = Root /\ phase[p] = "departure" /\ \A q \in Procs : Departed(q)
      BY <2>8, SweeperIsRoot DEF SweepOpen
    <3>2. PassedSet = Procs
      BY <3>1 DEF Departed
    <3>3. ~CleaningUp /\ CleaningUp'
      BY <2>8, <3>1 DEF SweepOpen, Goto
    <3>4. UNCHANGED <<ArrivedSet, PassedSet, LostSet>>
      BY <2>8, <3>1 DEF SweepOpen, Goto, tree
    <3> QED
      BY <3>2, <3>3, <3>4 DEF Barrier!Sweep
  <2>9. ASSUME NEW p \in Procs, SweepDir(p) \/ SweepFile(p)
        PROVE  UNCHANGED Barrier!vars
    BY <2>9 DEF SweepDir, SweepFile, tree, proc
  <2>10. ASSUME NEW p \in Procs, SweepRmdir(p) PROVE UNCHANGED Barrier!vars
    BY <2>o, <2>10 DEF SweepRmdir, Sweeping, Exit, proc, NoIoError
  <2>11. ASSUME NEW p \in Procs, SweepEnd(p) PROVE UNCHANGED Barrier!vars
    <3>1. p = Root /\ phase[p] = "departure"
      BY <2>11, SweeperIsRoot DEF SweepEnd, Sweeping
    <3>2. Succeed(p) /\ UNCHANGED signalled
      BY <2>o, <2>11 DEF SweepEnd, Sweeping, Exit, tree, NoIoError
    <3> QED
      BY <2>11, <3>1, <3>2 DEF SweepEnd, Sweeping, Succeed
  <2>12. ASSUME NEW p \in Procs, Kill(p) PROVE Barrier!Lose(p)
    <3>1. p \notin LostSet /\ LostSet' = LostSet \cup {p}
      BY <2>12 DEF Kill, Exit
    <3>2. UNCHANGED <<ArrivedSet, PassedSet, CleaningUp>>
      BY <2>12 DEF Kill, Exit, tree
    <3> QED
      BY <3>1, <3>2 DEF Barrier!Lose
  <2>13. CASE UNCHANGED vars
    BY <2>13 DEF vars
  <2> QED
    BY <2>1, <2>2, <2>3, <2>4, <2>5, <2>6, <2>7, <2>8, <2>9, <2>10, <2>11,
       <2>12, <2>13
    DEF Next, Run, CleanupSyncDir, Barrier!Next
<1> QED
  BY <1>1, <1>2, OneLaunchInit, OneLaunchStep, PTL
  DEF Spec, ImplementsBarrier, Barrier!Spec
=============================================================================
