----------------------------- MODULE PmixHook -----------------------------
(***************************************************************************)
(* The PMIx hook (src/pmix/PMIxHook.cpp): it mounts the two directories in *)
(* which Slurm's PMIx plugin keeps what it shares with the tasks of a step.*)
(* slurmd makes and removes these directories on its own.                  *)
(***************************************************************************)
EXTENDS Container

\* spmix_appdir with and without the user's id in its name, and pmix.
AppdirOfUser == "spmix_appdir_UID_JOB.STEP"
Appdir == "spmix_appdir_JOB.STEP"
PmixDir == "pmix.JOB.STEP"

ASSUME PmixAssumption == HostDirs = {AppdirOfUser, Appdir, PmixDir}

(* What the hook finds in its environment: whether there is an scontrol,   *)
(* SLURM_MPI_TYPE, a variable PMIX_..., SLURM_JOB_UID, and both of         *)
(* SLURM_JOB_ID and SLURM_STEP_ID, and whether the SlurmdSpoolDir and the  *)
(* TmpFS that scontrol shows are directories.                              *)
SlurmEnvs == [scontrol : BOOLEAN, mpiType : {"pmix", "pmix_v4", "none"},
              pmixVariable : BOOLEAN, jobUid : BOOLEAN, ids : BOOLEAN,
              spoolDir : BOOLEAN, tmpFS : BOOLEAN]

VARIABLE slurm    \* this environment

-----------------------------------------------------------------------------
(* checkRequirements, checkPMIxSupport                                     *)
PmixSupported == /\ slurm.scontrol
                 /\ slurm.mpiType \in {"pmix", "pmix_v4"}
                 /\ slurm.pmixVariable

(* getSlurmIDs, derivePathsFromScontrol: what else must be there.          *)
PathsDerived == slurm.ids /\ slurm.spoolDir /\ slurm.tmpFS

\* An appdir that is not there is passed over.
BadPmixPlan ==
  (IF slurm.jobUid /\ AppdirOfUser \in present
   THEN <<Directory(AppdirOfUser)>>
   ELSE IF Appdir \in present THEN <<Directory(Appdir)>> ELSE <<>>)
  \o <<Directory(PmixDir)>>

(* mountPMIxDirectories: the user's appdir if there is one when the hook   *)
(* looks, otherwise the other.                                             *)
PmixPlan ==
  IF slurm.jobUid /\ AppdirOfUser \in present
  THEN <<Directory(AppdirOfUser), Directory(PmixDir)>>
  ELSE <<Directory(Appdir), Directory(PmixDir)>>

RunPmixHook ==
  /\ IF ~PmixSupported THEN Start(<<>>)
     ELSE IF PathsDerived THEN Start(PmixPlan)
     ELSE Throw("refused")
  /\ UNCHANGED slurm

(* slurmd prepares the directories of a step, and removes them.            *)
SlurmdStep ==
  /\ outcome = "creating"
  /\ \E d \in HostDirs :
       present' = IF d \in present THEN present \ {d} ELSE present \cup {d}
  /\ UNCHANGED <<engine, files, devices, allowed, mounted, slurm>>
=============================================================================
