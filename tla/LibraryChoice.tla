--------------------------- MODULE LibraryChoice ---------------------------
(***************************************************************************)
(* The MPI hook collects the container's versions of one host library in   *)
(* the order in which ldconfig lists them (mapHostTocontainerLibs), and    *)
(* pickNewestAbiCompatibleLibrary picks the one the host library will be   *)
(* compared with and, if compatible, mounted on.                           *)
(***************************************************************************)
EXTENDS SharedLibrary

CONSTANTS
  Name,           \* the linker name of all libraries here
  Numbers,        \* numbers that occur in versions
  MaxCandidates   \* bound on the container's versions of one library

ASSUME ChoiceAssumption == Numbers \subseteq Nat /\ MaxCandidates \in Nat \ {0}

VARIABLES
  hostLib,        \* the host's library
  containerLibs   \* its counterparts found so far, in ldconfig's order

vars == <<hostLib, containerLibs>>

Libraries == Library({Name}, Numbers)

Init == hostLib \in Libraries /\ containerLibs = <<>>

\* map[hostLib.getPath()].push_back(containerLib)
Found(lib) ==
  /\ Len(containerLibs) < MaxCandidates
  /\ containerLibs' = Append(containerLibs, lib)
  /\ UNCHANGED hostLib

Next == \E lib \in Libraries : Found(lib)

Spec == Init /\ [][Next]_vars

-----------------------------------------------------------------------------
Candidates == {containerLibs[i] : i \in DOMAIN containerLibs}

Picked == PickNewestAbiCompatibleLibrary(hostLib, containerLibs)

OneMajor == \A c \in Candidates : AreMajorAbiCompatible(hostLib, c)
NoPatches == \A l \in Candidates \cup {hostLib} : l.patch = Missing

Newer(l, m) == l.major > m.major \/ (l.major = m.major /\ l.minor > m.minor)

(* A fully compatible library of the container is never passed over for an *)
(* incompatible one, whatever ldconfig's order, when the versions share    *)
(* the host's major number (what the checks leave of MPI libraries), or    *)
(* carry no patch numbers.                                                 *)
FullyCompatibleIsPicked ==
  /\ OneMajor \/ NoPatches
  /\ \E c \in Candidates : AreFullAbiCompatible(hostLib, c)
  => AreFullAbiCompatible(hostLib, Picked)

(* "Otherwise, the oldest of the libraries newer than me": when all are    *)
(* newer than the host's, none is older than the one picked.               *)
OldestNewerIsPicked ==
  /\ containerLibs # <<>>
  /\ \A c \in Candidates : Newer(c, hostLib)
  => \A c \in Candidates : ~Newer(Picked, c)

(* "Essentially return the newest of the libraries older or equal to me":  *)
(* among versions of the host's major number, and without patch numbers,   *)
(* the one picked is as new as every one that is not newer than the host's.*)
NewestOlderIsPicked ==
  /\ containerLibs # <<>>
  /\ OneMajor /\ NoPatches
  => \A c \in Candidates : ~Newer(c, hostLib) => ~Newer(c, Picked)

(* "don't go to an older major": a library of the host's major number is   *)
(* never passed over for one of an older major number, whatever the order  *)
(* in which ldconfig lists them.                                           *)
NoOlderMajorIsPicked ==
  /\ containerLibs # <<>>
  /\ \A c \in Candidates : HasMajorVersion(c)
  /\ \E c \in Candidates : AreMajorAbiCompatible(hostLib, c)
  => AreMajorAbiCompatible(hostLib, Picked)
=============================================================================
