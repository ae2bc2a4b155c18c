--------------------------- MODULE SharedLibrary ---------------------------
(***************************************************************************)
(* Versions of shared libraries and their ABI compatibility, as the MPI    *)
(* hook sees them (src/mpi/SharedLibrary.cpp, src/mpi/AbiChecker.cpp).     *)
(*                                                                         *)
(* A library is a linker name (libfoo.so) and up to three numbers.  Each   *)
(* number is a boost::optional<int>: Missing is equal to itself only and   *)
(* smaller than every number.                                              *)
(***************************************************************************)
EXTENDS Integers, Sequences

Missing == -1

\* linkerName.major.minor.patch; what follows a missing number is missing.
Library(names, numbers) ==
  {l \in [name : names, major : numbers \cup {Missing},
          minor : numbers \cup {Missing}, patch : numbers \cup {Missing}] :
     /\ l.major = Missing => l.minor = Missing
     /\ l.minor = Missing => l.patch = Missing}

HasMajorVersion(l) == l.major # Missing

AreMajorAbiCompatible(host, container) ==
  /\ host.name = container.name
  /\ host.major = container.major

AreFullAbiCompatible(host, container) ==
  /\ AreMajorAbiCompatible(host, container)
  /\ host.minor >= container.minor

AreStrictlyAbiCompatible(host, container) ==
  /\ AreMajorAbiCompatible(host, container)
  /\ host.minor = container.minor

-----------------------------------------------------------------------------
(* The checkers.  A check returns a pair (compatible?, message?) or throws:*)
(*   "yes"   (true, none)        "warn"  (true, a message)                 *)
(*   "no"    (false, a message)  "throw"                                   *)

CheckerTypes == {"major", "full", "strict", "dependencies"}

MajorCheck(host, container) ==
  IF AreMajorAbiCompatible(host, container) THEN "yes" ELSE "throw"

FullCheck(host, container) ==
  IF AreFullAbiCompatible(host, container) THEN "yes"
  ELSE IF AreMajorAbiCompatible(host, container) THEN "warn" ELSE "throw"

StrictCheck(host, container) ==
  IF AreStrictlyAbiCompatible(host, container) THEN "yes" ELSE "throw"

DependenciesCheck(host, container) ==
  IF FullCheck(host, container) = "throw"
  THEN "no" ELSE FullCheck(host, container)

Check(type, host, container) ==
  [major |-> MajorCheck(host, container),
   full |-> FullCheck(host, container),
   strict |-> StrictCheck(host, container),
   dependencies |-> DependenciesCheck(host, container)][type]

-----------------------------------------------------------------------------
(* pickNewestAbiCompatibleLibrary: the library `me' of the host chooses    *)
(* among the container's libraries of the same linker name.  Operators     *)
(* named Bad... are faulty variants of the one that follows.               *)

\* l <= m, by major and minor number only.
NotNewer(l, m) ==
  \/ l.major < m.major
  \/ l.major = m.major /\ l.minor <= m.minor

\* First loop: the oldest candidate, but none older than my major number
\* once there is one with my major number.
BadOldestStep(me, oldest, c) == IF NotNewer(oldest, c) THEN c ELSE oldest

OldestStep(me, oldest, c) ==
  IF /\ NotNewer(c, oldest)
     /\ ~(oldest.major = me.major /\ c.major < me.major)
  THEN c ELSE oldest

\* Second loop: the newest candidate from there on that is no newer than me.
BadBestStep(me, best, c) ==
  IF /\ NotNewer(best, c)
     /\ c.major <= me.major
     /\ ~(c.major = me.major /\ c.minor = me.minor /\ c.patch < best.patch)
  THEN c ELSE best

BestStep(me, best, c) ==
  IF /\ NotNewer(best, c)
     /\ c.major <= me.major
     /\ c.minor <= me.minor
     /\ ~(c.major = me.major /\ c.minor = me.minor /\ c.patch < best.patch)
  THEN c ELSE best

\* `oldest' and `best' after each number of iterations.
OldestAfter(me, candidates) ==
  LET oldest[n \in 0..Len(candidates)] ==
        IF n = 0 THEN Head(candidates)
        ELSE OldestStep(me, oldest[n - 1], candidates[n])
  IN  oldest

Oldest(me, candidates) == OldestAfter(me, candidates)[Len(candidates)]

BestAfter(me, candidates) ==
  LET best[n \in 0..Len(candidates)] ==
        IF n = 0 THEN Oldest(me, candidates)
        ELSE BestStep(me, best[n - 1], candidates[n])
  IN  best

BadBest(me, candidates) == Oldest(me, candidates)

Best(me, candidates) == BestAfter(me, candidates)[Len(candidates)]

RealName(l) == <<l.name, l.major, l.minor, l.patch>>

\* Exact matches have equal real names; the first one ends the first loop.
Exact(me, candidates) ==
  {n \in DOMAIN candidates : RealName(candidates[n]) = RealName(me)}

FirstExact(me, candidates) ==
  CHOOSE n \in Exact(me, candidates) : \A m \in Exact(me, candidates) : n <= m

PickNewestAbiCompatibleLibrary(me, candidates) ==
  IF Len(candidates) = 1 THEN candidates[1]
  ELSE IF Exact(me, candidates) # {} THEN candidates[FirstExact(me, candidates)]
  ELSE Best(me, candidates)

=============================================================================
