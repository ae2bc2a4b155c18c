------------------------ MODULE LibraryChoiceProofs ------------------------
(***************************************************************************)
(* What the library picked has to do with the candidates, for lists of any *)
(* length and in any order, and for any numbers in their versions.         *)
(***************************************************************************)
EXTENDS LibraryChoice, SharedLibraryProofs

-----------------------------------------------------------------------------
(* Versions as triples of numbers.                                         *)

Fields(l) ==
  /\ l.name = Name
  /\ l.major \in Int /\ l.minor \in Int
  /\ l.patch \in Int

LEMMA FieldsOfLibrary ==
  ASSUME NEW l \in Libraries
  PROVE  Fields(l)
<1>1. \A m \in Numbers \cup {Missing} : m \in Int
  BY ChoiceAssumption DEF Missing
<1>2. l \in [name : {Name}, major : Numbers \cup {Missing},
            minor : Numbers \cup {Missing}, patch : Numbers \cup {Missing}]
  BY DEF Libraries, Library
<1>3. /\ l.name = Name
      /\ l.major \in Numbers \cup {Missing}
      /\ l.minor \in Numbers \cup {Missing}
      /\ l.patch \in Numbers \cup {Missing}
  BY <1>2
<1> QED
  BY <1>1, <1>3 DEF Fields

LEMMA FieldsOfListed ==
  ASSUME NEW cs \in Seq(Libraries)
  PROVE  /\ \A n \in 1..Len(cs) : Fields(cs[n])
         /\ \A l \in Listed(cs) : Fields(l)
<1>1. \A n \in 1..Len(cs) : cs[n] \in Libraries
  OBVIOUS
<1>2. \A l \in Listed(cs) : l \in Libraries
  BY <1>1 DEF Listed
<1> QED
  BY <1>1, <1>2, FieldsOfLibrary

-----------------------------------------------------------------------------
(* The first loop.  After n iterations no candidate seen is older than     *)
(* `oldest' if that one is of a newer major number than me, and none of my *)
(* major number is if that one has it too.                                 *)

NoneOlder(me, cs, n, oldest) ==
  /\ oldest.major > me.major => \A i \in 1..n : NotNewer(oldest, cs[i])
  /\ oldest.major = me.major =>
       \A i \in 1..n : cs[i].major = me.major => NotNewer(oldest, cs[i])

LEMMA NoneOlderStep ==
  ASSUME NEW me, Fields(me), NEW cs \in Seq(Libraries), NEW n \in 1..Len(cs),
         NEW o, Fields(o), NoneOlder(me, cs, n - 1, o)
  PROVE  NoneOlder(me, cs, n, OldestStep(me, o, cs[n]))
<1> DEFINE c == cs[n]
<1>1. Fields(c) /\ \A i \in 1..n : Fields(cs[i])
  BY FieldsOfListed
<1>2. \A i \in 1..n : i = n \/ i \in 1..(n - 1)
  OBVIOUS
<1>3. CASE /\ NotNewer(c, o)
           /\ ~(o.major = me.major /\ c.major < me.major)
  <2>1. OldestStep(me, o, c) = c
    BY <1>3 DEF OldestStep
  <2>2. ASSUME c.major > me.major, NEW i \in 1..n
        PROVE  NotNewer(c, cs[i])
    <3>1. CASE i = n
      BY <1>1, <3>1 DEF Fields, NotNewer
    <3>2. CASE i # n
      <4>1. Fields(cs[i])
        BY <1>1
      <4> HIDE DEF c
      <4>2. o.major > me.major
        BY <1>1, <1>3, <2>2 DEF Fields, NotNewer
      <4>3. NotNewer(o, cs[i])
        BY <1>2, <3>2, <4>2 DEF NoneOlder
      <4> QED
        BY <1>1, <1>3, <4>1, <4>3 DEF Fields, NotNewer
    <3> QED
      BY <3>1, <3>2
  <2>3. ASSUME c.major = me.major, NEW i \in 1..n, cs[i].major = me.major
        PROVE  NotNewer(c, cs[i])
    BY <1>1, <1>2, <1>3, <2>3 DEF Fields, NotNewer, NoneOlder
  <2> QED
    BY <2>1, <2>2, <2>3 DEF NoneOlder
<1>4. CASE ~(/\ NotNewer(c, o)
             /\ ~(o.major = me.major /\ c.major < me.major))
  <2>1. OldestStep(me, o, c) = o
    BY <1>4 DEF OldestStep
  <2>2. ASSUME o.major > me.major, NEW i \in 1..n
        PROVE  NotNewer(o, cs[i])
    BY <1>1, <1>2, <1>4, <2>2 DEF Fields, NotNewer, NoneOlder
  <2>3. ASSUME o.major = me.major, NEW i \in 1..n, cs[i].major = me.major
        PROVE  NotNewer(o, cs[i])
    BY <1>1, <1>2, <1>4, <2>3 DEF Fields, NotNewer, NoneOlder
  <2> QED
    BY <2>1, <2>2, <2>3 DEF NoneOlder
<1> QED
  BY <1>3, <1>4

LEMMA NoneOlderThanOldest ==
  ASSUME NEW me, Fields(me), NEW cs \in Seq(Libraries), cs # <<>>
  PROVE  NoneOlder(me, cs, Len(cs), Oldest(me, cs))
<1> DEFINE N == Len(cs)
           g == OldestAfter(me, cs)
           S == {n \in 0..N : NoneOlder(me, cs, n, g[n])}
<1>1. N \in Nat /\ N \in 0..N
  OBVIOUS
<1>2. /\ g \in [0..N -> Listed(cs)]
      /\ \A n \in 1..N : g[n] = OldestStep(me, g[n - 1], cs[n])
  BY OldestLoop
<1> HIDE DEF g
<1>3. 0 \in S
  BY DEF NoneOlder
<1>4. ASSUME NEW n \in 1..N, n - 1 \in S
      PROVE  n \in S
  <2>1. g[n - 1] \in Listed(cs) /\ NoneOlder(me, cs, n - 1, g[n - 1])
    BY <1>2, <1>4
  <2>2. Fields(g[n - 1])
    BY <2>1, FieldsOfListed
  <2>3. NoneOlder(me, cs, n, g[n])
    BY <1>2, <2>1, <2>2, NoneOlderStep
  <2> QED
    BY <2>3
<1>5. 0..N \subseteq S
  <2> HIDE DEF S, N
  <2> QED
    BY <1>1, <1>3, <1>4, SetInductionUpTo
<1> QED
  BY <1>1, <1>5 DEF Oldest, g
-----------------------------------------------------------------------------
(* A fully compatible candidate.                                           *)

Full(me, l) == AreFullAbiCompatible(me, l)

OneMajorIn(me, cs) == \A i \in 1..Len(cs) : cs[i].major = me.major
NoPatchesIn(me, cs) ==
  me.patch = Missing /\ \A i \in 1..Len(cs) : cs[i].patch = Missing

LEMMA OldestOfOneMajorIsFull ==
  ASSUME NEW me, Fields(me), NEW cs \in Seq(Libraries),
         NEW k \in 1..Len(cs), Full(me, cs[k]),
         Oldest(me, cs).major >= me.major
  PROVE  Full(me, Oldest(me, cs))
<1> DEFINE o == Oldest(me, cs)
<1>1. Fields(o) /\ Fields(cs[k]) /\ NoneOlder(me, cs, Len(cs), o)
  BY OldestIsListed, NoneOlderThanOldest, FieldsOfListed
<1>2. cs[k].major = me.major /\ me.minor >= cs[k].minor
  BY DEF Full, AreFullAbiCompatible, AreMajorAbiCompatible
<1>3. NotNewer(o, cs[k])
  <2>1. o.major > me.major \/ o.major = me.major
    BY <1>1 DEF Fields
  <2> QED
    BY <1>1, <1>2, <2>1 DEF NoneOlder
<1>4. o.major = me.major /\ o.minor <= me.minor
  BY <1>1, <1>2, <1>3 DEF Fields, NotNewer
<1> QED
  BY <1>1, <1>4 DEF Fields, Full, AreFullAbiCompatible, AreMajorAbiCompatible

(* The second loop: what holds of `best' once it was fully compatible, or  *)
(* as long as it is of an older major number than me.                      *)
TowardsFull(me, k, n, best) ==
  /\ best.major < me.major \/ Full(me, best)
  /\ n >= k => Full(me, best)

LEMMA TowardsFullStep ==
  ASSUME NEW me, Fields(me), NEW cs \in Seq(Libraries), NEW n \in 1..Len(cs),
         NEW k \in 1..Len(cs), Full(me, cs[k]), NoPatchesIn(me, cs),
         NEW b \in Listed(cs), TowardsFull(me, k, n - 1, b)
  PROVE  TowardsFull(me, k, n, BestStep(me, b, cs[n]))
<1> DEFINE c == cs[n]
<1>1. Fields(c) /\ Fields(b) /\ c.patch = b.patch /\ (n = k => Full(me, c))
  BY FieldsOfListed DEF NoPatchesIn, Listed
<1>2. CASE NotNewer(b, c) /\ c.major <= me.major /\ c.minor <= me.minor
           /\ ~(c.major = me.major /\ c.minor = me.minor /\ c.patch < b.patch)
  <2>1. BestStep(me, b, c) = c
    BY <1>2 DEF BestStep
  <2>2. c.major < me.major \/ Full(me, c)
    <3>1. c.minor <= me.minor /\ c.name = me.name
      BY <1>1, <1>2 DEF Fields
    <3>2. c.major < me.major \/ c.major = me.major
      BY <1>1, <1>2 DEF Fields
    <3> QED
      BY <1>1, <3>1, <3>2 DEF Fields, Full, AreFullAbiCompatible, AreMajorAbiCompatible
  <2>3. ASSUME n >= k
        PROVE  Full(me, c)
    <3>1. CASE n = k
      BY <1>1, <3>1
    <3>2. CASE n # k
      <4>1. Full(me, b)
        BY <2>3, <3>2 DEF TowardsFull
      <4>2. c.major = me.major
        BY <1>1, <1>2, <4>1 DEF Fields, NotNewer, Full, AreFullAbiCompatible,
                                AreMajorAbiCompatible
      <4> QED
        BY <1>1, <2>2, <4>2 DEF Fields
    <3> QED
      BY <3>1, <3>2
  <2> QED
    BY <2>1, <2>2, <2>3 DEF TowardsFull
<1>3. CASE ~(NotNewer(b, c) /\ c.major <= me.major /\ c.minor <= me.minor
             /\ ~(c.major = me.major /\ c.minor = me.minor /\ c.patch < b.patch))
  <2>1. BestStep(me, b, c) = b
    BY <1>3 DEF BestStep
  <2>2. CASE n # k
    BY <2>1, <2>2 DEF TowardsFull
  <2>3. CASE n = k /\ ~Full(me, b)
    <3>1. b.major < me.major
      BY <2>3 DEF TowardsFull
    <3>2. c.major = me.major /\ c.minor <= me.minor
      BY <1>1, <2>3 DEF Fields, Full, AreFullAbiCompatible, AreMajorAbiCompatible
    <3>3. NotNewer(b, c) /\ c.major <= me.major
      BY <1>1, <3>1, <3>2 DEF Fields, NotNewer
    <3>4. ~(c.patch < b.patch)
      BY <1>1 DEF Fields
    <3>5. c.minor <= me.minor
      BY <3>2
    <3> QED
      BY <1>3, <3>3, <3>4, <3>5
  <2> QED
    BY <2>1, <2>2, <2>3 DEF TowardsFull
<1> QED
  BY <1>2, <1>3

LEMMA BestIsFullWithoutPatches ==
  ASSUME NEW me, Fields(me), NEW cs \in Seq(Libraries),
         NEW k \in 1..Len(cs), Full(me, cs[k]), NoPatchesIn(me, cs)
  PROVE  Full(me, Best(me, cs))
<1> DEFINE N == Len(cs)
           g == BestAfter(me, cs)
           S == {n \in 0..N : TowardsFull(me, k, n, g[n])}
<1>1. N \in Nat /\ N \in 0..N /\ cs # <<>>
  OBVIOUS
<1>2. /\ g \in [0..N -> Listed(cs)] /\ g[0] = Oldest(me, cs)
      /\ \A n \in 1..N : g[n] = BestStep(me, g[n - 1], cs[n])
  BY <1>1, BestLoop
<1> HIDE DEF g
<1>3. 0 \in S
  <2>1. Fields(g[0])
    BY <1>1, <1>2, OldestIsListed, FieldsOfListed
  <2>2. g[0].major < me.major \/ Full(me, g[0])
    <3>1. g[0].major < me.major \/ g[0].major >= me.major
      BY <2>1 DEF Fields
    <3> QED
      BY <1>2, <3>1, OldestOfOneMajorIsFull
  <2> QED
    BY <2>2 DEF TowardsFull
<1>4. ASSUME NEW n \in 1..N, n - 1 \in S
      PROVE  n \in S
  <2>1. g[n - 1] \in Listed(cs) /\ TowardsFull(me, k, n - 1, g[n - 1])
    BY <1>2, <1>4
  <2>2. TowardsFull(me, k, n, g[n])
    BY <1>2, <2>1, TowardsFullStep
  <2> QED
    BY <2>2
<1>5. 0..N \subseteq S
  <2> HIDE DEF S, N
  <2> QED
    BY <1>1, <1>3, <1>4, SetInductionUpTo
<1>6. TowardsFull(me, k, N, g[N])
  BY <1>1, <1>5
<1> QED
  BY <1>6 DEF TowardsFull, Best, g

(* Among versions of my major number `best' stays fully compatible.        *)
LEMMA BestIsFullInOneMajor ==
  ASSUME NEW me, Fields(me), NEW cs \in Seq(Libraries),
         NEW k \in 1..Len(cs), Full(me, cs[k]), OneMajorIn(me, cs)
  PROVE  Full(me, Best(me, cs))
<1> DEFINE N == Len(cs)
           g == BestAfter(me, cs)
           S == {n \in 0..N : Full(me, g[n])}
<1>1. N \in Nat /\ N \in 0..N /\ cs # <<>>
  OBVIOUS
<1>2. /\ g \in [0..N -> Listed(cs)] /\ g[0] = Oldest(me, cs)
      /\ \A n \in 1..N : g[n] = BestStep(me, g[n - 1], cs[n])
  BY <1>1, BestLoop
<1> HIDE DEF g
<1>3. 0 \in S
  <2>1. Oldest(me, cs).major = me.major
    BY <1>1, OldestIsListed DEF Listed, OneMajorIn
  <2>2. Oldest(me, cs).major >= me.major
    BY <2>1 DEF Fields
  <2> QED
    BY <1>2, <2>2, OldestOfOneMajorIsFull
<1>4. ASSUME NEW n \in 1..N, n - 1 \in S
      PROVE  n \in S
  <2>1. Full(me, g[n - 1]) /\ cs[n].major = me.major /\ Fields(cs[n])
    BY <1>4, FieldsOfListed DEF OneMajorIn
  <2>2. g[n] = g[n - 1] \/ (g[n] = cs[n] /\ cs[n].minor <= me.minor)
    BY <1>2 DEF BestStep
  <2>3. Full(me, g[n])
    BY <2>1, <2>2 DEF Fields, Full, AreFullAbiCompatible, AreMajorAbiCompatible
  <2> QED
    BY <2>3
<1>5. 0..N \subseteq S
  <2> HIDE DEF S, N
  <2> QED
    BY <1>1, <1>3, <1>4, SetInductionUpTo
<1> QED
  BY <1>1, <1>5 DEF Best, g

LEMMA ExactIsFull ==
  ASSUME NEW me, Fields(me), NEW l, RealName(l) = RealName(me)
  PROVE  Full(me, l)
<1>1. l.name = me.name /\ l.major = me.major /\ l.minor = me.minor
  BY DEF RealName
<1> QED
  BY <1>1 DEF Fields, Full, AreFullAbiCompatible, AreMajorAbiCompatible

LEMMA PickedIsFull ==
  ASSUME NEW me, Fields(me), NEW cs \in Seq(Libraries),
         NEW k \in 1..Len(cs), Full(me, cs[k]),
         OneMajorIn(me, cs) \/ NoPatchesIn(me, cs)
  PROVE  Full(me, PickNewestAbiCompatibleLibrary(me, cs))
<1>1. CASE Len(cs) = 1
  BY <1>1 DEF PickNewestAbiCompatibleLibrary
<1>2. CASE Len(cs) # 1 /\ Exact(me, cs) # {}
  BY <1>2, FirstExactIsExact, ExactIsFull DEF PickNewestAbiCompatibleLibrary
<1>3. CASE Len(cs) # 1 /\ Exact(me, cs) = {}
  BY <1>3, BestIsFullWithoutPatches, BestIsFullInOneMajor
     DEF PickNewestAbiCompatibleLibrary
<1> QED
  BY <1>1, <1>2, <1>3

-----------------------------------------------------------------------------
(* Candidates that are all newer than me: the second loop never moves.     *)

LEMMA BestOfNewerIsOldest ==
  ASSUME NEW me, Fields(me), NEW cs \in Seq(Libraries), cs # <<>>,
         \A i \in 1..Len(cs) : Newer(cs[i], me)
  PROVE  Best(me, cs) = Oldest(me, cs)
<1> DEFINE N == Len(cs)
           g == BestAfter(me, cs)
           S == {n \in 0..N : g[n] = Oldest(me, cs)}
<1>1. N \in Nat /\ N \in 0..N
  OBVIOUS
<1>2. /\ g[0] = Oldest(me, cs)
      /\ \A n \in 1..N : g[n] = BestStep(me, g[n - 1], cs[n])
  BY BestLoop
<1> HIDE DEF g
<1>3. 0 \in S
  BY <1>2
<1>4. ASSUME NEW n \in 1..N, n - 1 \in S
      PROVE  n \in S
  <2>1. Newer(cs[n], me) /\ Fields(cs[n])
    BY FieldsOfListed
  <2>2. ~(cs[n].major <= me.major /\ cs[n].minor <= me.minor)
    BY <2>1 DEF Newer, Fields
  <2>3. g[n] = g[n - 1]
    BY <1>2, <2>2 DEF BestStep
  <2> QED
    BY <1>4, <2>3
<1>5. 0..N \subseteq S
  <2> HIDE DEF S, N
  <2> QED
    BY <1>1, <1>3, <1>4, SetInductionUpTo
<1> QED
  BY <1>1, <1>5 DEF Best, g

LEMMA PickedIsOldestOfNewer ==
  ASSUME NEW me, Fields(me), NEW cs \in Seq(Libraries), cs # <<>>,
         \A i \in 1..Len(cs) : Newer(cs[i], me),
         NEW k \in 1..Len(cs)
  PROVE  ~Newer(PickNewestAbiCompatibleLibrary(me, cs), cs[k])
<1>1. Fields(cs[k])
  BY FieldsOfListed
<1>2. CASE Len(cs) = 1
  <2>1. PickNewestAbiCompatibleLibrary(me, cs) = cs[k]
    BY <1>2 DEF PickNewestAbiCompatibleLibrary
  <2> QED
    BY <1>1, <2>1 DEF Newer, Fields
<1>3. CASE Len(cs) # 1
  <2> DEFINE o == Oldest(me, cs)
  <2>1. Exact(me, cs) = {}
    <3> SUFFICES ASSUME Exact(me, cs) # {}
                 PROVE  FALSE
      OBVIOUS
    <3>1. PICK n \in 1..Len(cs) : RealName(cs[n]) = RealName(me)
      BY DEF Exact
    <3>2. Newer(cs[n], me) /\ cs[n].major = me.major /\ cs[n].minor = me.minor
      BY <3>1 DEF RealName
    <3> QED
      BY <3>2 DEF Newer, Fields
  <2>2. PickNewestAbiCompatibleLibrary(me, cs) = o
    BY <1>3, <2>1, BestOfNewerIsOldest DEF PickNewestAbiCompatibleLibrary
  <2>3. Fields(o) /\ Newer(o, me) /\ NoneOlder(me, cs, Len(cs), o)
    BY OldestIsListed, FieldsOfListed, NoneOlderThanOldest DEF Listed
  <2>4. Newer(cs[k], me)
    OBVIOUS
  <2>5. NotNewer(o, cs[k])
    <3>1. CASE o.major > me.major
      BY <2>3, <3>1 DEF NoneOlder
    <3>2. CASE o.major = me.major /\ cs[k].major = me.major
      BY <2>3, <3>2 DEF NoneOlder
    <3>3. CASE o.major = me.major /\ cs[k].major > me.major
      BY <1>1, <2>3, <3>3 DEF NotNewer, Fields
    <3> QED
      BY <1>1, <2>3, <2>4, <3>1, <3>2, <3>3 DEF Newer, Fields
  <2>6. ~Newer(o, cs[k])
    BY <1>1, <2>3, <2>5 DEF NotNewer, Newer, Fields
  <2> HIDE DEF o
  <2> QED
    BY <2>2, <2>6
<1> QED
  BY <1>2, <1>3

-----------------------------------------------------------------------------
(* Candidates of my major number: after n iterations of the second loop    *)
(* `best' is as new as every candidate seen that is not newer than me.     *)

AsNewAs(me, cs, n, best) ==
  \A i \in 1..n : cs[i].minor <= me.minor => cs[i].minor <= best.minor

LEMMA BestIsAsNew ==
  ASSUME NEW me, Fields(me), NEW cs \in Seq(Libraries), cs # <<>>,
         OneMajorIn(me, cs), NoPatchesIn(me, cs)
  PROVE  AsNewAs(me, cs, Len(cs), Best(me, cs))
<1> DEFINE N == Len(cs)
           g == BestAfter(me, cs)
           S == {n \in 0..N : AsNewAs(me, cs, n, g[n])}
<1>1. N \in Nat /\ N \in 0..N
  OBVIOUS
<1>2. /\ g \in [0..N -> Listed(cs)]
      /\ \A n \in 1..N : g[n] = BestStep(me, g[n - 1], cs[n])
  BY BestLoop
<1> HIDE DEF g
<1>3. 0 \in S
  BY DEF AsNewAs
<1>4. ASSUME NEW n \in 1..N, n - 1 \in S
      PROVE  n \in S
  <2> DEFINE c == cs[n]
             b == g[n - 1]
  <2>1. b \in Listed(cs) /\ AsNewAs(me, cs, n - 1, b)
    BY <1>2, <1>4
  <2>2. Fields(b) /\ Fields(c) /\ \A i \in 1..n : Fields(cs[i])
    BY <2>1, FieldsOfListed
  <2>3. b.major = me.major /\ c.major = me.major /\ c.patch = b.patch
    BY <2>1 DEF OneMajorIn, NoPatchesIn, Listed
  <2>4. g[n] = BestStep(me, b, c)
    BY <1>2
  <2>5. \A i \in 1..n : i = n \/ i \in 1..(n - 1)
    OBVIOUS
  <2> HIDE DEF b
  <2>6. CASE b.minor <= c.minor /\ c.minor <= me.minor
    <3>1. NotNewer(b, c) /\ c.major <= me.major /\ ~(c.patch < b.patch)
      BY <2>2, <2>3, <2>6 DEF NotNewer, Fields
    <3>2. g[n] = c
      BY <2>4, <2>6, <3>1 DEF BestStep
    <3>3. AsNewAs(me, cs, n, c)
      <4>1. ASSUME NEW i \in 1..n, cs[i].minor <= me.minor
            PROVE  cs[i].minor <= c.minor
        <5>1. c.minor \in Int /\ b.minor \in Int /\ cs[i].minor \in Int
          BY <2>2 DEF Fields
        <5>2. CASE i = n
          BY <5>1, <5>2
        <5>3. CASE i # n
          <6>1. cs[i].minor <= b.minor
            BY <2>1, <2>5, <4>1, <5>3 DEF AsNewAs
          <6> HIDE DEF c
          <6> QED
            BY <2>6, <5>1, <6>1
        <5> QED
          BY <5>2, <5>3
      <4> QED
        BY <4>1 DEF AsNewAs
    <3> QED
      BY <3>2, <3>3
  <2>7. CASE ~(b.minor <= c.minor /\ c.minor <= me.minor)
    <3>1. ~(NotNewer(b, c) /\ c.minor <= me.minor)
      BY <2>2, <2>3, <2>7 DEF NotNewer, Fields
    <3>2. g[n] = b
      BY <2>4, <3>1 DEF BestStep
    <3>3. AsNewAs(me, cs, n, b)
      BY <2>1, <2>2, <2>5, <2>7 DEF AsNewAs, Fields
    <3> QED
      BY <3>2, <3>3
  <2> QED
    BY <2>6, <2>7
<1>5. 0..N \subseteq S
  <2> HIDE DEF S, N
  <2> QED
    BY <1>1, <1>3, <1>4, SetInductionUpTo
<1> QED
  BY <1>1, <1>5 DEF Best, g

LEMMA PickedIsNewestOfOlder ==
  ASSUME NEW me, Fields(me), NEW cs \in Seq(Libraries), cs # <<>>,
         OneMajorIn(me, cs), NoPatchesIn(me, cs),
         NEW k \in 1..Len(cs), ~Newer(cs[k], me)
  PROVE  ~Newer(cs[k], PickNewestAbiCompatibleLibrary(me, cs))
<1> DEFINE best == PickNewestAbiCompatibleLibrary(me, cs)
<1>1. Fields(cs[k]) /\ cs[k].major = me.major /\ cs[k].minor <= me.minor
  BY FieldsOfListed DEF OneMajorIn, Newer, Fields
<1>2. CASE Len(cs) = 1
  <2>1. best = cs[k]
    BY <1>2 DEF PickNewestAbiCompatibleLibrary
  <2> QED
    BY <1>1, <2>1 DEF Newer, Fields
<1>3. CASE Len(cs) # 1 /\ Exact(me, cs) # {}
  <2>1. RealName(best) = RealName(me)
    BY <1>3, FirstExactIsExact DEF PickNewestAbiCompatibleLibrary
  <2>2. best.major = me.major /\ best.minor = me.minor
    BY <2>1 DEF RealName
  <2> QED
    BY <1>1, <2>2 DEF Newer, Fields
<1>4. CASE Len(cs) # 1 /\ Exact(me, cs) = {}
  <2>1. best = Best(me, cs)
    BY <1>4 DEF PickNewestAbiCompatibleLibrary
  <2>2. Fields(best) /\ best.major = me.major /\ AsNewAs(me, cs, Len(cs), best)
    BY <2>1, BestIsListed, BestIsAsNew, FieldsOfListed DEF OneMajorIn, Listed
  <2>3. cs[k].minor <= best.minor
    BY <1>1, <2>2 DEF AsNewAs
  <2>4. ~Newer(cs[k], best)
    <3> HIDE DEF best
    <3> QED
      BY <1>1, <2>2, <2>3 DEF Newer, Fields
  <2> QED
    BY <2>4
<1> QED
  BY <1>2, <1>3, <1>4

-----------------------------------------------------------------------------
(* The specification: libraries are found one by one.                      *)

Typed == hostLib \in Libraries /\ containerLibs \in Seq(Libraries)

LEMMA Typing == Spec => []Typed
<1>1. Init => Typed
  BY DEF Init, Typed
<1>2. Typed /\ [Next]_vars => Typed'
  <2> SUFFICES ASSUME Typed, [Next]_vars
               PROVE  Typed'
    OBVIOUS
  <2>1. ASSUME NEW lib \in Libraries, Found(lib)
        PROVE  Typed'
    BY <2>1 DEF Typed, Found
  <2>2. CASE UNCHANGED vars
    BY <2>2 DEF Typed, vars
  <2> QED
    BY <2>1, <2>2 DEF Next
<1> QED
  BY <1>1, <1>2, PTL DEF Spec

LEMMA ListOfCandidates ==
  ASSUME Typed
  PROVE  /\ Fields(hostLib)
         /\ \A c \in Candidates : \E k \in 1..Len(containerLibs) : c = containerLibs[k]
         /\ \A k \in 1..Len(containerLibs) : containerLibs[k] \in Candidates
BY FieldsOfLibrary DEF Typed, Candidates

(* For every version of the host's library, every number of candidates and *)
(* every order in which ldconfig lists them: a fully compatible one is     *)
(* never passed over for an incompatible one, if the versions share the    *)
(* major number or have no patch numbers.                                  *)
THEOREM FullyCompatibleTheorem == Spec => []FullyCompatibleIsPicked
<1>1. Typed => FullyCompatibleIsPicked
  <2> SUFFICES ASSUME Typed, OneMajor \/ NoPatches,
                      NEW c \in Candidates, AreFullAbiCompatible(hostLib, c)
               PROVE  AreFullAbiCompatible(hostLib, Picked)
    BY DEF FullyCompatibleIsPicked
  <2>1. PICK k \in 1..Len(containerLibs) : c = containerLibs[k]
    BY ListOfCandidates
  <2>2. OneMajorIn(hostLib, containerLibs) \/ NoPatchesIn(hostLib, containerLibs)
    BY ListOfCandidates DEF OneMajor, NoPatches, OneMajorIn, NoPatchesIn,
                            AreMajorAbiCompatible
  <2> QED
    BY <2>1, <2>2, ListOfCandidates, PickedIsFull DEF Full, Picked, Typed
<1> QED
  BY <1>1, Typing, PTL

(* When all candidates are newer than the host's library, the oldest of    *)
(* them is picked.                                                         *)
THEOREM OldestNewerTheorem == Spec => []OldestNewerIsPicked
<1>1. Typed => OldestNewerIsPicked
  <2> SUFFICES ASSUME Typed, containerLibs # <<>>,
                      \A c \in Candidates : Newer(c, hostLib),
                      NEW c \in Candidates
               PROVE  ~Newer(Picked, c)
    BY DEF OldestNewerIsPicked
  <2>1. PICK k \in 1..Len(containerLibs) : c = containerLibs[k]
    BY ListOfCandidates
  <2>2. \A i \in 1..Len(containerLibs) : Newer(containerLibs[i], hostLib)
    BY ListOfCandidates
  <2> QED
    BY <2>1, <2>2, ListOfCandidates, PickedIsOldestOfNewer DEF Picked, Typed
<1> QED
  BY <1>1, Typing, PTL

(* Among versions of the host's major number, without patch numbers, the   *)
(* one picked is as new as every one that is not newer than the host's.    *)
THEOREM NewestOlderTheorem == Spec => []NewestOlderIsPicked
<1>1. Typed => NewestOlderIsPicked
  <2> SUFFICES ASSUME Typed, containerLibs # <<>>, OneMajor, NoPatches,
                      NEW c \in Candidates, ~Newer(c, hostLib)
               PROVE  ~Newer(c, Picked)
    BY DEF NewestOlderIsPicked
  <2>1. PICK k \in 1..Len(containerLibs) : c = containerLibs[k]
    BY ListOfCandidates
  <2>2. OneMajorIn(hostLib, containerLibs) /\ NoPatchesIn(hostLib, containerLibs)
    BY ListOfCandidates DEF OneMajor, NoPatches, OneMajorIn, NoPatchesIn,
                            AreMajorAbiCompatible
  <2> QED
    BY <2>1, <2>2, ListOfCandidates, PickedIsNewestOfOlder DEF Picked, Typed
<1> QED
  BY <1>1, Typing, PTL
=============================================================================
