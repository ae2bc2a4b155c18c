--------------------------- MODULE MpiHookProofs ---------------------------
(***************************************************************************)
(* Theorems about the MPI hook, for any container, any libraries on the    *)
(* host and any versions.                                                  *)
(***************************************************************************)
EXTENDS MpiHook, SharedLibraryProofs, FiniteSetTheorems

-----------------------------------------------------------------------------
(* Chains of links.                                                        *)

LEMMA EntryKinds ==
  ASSUME NEW e \in Entry
  PROVE  /\ e.is = "link" => e.to \in Path /\ e = Link(e.to)
         /\ e.is = "file" => e.ver \in Versions /\ e = File(e.origin, e.ver)
         /\ e.is \in {"absent", "file", "link"}
<1>1. CASE e = Absent
  BY <1>1 DEF Absent
<1>2. CASE \E o \in {"host", "container"}, v \in Versions : e = File(o, v)
  BY <1>2 DEF File
<1>3. CASE \E p \in Path : e = Link(p)
  BY <1>3 DEF Link
<1> QED
  BY <1>1, <1>2, <1>3 DEF Entry

LEMMA FileIsEntry ==
  ASSUME NEW o \in {"host", "container"}, NEW v \in Versions
  PROVE  File(o, v) \in Entry /\ File(o, v).is = "file"
BY DEF File, Entry

LEMMA LinkIsEntry ==
  ASSUME NEW p \in Path
  PROVE  Link(p) \in Entry /\ Link(p).is = "link" /\ Link(p).to = p
BY DEF Link, Entry

\* One write: e is now at q.
Written(files, q, e, files2) ==
  /\ files2 \in [Path -> Entry] /\ files2[q] = e
  /\ \A r \in Path : r # q => files2[r] = files[r]

LEMMA WriteEffect ==
  ASSUME NEW files \in [Path -> Entry], NEW q \in Path, NEW e \in Entry,
         NEW files2, files2 = [files EXCEPT ![q] = e]
  PROVE  Written(files, q, e, files2)
BY DEF Written

LEMMA HopStays ==
  ASSUME NEW files \in [Path -> Entry], NEW p \in Path
  PROVE  Hop(files, p) \in Path
<1>1. files[p] \in Entry
  OBVIOUS
<1> QED
  BY <1>1, EntryKinds DEF Hop

LEMMA ChainOfLinks ==
  ASSUME NEW files \in [Path -> Entry], NEW p \in Path
  PROVE  /\ After(files, p) \in [0..MaxHops -> Path]
         /\ After(files, p)[0] = p
         /\ \A n \in 1..MaxHops :
              After(files, p)[n] = Hop(files, After(files, p)[n - 1])
<1> DEFINE N == MaxHops
           step == [n \in 1..N |-> [q \in Path |-> Hop(files, q)]]
           Loop(f) == f = [n \in 0..N |-> IF n = 0 THEN p ELSE Hop(files, f[n - 1])]
           g == After(files, p)
<1>1. N \in Nat
  BY MpiAssumption
<1>2. step \in [1..N -> [Path -> Path]]
  BY HopStays
<1>3. PICK f : Iterates(f, N, Path, p, step)
  <2> HIDE DEF step, N
  <2> QED
    BY <1>1, <1>2, LoopExists
<1>4. Loop(f)
  <2>1. \A n \in 1..N : f[n - 1] \in Path
    BY <1>1, <1>3 DEF Iterates
  <2>2. \A n \in 1..N : f[n] = Hop(files, f[n - 1])
    BY <1>3, <2>1 DEF Iterates
  <2> QED
    BY <1>1, <1>3, <2>2 DEF Iterates
<1>5. Loop(g)
  <2>1. g = CHOOSE h : Loop(h)
    BY DEF After
  <2> HIDE DEF Loop, g
  <2> QED
    BY <1>4, <2>1
<1> HIDE DEF g
<1>6. /\ g = [n \in 0..N |-> g[n]] /\ g[0] = p
      /\ \A n \in 1..N : g[n] = Hop(files, g[n - 1])
  <2>1. 0 \in 0..N /\ \A n \in 1..N : n \in 0..N /\ n # 0
    BY <1>1
  <2> QED
    BY <1>5, <2>1
<1>7. \A n \in 1..N : g[n - 1] \in Path => g[n] = step[n][g[n - 1]]
  BY <1>6
<1>8. Iterates(g, N, Path, p, step)
  <2> HIDE DEF step, N, Loop
  <2> QED
    BY <1>1, <1>2, <1>6, <1>7, LoopValues
<1> QED
  BY <1>6, <1>8 DEF Iterates, g

LEMMA RealPathIsPath ==
  ASSUME NEW files \in [Path -> Entry], NEW p \in Path
  PROVE  /\ RealPath(files, p) \in Path
         /\ Content(files, p) \in Entry
         /\ Chain(files, p) \subseteq Path
         /\ p \in Chain(files, p)
<1>1. MaxHops \in 0..MaxHops /\ 0 \in 0..MaxHops
  BY MpiAssumption
<1> QED
  BY <1>1, ChainOfLinks DEF RealPath, Content, Chain

LEMMA HopsBound == MaxHops \in Nat /\ MaxHops - 1 \in Nat /\ MaxHops \in 0..MaxHops
                   /\ MaxHops - 1 \in 0..MaxHops /\ 0 \in 0..MaxHops
BY MpiAssumption

(* A chain does not go on from what is no link.                            *)
LEMMA ChainEnds ==
  ASSUME NEW files \in [Path -> Entry], NEW p \in Path, NEW k \in 0..MaxHops,
         files[After(files, p)[k]].is # "link"
  PROVE  \A n \in k..MaxHops : After(files, p)[n] = After(files, p)[k]
<1> DEFINE g == After(files, p)
           S == {n \in 0..MaxHops : n >= k => g[n] = g[k]}
<1>1. \A n \in 1..MaxHops : g[n] = Hop(files, g[n - 1])
  BY ChainOfLinks
<1> HIDE DEF g
<1>2. 0 \in S
  BY HopsBound
<1>3. ASSUME NEW n \in 1..MaxHops, n - 1 \in S
      PROVE  n \in S
  <2>1. CASE n - 1 >= k
    <3>1. g[n - 1] = g[k]
      BY <1>3, <2>1
    <3>2. g[n] = g[k]
      BY <1>1, <3>1 DEF Hop, g
    <3> QED
      BY <3>2
  <2>2. CASE ~(n - 1 >= k)
    BY <2>2
  <2> QED
    BY <2>1, <2>2
<1>4. 0..MaxHops \subseteq S
  <2> HIDE DEF S
  <2> QED
    BY <1>2, <1>3, HopsBound, SetInductionUpTo
<1>5. \A n \in k..MaxHops : n \in S /\ n >= k
  BY <1>4
<1> QED
  BY <1>5 DEF g

(* The paths on a chain that ends lead to its end.                         *)
LEMMA OnChain ==
  ASSUME NEW files \in [Path -> Entry], NEW p \in Path,
         Content(files, p).is # "link", NEW q \in Chain(files, p)
  PROVE  RealPath(files, q) = RealPath(files, p)
<1> DEFINE g == After(files, p)
           h == After(files, q)
<1>1. PICK k \in 0..MaxHops : q = g[k]
  BY DEF Chain
<1>2. q \in Path
  BY <1>1, ChainOfLinks
<1>3. /\ g[k] = h[0]
      /\ \A n \in 1..MaxHops : g[n] = Hop(files, g[n - 1]) /\ h[n] = Hop(files, h[n - 1])
  BY <1>1, <1>2, ChainOfLinks
<1> DEFINE S == {n \in 0..MaxHops : n + k <= MaxHops => h[n] = g[n + k]}
<1> HIDE DEF g, h
<1>4. 0 \in S
  BY <1>3, HopsBound
<1>5. ASSUME NEW n \in 1..MaxHops, n - 1 \in S
      PROVE  n \in S
  <2> SUFFICES ASSUME n + k <= MaxHops
               PROVE  h[n] = g[n + k]
    OBVIOUS
  <2>1. (n - 1) + k = (n + k) - 1 /\ n + k \in 1..MaxHops
    BY HopsBound
  <2>2. h[n - 1] = g[(n + k) - 1]
    BY <1>5, <2>1, HopsBound
  <2> QED
    BY <1>3, <2>1, <2>2
<1>6. 0..MaxHops \subseteq S
  <2> HIDE DEF S
  <2> QED
    BY <1>4, <1>5, HopsBound, SetInductionUpTo
<1>7. MaxHops - k \in 0..MaxHops /\ (MaxHops - k) + k = MaxHops
  BY HopsBound
<1>8. h[MaxHops - k] = g[MaxHops]
  BY <1>6, <1>7, HopsBound
<1>9. h[MaxHops] = h[MaxHops - k]
  <2>1. files[h[MaxHops - k]].is # "link"
    BY <1>8 DEF g, Content, RealPath
  <2>2. MaxHops \in (MaxHops - k)..MaxHops
    BY HopsBound
  <2> QED
    BY <1>2, <1>7, <2>1, <2>2, ChainEnds DEF h
<1> QED
  BY <1>8, <1>9 DEF RealPath, g, h

(* A chain does not change by what is written elsewhere.                   *)
LEMMA OffChain ==
  ASSUME NEW files \in [Path -> Entry], NEW p \in Path, NEW q \in Path,
         NEW e \in Entry, q \notin Chain(files, p),
         NEW files2, Written(files, q, e, files2)
  PROVE  /\ \A n \in 0..MaxHops : After(files2, p)[n] = After(files, p)[n]
         /\ Chain(files2, p) = Chain(files, p)
         /\ RealPath(files2, p) = RealPath(files, p)
         /\ Content(files2, p) = Content(files, p)
<1> DEFINE g == After(files, p)
           h == After(files2, p)
           S == {n \in 0..MaxHops : h[n] = g[n]}
<1>1. files2 \in [Path -> Entry] /\ \A r \in Path : r # q => files2[r] = files[r]
  BY DEF Written
<1>2. /\ g[0] = p /\ h[0] = p /\ g \in [0..MaxHops -> Path]
      /\ \A n \in 1..MaxHops : g[n] = Hop(files, g[n - 1]) /\ h[n] = Hop(files2, h[n - 1])
  BY <1>1, ChainOfLinks
<1>3. \A n \in 0..MaxHops : g[n] # q
  BY DEF Chain
<1> HIDE DEF g, h
<1>4. 0 \in S
  BY <1>2, HopsBound
<1>5. ASSUME NEW n \in 1..MaxHops, n - 1 \in S
      PROVE  n \in S
  <2>1. h[n - 1] = g[n - 1] /\ g[n - 1] # q /\ g[n - 1] \in Path
    BY <1>2, <1>3, <1>5
  <2>2. Hop(files2, g[n - 1]) = Hop(files, g[n - 1])
    BY <1>1, <2>1 DEF Hop
  <2>3. h[n] = g[n]
    BY <1>2, <2>1, <2>2
  <2> QED
    BY <2>3
<1>6. 0..MaxHops \subseteq S
  <2> HIDE DEF S
  <2> QED
    BY <1>4, <1>5, HopsBound, SetInductionUpTo
<1>7. \A n \in 0..MaxHops : h[n] = g[n]
  BY <1>6
<1>8. Chain(files2, p) = Chain(files, p) /\ RealPath(files2, p) = RealPath(files, p)
  BY <1>7, HopsBound DEF Chain, RealPath, g, h
<1>9. RealPath(files, p) # q /\ RealPath(files, p) \in Path
  BY <1>2, <1>3, HopsBound DEF RealPath, g
<1> QED
  BY <1>1, <1>7, <1>8, <1>9 DEF Content, g, h

(* A mount follows the chain to its end, and the chain leads to it.        *)
LEMMA MountedAtEnd ==
  ASSUME NEW files \in [Path -> Entry], NEW p \in Path,
         NEW e \in Entry, e.is # "link",
         NEW real, real = RealPath(files, p),
         NEW files2, Written(files, real, e, files2)
  PROVE  /\ RealPath(files2, p) = real /\ Content(files2, p) = e
         /\ \A n \in 0..MaxHops :
              After(files2, p)[n] = After(files, p)[n] \/ After(files2, p)[n] = real
<1> DEFINE g == After(files, p)
           h == After(files2, p)
           S == {n \in 0..MaxHops : h[n] = g[n] \/ h[n] = real}
<1>1. real \in Path
  BY RealPathIsPath
<1>2. /\ files2 \in [Path -> Entry] /\ files2[real] = e
      /\ \A r \in Path : r # real => files2[r] = files[r]
  BY <1>1 DEF Written
<1>3. /\ g[0] = p /\ h[0] = p /\ g \in [0..MaxHops -> Path]
      /\ \A n \in 1..MaxHops : g[n] = Hop(files, g[n - 1]) /\ h[n] = Hop(files2, h[n - 1])
  BY <1>2, ChainOfLinks
<1>4. real = g[MaxHops]
  BY DEF RealPath
<1> HIDE DEF g, h
<1>5. 0 \in S
  BY <1>3, HopsBound
<1>6. ASSUME NEW n \in 1..MaxHops, n - 1 \in S
      PROVE  n \in S
  <2>1. CASE h[n - 1] = real
    <3>1. h[n] = real
      BY <1>2, <1>3, <2>1 DEF Hop
    <3> QED
      BY <3>1
  <2>2. CASE h[n - 1] = g[n - 1] /\ h[n - 1] # real
    <3>1. g[n - 1] \in Path
      BY <1>3, HopsBound
    <3>2. h[n] = g[n]
      BY <1>2, <1>3, <2>2, <3>1 DEF Hop
    <3> QED
      BY <3>2
  <2> QED
    BY <1>6, <2>1, <2>2
<1>7. 0..MaxHops \subseteq S
  <2> HIDE DEF S
  <2> QED
    BY <1>5, <1>6, HopsBound, SetInductionUpTo
<1>8. h[MaxHops] = real
  BY <1>4, <1>7, HopsBound
<1> QED
  BY <1>2, <1>7, <1>8 DEF RealPath, Content, g, h

(* Under a new link: what leads to its target, if the chain has room.      *)
LEMMA LinkLeadsToTarget ==
  ASSUME NEW files \in [Path -> Entry], NEW link \in Path, NEW target \in Path,
         link \notin Chain(files, target),
         files[After(files, target)[MaxHops - 1]].is # "link",
         NEW files2, Written(files, link, Link(target), files2)
  PROVE  RealPath(files2, link) = RealPath(files, target)
<1> DEFINE g == After(files2, target)
           h == After(files2, link)
           S == {n \in 0..(MaxHops - 1) : h[n + 1] = g[n]}
<1>1. Link(target) \in Entry /\ Link(target).is = "link" /\ Link(target).to = target
  BY LinkIsEntry
<1>2. files2 \in [Path -> Entry] /\ files2[link] = Link(target)
  BY DEF Written
<1>3. \A n \in 0..MaxHops : g[n] = After(files, target)[n]
  BY <1>1, OffChain
<1>4. /\ g[0] = target /\ h[0] = link
      /\ \A n \in 1..MaxHops : g[n] = Hop(files2, g[n - 1]) /\ h[n] = Hop(files2, h[n - 1])
  BY <1>2, ChainOfLinks
<1> HIDE DEF g, h
<1>5. 0 \in S
  <2>1. 1 \in 1..MaxHops /\ 0 \in 0..(MaxHops - 1)
    BY HopsBound
  <2>2. h[1] = Hop(files2, h[0])
    BY <1>4, <2>1
  <2> QED
    BY <1>1, <1>2, <1>4, <2>1, <2>2 DEF Hop
<1>6. ASSUME NEW n \in 1..(MaxHops - 1), n - 1 \in S
      PROVE  n \in S
  <2>1. n \in 1..MaxHops /\ n + 1 \in 1..MaxHops /\ (n + 1) - 1 = n /\ (n - 1) + 1 = n
    BY HopsBound
  <2>2. h[n] = g[n - 1] /\ h[n + 1] = Hop(files2, h[n]) /\ g[n] = Hop(files2, g[n - 1])
    BY <1>4, <1>6, <2>1
  <2> QED
    BY <2>2
<1>7. 0..(MaxHops - 1) \subseteq S
  <2> HIDE DEF S
  <2> QED
    BY <1>5, <1>6, HopsBound, SetInductionUpTo
<1>8. h[MaxHops] = g[MaxHops - 1]
  <2>1. MaxHops - 1 \in 0..(MaxHops - 1) /\ (MaxHops - 1) + 1 = MaxHops
    BY HopsBound
  <2> QED
    BY <1>7, <2>1
<1>9. After(files, target)[MaxHops] = After(files, target)[MaxHops - 1]
  <2>1. MaxHops \in (MaxHops - 1)..MaxHops
    BY HopsBound
  <2> QED
    BY <2>1, HopsBound, ChainEnds
<1> QED
  BY <1>3, <1>8, <1>9, HopsBound DEF RealPath, h

(* Under links that keep names, all paths of a chain have one name.        *)
LEMMA OneNameOnChain ==
  ASSUME NEW files \in [Path -> Entry], LinksKeepNames(files), NEW p \in Path
  PROVE  /\ \A q \in Chain(files, p) : q.name = p.name
         /\ RealPath(files, p).name = p.name
<1> DEFINE g == After(files, p)
           S == {n \in 0..MaxHops : g[n].name = p.name}
<1>1. /\ g[0] = p /\ g \in [0..MaxHops -> Path]
      /\ \A n \in 1..MaxHops : g[n] = Hop(files, g[n - 1])
  BY ChainOfLinks
<1> HIDE DEF g
<1>2. 0 \in S
  BY <1>1, HopsBound
<1>3. ASSUME NEW n \in 1..MaxHops, n - 1 \in S
      PROVE  n \in S
  <2>1. g[n - 1] \in Path /\ g[n - 1].name = p.name
    BY <1>1, <1>3
  <2>2. g[n].name = p.name
    BY <1>1, <2>1 DEF Hop, LinksKeepNames
  <2> QED
    BY <2>2
<1>4. 0..MaxHops \subseteq S
  <2> HIDE DEF S
  <2> QED
    BY <1>2, <1>3, HopsBound, SetInductionUpTo
<1> QED
  BY <1>4, HopsBound DEF Chain, RealPath, g

-----------------------------------------------------------------------------
(* Types.                                                                  *)

\* What ldconfig lists, and what createSymlinks... goes through.
Collected == {ContainerLib(files, p) : files \in [Path -> Entry], p \in Path}
LinkToMake == [link : Path, target : Path, keep : BOOLEAN]
ToInject == [lib : HostLibrary, checker : CheckerTypes]

Types ==
  /\ conf \in [mpi : MpiLibs, deps : DepLibs, checker : CheckerTypes,
               allowed : SUBSET Dirs]
  /\ fs \in [Path -> Entry] /\ mountPoints \in SUBSET Path
  /\ hostToContainerLibs \in [Names -> Seq(Collected)]
  /\ \A n \in Names : \A c \in Elems(hostToContainerLibs[n]) : c.name = n
  /\ todo \in Seq(ToInject)
  /\ \A i \in DOMAIN todo : todo[i].lib \in HostLibs
  /\ links \in Seq(LinkToMake)
  /\ pc \in {"construct", "check", "inject", "link", "ldconfig", "end"}
  /\ status \in {"running", "refused", "failed", "terminated", "done"}
  /\ pc = "end" <=> status # "running"

LEMMA PathsAreFinite == IsFiniteSet(Path)
<1> DEFINE S == Dirs \X (Names \X Versions)
           f == [t \in S |-> In(t[1], t[2][1], t[2][2])]
<1>1. IsFiniteSet(S)
  BY MpiAssumption, FS_Product
<1>2. f \in [S -> Path]
  BY DEF Path, In
<1>3. ASSUME NEW p \in Path
      PROVE  \E t \in S : f[t] = p
  <2>1. <<p.dir, <<p.name, p.ver>>>> \in S
    BY DEF Path
  <2>2. f[<<p.dir, <<p.name, p.ver>>>>] = p
    BY <2>1 DEF Path, In
  <2> QED
    BY <2>1, <2>2
<1>4. f \in Surjection(S, Path)
  BY <1>2, <1>3 DEF Surjection
<1> QED
  BY <1>1, <1>4, FS_Surjection

LEMMA ContainerLibFields ==
  ASSUME NEW files, NEW p
  PROVE  ContainerLib(files, p).path = p /\ ContainerLib(files, p).name = p.name
BY DEF ContainerLib, SharedLib

LEMMA CollectedPaths ==
  ASSUME NEW c \in Collected
  PROVE  c.path \in Path /\ c.name = c.path.name
BY ContainerLibFields DEF Collected

LEMMA ListingType ==
  ASSUME fs \in [Path -> Entry], NEW n \in Names, NEW l \in Listings(n)
  PROVE  /\ l \in Seq(Collected)
         /\ \A c \in Elems(l) : /\ c.name = n /\ c.path \in Path /\ c.path.name = n
                                /\ Resolves(fs, c.path)
                                /\ c = ContainerLib(fs, c.path)
<1> DEFINE S == {p \in Path : p.name = n /\ Resolves(fs, p)}
<1>1. PICK order \in SetToSeqs(S) : l = [i \in DOMAIN order |-> ContainerLib(fs, order[i])]
  BY DEF Listings
<1>2. Cardinality(S) \in Nat
  <2>1. IsFiniteSet(S)
    BY PathsAreFinite, FS_Subset
  <2> QED
    BY <2>1, FS_CardinalityType
<1>3. order \in [1..Cardinality(S) -> S]
  BY <1>1 DEF SetToSeqs
<1>4. ASSUME NEW i \in 1..Cardinality(S)
      PROVE  /\ l[i] = ContainerLib(fs, order[i]) /\ l[i] \in Collected
             /\ l[i].path = order[i] /\ l[i].name = n
  <2>1. order[i] \in Path /\ order[i].name = n
    BY <1>3
  <2>2. l[i] = ContainerLib(fs, order[i])
    BY <1>1, <1>3
  <2>3. l[i] \in Collected
    BY <2>1, <2>2 DEF Collected
  <2> QED
    BY <2>1, <2>2, <2>3, ContainerLibFields
<1>5. l \in [1..Cardinality(S) -> Collected]
  BY <1>1, <1>3, <1>4
<1>6. l \in Seq(Collected)
  <2> DEFINE K == Cardinality(S)
  <2>1. K \in Nat /\ l \in [1..K -> Collected]
    BY <1>2, <1>5
  <2> HIDE DEF K
  <2> QED
    BY <2>1
<1>7. ASSUME NEW c \in Elems(l)
      PROVE  /\ c.name = n /\ c.path \in Path /\ c.path.name = n
             /\ Resolves(fs, c.path) /\ c = ContainerLib(fs, c.path)
  <2>1. PICK i \in 1..Cardinality(S) : c = l[i]
    BY <1>5 DEF Elems
  <2>2. order[i] \in S
    BY <1>3
  <2> QED
    BY <1>4, <2>1, <2>2
<1> QED
  BY <1>6, <1>7

LEMMA HostLibsTyped ==
  ASSUME Types
  PROVE  /\ conf.mpi \in Seq(HostLibrary) /\ conf.deps \in Seq(HostLibrary)
         /\ HostLibs \subseteq HostLibrary
<1>1. conf.mpi \in MpiLibs /\ conf.deps \in DepLibs
  BY DEF Types
<1>2. conf.mpi \in Seq(HostLibrary) /\ conf.deps \in Seq(HostLibrary)
  BY <1>1, InputsAssumption
<1> QED
  BY <1>2 DEF HostLibs, HostMpiLibs, Elems

LEMMA HostLibraryFields ==
  ASSUME NEW h \in HostLibrary
  PROVE  /\ h.name \in Names /\ h.file \in Versions /\ h.ver \in Versions
         /\ h.file \in Seq(Nat) /\ Len(h.file) \in Nat
         /\ \A n \in 0..Len(h.file) : SubSeq(h.file, 1, n) \in Versions
BY MpiAssumption DEF HostLibrary

LEMMA BestIsCandidate ==
  ASSUME Types, NEW h \in HostLibrary, Candidates(h) # <<>>
  PROVE  /\ BestCandidate(h) \in Elems(Candidates(h))
         /\ BestCandidate(h).path \in Path /\ BestCandidate(h).path.name = h.name
<1>1. h.name \in Names
  BY HostLibraryFields
<1>2. Candidates(h) \in Seq(Collected)
  BY <1>1 DEF Types, Candidates
<1>3. BestCandidate(h) \in Elems(Candidates(h))
  BY <1>2, PickIsListed DEF BestCandidate, Listed, Elems
<1>4. BestCandidate(h) \in Collected /\ BestCandidate(h).name = h.name
  BY <1>1, <1>2, <1>3 DEF Elems, Types, Candidates
<1> QED
  BY <1>3, <1>4, CollectedPaths

(* The links to make: one in each directory for each prefix of the version *)
(* in the file's name, to one target.                                      *)
LinksOfDir(part, dir, h, target, preserve) ==
  /\ part \in Seq(LinkToMake)
  /\ \A l \in Elems(part) : \E n \in 0..Len(h.file) :
       /\ l.link = In(dir, h.name, SubSeq(h.file, 1, n))
       /\ l.target = target
       /\ l.keep <=> preserve /\ SubSeq(h.file, 1, n) = <<>>
  /\ dir \in conf.allowed =>
       \A n \in 0..Len(h.file) : \E l \in Elems(part) :
         l.link = In(dir, h.name, SubSeq(h.file, 1, n))

LEMMA LinksInType ==
  ASSUME NEW dir \in Dirs, NEW h \in HostLibrary, NEW target \in Path,
         NEW preserve \in BOOLEAN
  PROVE  LinksOfDir(LinksIn(dir, h, target, preserve), dir, h, target, preserve)
<1> DEFINE N == Len(h.file) + 1
           L == LinksIn(dir, h, target, preserve)
           ver(i) == SubSeq(h.file, 1, i - 1)
           item(i) == [link |-> In(dir, h.name, ver(i)), target |-> target,
                       keep |-> ver(i) = <<>> /\ preserve]
<1>1. N \in Nat /\ h.name \in Names /\ \A i \in 1..N : i - 1 \in 0..Len(h.file)
  BY HostLibraryFields
<1>2. \A i \in 1..N : ver(i) \in Versions
  BY <1>1, HostLibraryFields
<1>3. DOMAIN LinkNames(h) = 1..N /\ \A i \in 1..N : LinkNames(h)[i] = ver(i)
  BY DEF LinkNames
<1>4. ASSUME NEW i \in 1..N
      PROVE  item(i) \in LinkToMake
  BY <1>1, <1>2 DEF LinkToMake, Path, In
<1>5. CASE dir \notin conf.allowed
  <2>1. L = <<>>
    BY <1>5 DEF LinksIn
  <2>2. L \in Seq(LinkToMake) /\ Elems(L) = {}
    BY <2>1 DEF Elems
  <2> QED
    BY <1>5, <2>2 DEF LinksOfDir
<1>6. CASE dir \in conf.allowed
  <2>1. L = [i \in 1..N |-> item(i)]
    BY <1>3, <1>6 DEF LinksIn
  <2>2. L \in Seq(LinkToMake)
    <3>1. L \in [1..N -> LinkToMake]
      <4> HIDE DEF item, N, L
      <4> QED
        BY <1>4, <2>1
    <3> QED
      BY <1>1, <3>1
  <2>3. \A i \in 1..N : L[i] = item(i) /\ L[i] \in Elems(L)
    BY <2>1 DEF Elems
  <2>4. \A l \in Elems(L) : \E i \in 1..N : l = item(i)
    BY <2>1 DEF Elems
  <2>5. \A n \in 0..Len(h.file) : n + 1 \in 1..N /\ (n + 1) - 1 = n
    BY <1>1, HostLibraryFields
  <2>6. ASSUME NEW l \in Elems(L)
        PROVE  \E n \in 0..Len(h.file) :
                 /\ l.link = In(dir, h.name, SubSeq(h.file, 1, n))
                 /\ l.target = target
                 /\ l.keep <=> preserve /\ SubSeq(h.file, 1, n) = <<>>
    <3>1. PICK i \in 1..N : l = item(i)
      BY <2>4
    <3>2. i - 1 \in 0..Len(h.file)
      BY <1>1
    <3> QED
      BY <3>1, <3>2
  <2>7. ASSUME NEW n \in 0..Len(h.file)
        PROVE  \E l \in Elems(L) : l.link = In(dir, h.name, SubSeq(h.file, 1, n))
    <3>1. L[n + 1] = item(n + 1) /\ L[n + 1] \in Elems(L) /\ (n + 1) - 1 = n
      BY <2>3, <2>5
    <3> QED
      BY <3>1
  <2> QED
    BY <2>2, <2>6, <2>7 DEF LinksOfDir
<1> QED
  BY <1>5, <1>6

LEMMA ElemsOfConcat ==
  ASSUME NEW X, NEW s \in Seq(X), NEW t \in Seq(X)
  PROVE  s \o t \in Seq(X) /\ Elems(s \o t) = Elems(s) \cup Elems(t)
<1>1. s \o t \in Seq(X) /\ Len(s \o t) = Len(s) + Len(t) /\ Len(s) \in Nat /\ Len(t) \in Nat
  OBVIOUS
<1>2. \A i \in 1..Len(s) : i \in 1..Len(s \o t) /\ (s \o t)[i] = s[i]
  BY <1>1
<1>3. \A i \in 1..Len(t) : i + Len(s) \in 1..Len(s \o t) /\ (s \o t)[i + Len(s)] = t[i]
  BY <1>1
<1>4. \A i \in 1..Len(s \o t) :
        i \in 1..Len(s) \/ (i - Len(s) \in 1..Len(t) /\ (i - Len(s)) + Len(s) = i)
  BY <1>1
<1>5. Elems(s) \subseteq Elems(s \o t)
  BY <1>2 DEF Elems
<1>6. Elems(t) \subseteq Elems(s \o t)
  <2>1. Elems(t) = {t[i] : i \in 1..Len(t)}
    BY DEF Elems
  <2> SUFFICES ASSUME NEW i \in 1..Len(t)
               PROVE  t[i] \in Elems(s \o t)
    BY <2>1
  <2>2. i + Len(s) \in DOMAIN (s \o t) /\ (s \o t)[i + Len(s)] = t[i]
    BY <1>1, <1>3
  <2> QED
    BY <2>2 DEF Elems
<1>7. Elems(s \o t) \subseteq Elems(s) \cup Elems(t)
  <2> SUFFICES ASSUME NEW i \in 1..Len(s \o t)
               PROVE  (s \o t)[i] \in Elems(s) \cup Elems(t)
    BY <1>1 DEF Elems
  <2>1. CASE i \in 1..Len(s)
    BY <1>2, <2>1 DEF Elems
  <2>2. CASE i \notin 1..Len(s)
    <3>1. i - Len(s) \in 1..Len(t) /\ (s \o t)[i] = t[i - Len(s)]
      BY <1>3, <1>4, <2>2
    <3> QED
      BY <3>1 DEF Elems
  <2> QED
    BY <2>1, <2>2
<1> QED
  BY <1>1, <1>5, <1>6, <1>7

\* The links made is for, when files is what the container holds.
LinksOf(made, files, h, target, preserve) ==
  /\ made \in Seq(LinkToMake)
  /\ \A l \in Elems(made) :
       \E dir \in {"lib", "lib64"}, n \in 0..Len(h.file) :
         /\ l.link = In(dir, h.name, SubSeq(h.file, 1, n))
         /\ l.target = target
         /\ l.keep <=> /\ preserve /\ RootLinkExists(files, h)
                        /\ SubSeq(h.file, 1, n) = <<>>
  /\ \A dir \in {"lib", "lib64"} \cap conf.allowed, n \in 0..Len(h.file) :
       \E l \in Elems(made) : l.link = In(dir, h.name, SubSeq(h.file, 1, n))

LEMMA LinksForType ==
  ASSUME NEW files, NEW h \in HostLibrary, NEW target \in Path,
         NEW preserve \in BOOLEAN
  PROVE  LinksOf(LinksFor(files, h, target, preserve), files, h, target, preserve)
<1> DEFINE keeps == preserve /\ RootLinkExists(files, h)
           lib == LinksIn("lib", h, target, keeps)
           lib64 == LinksIn("lib64", h, target, keeps)
           made == LinksFor(files, h, target, preserve)
<1>1. keeps \in BOOLEAN /\ (keeps <=> preserve /\ RootLinkExists(files, h))
  BY DEF RootLinkExists
<1>2. made = lib \o lib64
  BY DEF LinksFor
<1>3. "lib" \in Dirs /\ "lib64" \in Dirs
  BY MpiAssumption
<1> HIDE DEF keeps
<1>4. ASSUME NEW dir \in {"lib", "lib64"}
      PROVE  LinksOfDir(LinksIn(dir, h, target, keeps), dir, h, target, keeps)
  <2>1. dir \in Dirs
    BY <1>3
  <2>2. keeps \in BOOLEAN
    BY <1>1
  <2> HIDE DEF lib, lib64, made
  <2> QED
    BY <2>1, <2>2, LinksInType
<1>5. lib \in Seq(LinkToMake) /\ lib64 \in Seq(LinkToMake)
  BY <1>4 DEF LinksOfDir
<1> HIDE DEF made
<1>6. made \in Seq(LinkToMake) /\ Elems(made) = Elems(lib) \cup Elems(lib64)
  BY <1>2, <1>5, ElemsOfConcat
<1>7. ASSUME NEW l \in Elems(made)
      PROVE  \E dir \in {"lib", "lib64"}, n \in 0..Len(h.file) :
               /\ l.link = In(dir, h.name, SubSeq(h.file, 1, n))
               /\ l.target = target
               /\ l.keep <=> keeps /\ SubSeq(h.file, 1, n) = <<>>
  <2>1. CASE l \in Elems(lib)
    BY <1>1, <1>4, <2>1 DEF LinksOfDir
  <2>2. CASE l \in Elems(lib64)
    BY <1>1, <1>4, <2>2 DEF LinksOfDir
  <2> QED
    BY <1>6, <2>1, <2>2
<1>8. ASSUME NEW dir \in {"lib", "lib64"} \cap conf.allowed, NEW n \in 0..Len(h.file)
      PROVE  \E l \in Elems(made) : l.link = In(dir, h.name, SubSeq(h.file, 1, n))
  BY <1>4, <1>6 DEF LinksOfDir
<1> QED
  BY <1>1, <1>6, <1>7, <1>8 DEF made, LinksOf

LEMMA ElemsTyped ==
  ASSUME NEW X, NEW s \in Seq(X), NEW x \in Elems(s)
  PROVE  x \in X
BY DEF Elems

(* The parts of a sequence.                                                *)
LEMMA HeadAndTail ==
  ASSUME NEW X, NEW s \in Seq(X), s # <<>>
  PROVE  /\ Head(s) \in X /\ Tail(s) \in Seq(X)
         /\ Head(s) = s[1] /\ 1 \in DOMAIN s
         /\ Len(Tail(s)) = Len(s) - 1 /\ Len(s) \in Nat
         /\ DOMAIN s = 1..Len(s) /\ DOMAIN Tail(s) = 1..(Len(s) - 1)
         /\ \A i \in DOMAIN Tail(s) : i + 1 \in DOMAIN s /\ Tail(s)[i] = s[i + 1]
         /\ Elems(Tail(s)) \subseteq Elems(s)
         /\ Elems(s) = {Head(s)} \cup Elems(Tail(s))
<1>1. /\ Head(s) \in X /\ Tail(s) \in Seq(X) /\ Head(s) = s[1] /\ 1 \in DOMAIN s
      /\ Len(Tail(s)) = Len(s) - 1 /\ Len(s) \in Nat
      /\ DOMAIN s = 1..Len(s) /\ DOMAIN Tail(s) = 1..(Len(s) - 1)
  OBVIOUS
<1>2. \A i \in DOMAIN Tail(s) : i + 1 \in DOMAIN s /\ Tail(s)[i] = s[i + 1]
  BY <1>1
<1>3. Elems(Tail(s)) \subseteq Elems(s)
  BY <1>2 DEF Elems
<1>4. \A i \in DOMAIN s : i = 1 \/ (i - 1 \in DOMAIN Tail(s) /\ (i - 1) + 1 = i)
  BY <1>1
<1>5. Elems(s) \subseteq {Head(s)} \cup Elems(Tail(s))
  BY <1>1, <1>2, <1>4 DEF Elems
<1>6. Head(s) \in Elems(s)
  BY <1>1 DEF Elems
<1>7. Elems(s) = {Head(s)} \cup Elems(Tail(s))
  BY <1>3, <1>5, <1>6
<1> QED
  BY <1>1, <1>2, <1>3, <1>7

-----------------------------------------------------------------------------
(* The two outcomes of injectHostLibrary.                                  *)

Injected(h, type, dest, preserve) ==
  /\ pc = "inject" /\ todo # <<>> /\ h = Head(todo).lib /\ type = Head(todo).checker
  /\ BindMount(h, dest, preserve)
  /\ UNCHANGED <<conf, hostToContainerLibs, status>>
  /\ \/ Candidates(h) = <<>> /\ dest = InLib(h)
     \/ /\ Candidates(h) # <<>> /\ Verdict(h, type) = "yes"
        /\ dest = BestCandidate(h).path
        /\ HasIncompatibleVersion(h) => preserve
     \/ /\ Candidates(h) # <<>> /\ dest = InLib(h)
        /\ HasIncompatibleVersion(h) => preserve
  /\ RootLinkIsFree(h) => ~preserve

RefusedLate(h, type) ==
  /\ pc = "inject" /\ todo # <<>> /\ h = Head(todo).lib /\ type = Head(todo).checker
  /\ Candidates(h) # <<>> /\ Verdict(h, type) = "throw" /\ Stop("refused")
  /\ UNCHANGED <<conf, fs, mountPoints, hostToContainerLibs, links, todo>>

LEMMA VerdictOnMajor ==
  ASSUME NEW h, NEW type \in CheckerTypes,
         AreMajorAbiCompatible(HostLib(h), BestCandidate(h))
  PROVE  Verdict(h, type) # "no"
<1> DEFINE host == HostLib(h)
           best == BestCandidate(h)
<1>1. MajorCheck(host, best) # "no" /\ StrictCheck(host, best) # "no"
  BY DEF MajorCheck, StrictCheck
<1>2. FullCheck(host, best) # "no" /\ FullCheck(host, best) # "throw"
  BY DEF FullCheck
<1>3. DependenciesCheck(host, best) # "no"
  BY <1>2 DEF DependenciesCheck
<1> QED
  BY <1>1, <1>2, <1>3 DEF Verdict, Check, CheckerTypes

LEMMA InjectSteps ==
  ASSUME Types, NEW h \in HostLibs, NEW type \in CheckerTypes,
         InjectNew(h, type) \/ InjectExisting(h, type)
  PROVE  \/ RefusedLate(h, type)
         \/ \E dest \in Path, preserve \in BOOLEAN :
              dest.name = h.name /\ Injected(h, type, dest, preserve)
<1>1. h \in HostLibrary
  BY HostLibsTyped
<1>2. InLib(h) \in Path /\ InLib(h).name = h.name
  BY <1>1, HostLibraryFields, MpiAssumption DEF InLib, In, Path
<1>3. CASE InjectNew(h, type)
  <2>1. Injected(h, type, InLib(h), FALSE)
    BY <1>3 DEF InjectNew, Injecting, Injected
  <2> QED
    BY <1>2, <2>1
<1>4. CASE InjectExisting(h, type)
  <2> DEFINE incompatible == HasIncompatibleVersion(h)
             no == Verdict(h, type) = "no"
  <2>1. Candidates(h) # <<>> /\ pc = "inject" /\ todo # <<>>
        /\ h = Head(todo).lib /\ type = Head(todo).checker
    BY <1>4 DEF InjectExisting, Injecting
  <2>2. incompatible \in BOOLEAN
    BY DEF HasIncompatibleVersion
  <2>3. CASE Verdict(h, type) = "throw" /\ Stop("refused")
             /\ UNCHANGED <<fs, mountPoints, links, todo>>
    BY <1>4, <2>1, <2>3 DEF InjectExisting, RefusedLate
  <2>4. CASE Verdict(h, type) = "yes" /\ BindMount(h, BestCandidate(h).path, incompatible)
             /\ UNCHANGED status
    <3>1. RootLinkIsFree(h) => ~incompatible
      BY <2>1 DEF RootLinkIsFree
    <3> HIDE DEF incompatible
    <3>2. Injected(h, type, BestCandidate(h).path, incompatible)
      <4>1. incompatible <=> HasIncompatibleVersion(h)
        BY DEF incompatible
      <4> QED
        BY <1>4, <2>1, <2>4, <3>1, <4>1 DEF InjectExisting, Injected
    <3> QED
      BY <1>1, <2>1, <2>2, <3>2, BestIsCandidate
  <2>5. CASE Verdict(h, type) \in {"no", "warn"} /\ BindMount(h, InLib(h), no \/ incompatible)
             /\ UNCHANGED status
    <3> DEFINE preserve == no \/ incompatible
    <3>1. RootLinkIsFree(h) => ~preserve
      BY <2>1, VerdictOnMajor DEF RootLinkIsFree
    <3>2. preserve \in BOOLEAN /\ (HasIncompatibleVersion(h) => preserve)
      OBVIOUS
    <3>3. BindMount(h, InLib(h), preserve)
      BY <2>5
    <3> HIDE DEF preserve
    <3>4. Injected(h, type, InLib(h), preserve)
      BY <1>4, <2>1, <2>5, <3>1, <3>2, <3>3 DEF InjectExisting, Injected
    <3> QED
      BY <1>2, <3>2, <3>4
  <2> QED
    BY <1>4, <2>3, <2>4, <2>5 DEF InjectExisting
<1> QED
  BY <1>3, <1>4

LEMMA BindMountEffect ==
  ASSUME Types, NEW h \in HostLibrary, NEW dest \in Path, NEW preserve \in BOOLEAN,
         todo # <<>>, BindMount(h, dest, preserve)
  PROVE  /\ RealPath(fs, dest) \in Path
         /\ File("host", h.ver) \in Entry /\ File("host", h.ver).is = "file"
         /\ fs' = [fs EXCEPT ![RealPath(fs, dest)] = File("host", h.ver)]
         /\ fs' \in [Path -> Entry]
         /\ mountPoints' = mountPoints \cup {RealPath(fs, dest)}
         /\ todo' = Tail(todo) /\ todo' \in Seq(ToInject)
         /\ \A i \in DOMAIN todo' : i + 1 \in DOMAIN todo /\ todo'[i] = todo[i + 1]
         /\ links' = LinksFor(fs', h, dest, preserve) /\ links' \in Seq(LinkToMake)
         /\ pc' = "link"
<1>1. fs \in [Path -> Entry] /\ todo \in Seq(ToInject)
  BY DEF Types
<1>2. RealPath(fs, dest) \in Path
  BY <1>1, RealPathIsPath
<1>3. File("host", h.ver) \in Entry /\ File("host", h.ver).is = "file"
  BY HostLibraryFields, FileIsEntry
<1>4. /\ fs' = [fs EXCEPT ![RealPath(fs, dest)] = File("host", h.ver)]
      /\ mountPoints' = mountPoints \cup {RealPath(fs, dest)}
      /\ todo' = Tail(todo) /\ links' = LinksFor(fs', h, dest, preserve) /\ pc' = "link"
  BY DEF BindMount
<1>5. fs' \in [Path -> Entry]
  BY <1>1, <1>2, <1>3, <1>4
<1>6. LinksFor(fs', h, dest, preserve) \in Seq(LinkToMake)
  BY LinksForType DEF LinksOf
<1>7. todo' \in Seq(ToInject)
      /\ \A i \in DOMAIN todo' : i + 1 \in DOMAIN todo /\ todo'[i] = todo[i + 1]
  BY <1>1, <1>4, HeadAndTail
<1> QED
  BY <1>2, <1>3, <1>4, <1>5, <1>6, <1>7

LEMMA LinkEffect ==
  ASSUME Types, links # <<>>
  PROVE  LET l == Head(links)
         IN  /\ l \in LinkToMake /\ l.link \in Path /\ l.target \in Path
             /\ [fs EXCEPT ![l.link] = Link(l.target)] \in [Path -> Entry]
             /\ Tail(links) \in Seq(LinkToMake)
             /\ Elems(links) = {l} \cup Elems(Tail(links))
<1>1. links \in Seq(LinkToMake) /\ fs \in [Path -> Entry]
  BY DEF Types
<1>2. /\ Head(links) \in LinkToMake /\ Tail(links) \in Seq(LinkToMake)
      /\ Elems(links) = {Head(links)} \cup Elems(Tail(links))
  BY <1>1, HeadAndTail
<1>3. Head(links).link \in Path /\ Head(links).target \in Path
  BY <1>2 DEF LinkToMake
<1> QED
  BY <1>1, <1>2, <1>3, LinkIsEntry

LEMMA LinkPaths ==
  ASSUME Types, NEW l \in Elems(links)
  PROVE  l.link \in Path /\ l.target \in Path
<1>1. links \in Seq(LinkToMake)
  BY DEF Types
<1>2. l \in LinkToMake
  BY <1>1, ElemsTyped
<1> QED
  BY <1>2 DEF LinkToMake

-----------------------------------------------------------------------------
(* Type correctness.                                                       *)

LEMMA InitTypes == Init => Types
<1> SUFFICES ASSUME Init
             PROVE  Types
  OBVIOUS
<1>1. fs \in [Path -> Entry] /\ conf.allowed \in SUBSET Dirs
  BY InputsAssumption DEF Init
<1>2. conf \in [mpi : MpiLibs, deps : DepLibs, checker : CheckerTypes,
                allowed : SUBSET Dirs]
  BY DEF Init
<1>3. hostToContainerLibs = [n \in Names |-> <<>>]
  BY DEF Init
<1>4. /\ hostToContainerLibs \in [Names -> Seq(Collected)]
      /\ \A n \in Names : Elems(hostToContainerLibs[n]) = {}
  BY <1>3 DEF Elems
<1>5. todo = <<>> /\ links = <<>> /\ mountPoints = {} /\ pc = "construct" /\ status = "running"
  BY DEF Init
<1>6. todo \in Seq(ToInject) /\ links \in Seq(LinkToMake) /\ DOMAIN todo = {}
  BY <1>5
<1> QED
  BY <1>1, <1>2, <1>4, <1>5, <1>6 DEF Types

LEMMA AcceptedTypes ==
  ASSUME Types
  PROVE  LET all == WithChecker(conf.mpi, conf.checker)
                    \o WithChecker(conf.deps, "dependencies")
             libs == conf.mpi \o conf.deps
         IN  /\ all \in Seq(ToInject) /\ DOMAIN all = DOMAIN libs
             /\ \A i \in DOMAIN all :
                  /\ all[i].lib = libs[i] /\ all[i].lib \in HostLibs
                  /\ \/ all[i].lib \in HostMpiLibs /\ all[i].checker = conf.checker
                     \/ all[i].checker = "dependencies"
             /\ \A h \in HostLibs : \E i \in DOMAIN all : all[i].lib = h
<1> DEFINE m == conf.mpi
           d == conf.deps
           wm == WithChecker(m, conf.checker)
           wd == WithChecker(d, "dependencies")
<1>1. m \in Seq(HostLibrary) /\ d \in Seq(HostLibrary)
  BY HostLibsTyped
<1>2. conf.checker \in CheckerTypes /\ "dependencies" \in CheckerTypes
  BY DEF Types, CheckerTypes
<1> HIDE DEF m, d
<1>3. /\ Len(m) \in Nat /\ DOMAIN m = 1..Len(m)
      /\ Len(d) \in Nat /\ DOMAIN d = 1..Len(d)
      /\ Len(m \o d) = Len(m) + Len(d) /\ DOMAIN (m \o d) = 1..(Len(m) + Len(d))
  BY <1>1
<1>4. wm \in [1..Len(m) -> ToInject] /\ wd \in [1..Len(d) -> ToInject]
  BY <1>1, <1>2, <1>3 DEF WithChecker, ToInject
<1>5. wm \in Seq(ToInject) /\ Len(wm) = Len(m) /\ wd \in Seq(ToInject) /\ Len(wd) = Len(d)
  BY <1>3, <1>4
<1>6. /\ \A i \in 1..Len(m) : wm[i].lib = m[i] /\ wm[i].checker = conf.checker
      /\ \A i \in 1..Len(d) : wd[i].lib = d[i] /\ wd[i].checker = "dependencies"
  BY <1>3 DEF WithChecker
<1> HIDE DEF wm, wd
<1> DEFINE all == wm \o wd
           libs == m \o d
<1>7. all \in Seq(ToInject) /\ DOMAIN all = 1..(Len(m) + Len(d)) /\ DOMAIN all = DOMAIN libs
  BY <1>3, <1>5
<1>8. ASSUME NEW i \in 1..Len(m)
      PROVE  /\ all[i].lib = libs[i] /\ all[i].lib = m[i] /\ all[i].lib \in HostMpiLibs
             /\ all[i].checker = conf.checker /\ i \in DOMAIN all
  <2>1. all[i] = wm[i] /\ libs[i] = m[i] /\ i \in DOMAIN all
    BY <1>1, <1>3, <1>5, <1>7
  <2>2. m[i] \in HostMpiLibs
    BY <1>3 DEF HostMpiLibs, Elems, m
  <2> QED
    BY <1>6, <2>1, <2>2
<1>9. ASSUME NEW i \in 1..Len(d)
      PROVE  /\ all[i + Len(m)].lib = libs[i + Len(m)] /\ all[i + Len(m)].lib = d[i]
             /\ all[i + Len(m)].lib \in Elems(conf.deps)
             /\ all[i + Len(m)].checker = "dependencies" /\ i + Len(m) \in DOMAIN all
  <2>1. all[i + Len(m)] = wd[i] /\ libs[i + Len(m)] = d[i] /\ i + Len(m) \in DOMAIN all
    BY <1>1, <1>3, <1>5, <1>7
  <2>2. d[i] \in Elems(conf.deps)
    BY <1>3 DEF Elems, d
  <2> QED
    BY <1>6, <2>1, <2>2
<1> HIDE DEF all, libs
<1>10. \A i \in DOMAIN all :
         i \in 1..Len(m) \/ (i - Len(m) \in 1..Len(d) /\ (i - Len(m)) + Len(m) = i)
  BY <1>3, <1>7
<1>11. ASSUME NEW i \in DOMAIN all
       PROVE  /\ all[i].lib = libs[i] /\ all[i].lib \in HostLibs
              /\ \/ all[i].lib \in HostMpiLibs /\ all[i].checker = conf.checker
                 \/ all[i].checker = "dependencies"
  <2>1. CASE i \in 1..Len(m)
    BY <1>8, <2>1 DEF HostLibs
  <2>2. CASE i - Len(m) \in 1..Len(d) /\ (i - Len(m)) + Len(m) = i
    <3>1. /\ all[i].lib = libs[i] /\ all[i].lib \in Elems(conf.deps)
          /\ all[i].checker = "dependencies"
      BY <1>9, <2>2
    <3> QED
      BY <3>1 DEF HostLibs
  <2> QED
    BY <1>10, <2>1, <2>2
<1>12. ASSUME NEW h \in HostLibs
       PROVE  \E i \in DOMAIN all : all[i].lib = h
  <2>1. CASE h \in HostMpiLibs
    <3>1. PICK i \in 1..Len(m) : h = m[i]
      BY <1>3, <2>1 DEF HostMpiLibs, Elems, m
    <3> QED
      BY <1>8, <3>1
  <2>2. CASE h \in Elems(conf.deps)
    <3>1. PICK i \in 1..Len(d) : h = d[i]
      BY <1>3, <2>2 DEF Elems, d
    <3> QED
      BY <1>9, <3>1
  <2> QED
    BY <2>1, <2>2 DEF HostLibs
<1> QED
  BY <1>7, <1>11, <1>12 DEF all, libs, m, d, wm, wd

(* What becomes of a link that cannot be made: nothing, or what had its    *)
(* name is gone.                                                           *)
Stopped(at) ==
  /\ pc = at /\ pc' = "end" /\ status' \in {"failed", "terminated"}
  /\ UNCHANGED <<conf, fs, mountPoints, hostToContainerLibs, todo, links>>

Removal ==
  /\ links # <<>> /\ Removes(Head(links)) /\ Head(links).link \notin mountPoints
  /\ fs' = [fs EXCEPT ![Head(links).link] = Absent]
  /\ pc = "link" /\ pc' = "end" /\ status' = "terminated"
  /\ UNCHANGED <<conf, mountPoints, hostToContainerLibs, todo, links>>

LEMMA LinkFailures ==
  ASSUME LinkFails
  PROVE  Stopped("link") \/ Removal
BY DEF LinkFails, Stop, Stopped, Removal, Removes

LEMMA RemovalEffect ==
  ASSUME Types, Removal
  PROVE  LET l == Head(links)
         IN  /\ l \in Elems(links) /\ l.link \in Path /\ Absent \in Entry
             /\ Absent.is # "link" /\ ~SkipsLink(l)
             /\ Written(fs, l.link, Absent, fs')
<1>1. fs \in [Path -> Entry] /\ Head(links).link \in Path /\ Head(links) \in Elems(links)
  BY LinkEffect DEF Types, Removal
<1>2. Absent \in Entry /\ Absent.is # "link"
  BY DEF Entry, Absent
<1> QED
  BY <1>1, <1>2, WriteEffect DEF Removal, Removes

LEMMA StepTypes ==
  ASSUME Types, [Next]_vars
  PROVE  Types'
<1> USE DEF Types
<1>1. conf' = conf => HostLibs' = HostLibs
  BY DEF HostLibs, HostMpiLibs
<1>2. CASE Construct
  <2>1. UNCHANGED <<conf, fs, mountPoints, todo, links, status>> /\ pc' = "check"
        /\ pc = "construct"
    BY <1>2 DEF Construct
  <2>2. ASSUME NEW n \in Names
        PROVE  /\ hostToContainerLibs'[n] \in Seq(Collected)
               /\ \A c \in Elems(hostToContainerLibs'[n]) : c.name = n
    <3>1. hostToContainerLibs'[n] \in Listings(n)
      BY <1>2 DEF Construct
    <3> QED
      BY <3>1, ListingType
  <2>3. DOMAIN hostToContainerLibs' = Names
        /\ hostToContainerLibs' = [n \in Names |-> hostToContainerLibs'[n]]
    BY <1>2 DEF Construct
  <2>4. hostToContainerLibs' \in [Names -> Seq(Collected)]
    BY <2>2, <2>3
  <2> QED
    BY <1>1, <2>1, <2>2, <2>4
<1>3. CASE Refuse
  BY <1>1, <1>3 DEF Refuse, Stop
<1>4. CASE Accept
  <2>1. /\ UNCHANGED <<conf, fs, mountPoints, hostToContainerLibs, links, status>>
        /\ pc = "check" /\ pc' = "inject"
        /\ todo' = WithChecker(conf.mpi, conf.checker)
                   \o WithChecker(conf.deps, "dependencies")
    BY <1>4 DEF Accept
  <2>2. todo' \in Seq(ToInject) /\ \A i \in DOMAIN todo' : todo'[i].lib \in HostLibs
    BY <2>1, AcceptedTypes
  <2> QED
    BY <1>1, <2>1, <2>2
<1>5. ASSUME NEW h \in HostLibs, NEW type \in CheckerTypes,
             InjectNew(h, type) \/ InjectExisting(h, type)
      PROVE  Types'
  <2>1. CASE RefusedLate(h, type)
    BY <1>1, <2>1 DEF RefusedLate, Stop
  <2>2. ASSUME NEW dest \in Path, NEW preserve \in BOOLEAN,
               Injected(h, type, dest, preserve)
        PROVE  Types'
    <3>1. BindMount(h, dest, preserve) /\ todo # <<>> /\ h \in HostLibrary /\ pc = "inject"
          /\ UNCHANGED <<conf, hostToContainerLibs, status>>
      BY <2>2, HostLibsTyped DEF Injected
    <3>2. /\ fs' \in [Path -> Entry] /\ RealPath(fs, dest) \in Path
          /\ mountPoints' = mountPoints \cup {RealPath(fs, dest)}
          /\ todo' \in Seq(ToInject)
          /\ \A i \in DOMAIN todo' : i + 1 \in DOMAIN todo /\ todo'[i] = todo[i + 1]
          /\ links' \in Seq(LinkToMake) /\ pc' = "link"
      <4> HIDE DEF Types
      <4> QED
        BY <3>1, BindMountEffect
    <3>3. mountPoints' \in SUBSET Path
      BY <3>2
    <3>4. \A i \in DOMAIN todo' : todo'[i].lib \in HostLibs
      BY <3>2
    <3> QED
      BY <1>1, <3>1, <3>2, <3>3, <3>4
  <2> QED
    BY <1>5, <2>1, <2>2, InjectSteps
<1>6. CASE MountFails
  BY <1>1, <1>6 DEF MountFails, Stop
<1>7. CASE SkipLink
  <2>1. links # <<>> /\ links' = Tail(links)
        /\ UNCHANGED <<conf, fs, mountPoints, hostToContainerLibs, todo, pc, status>>
    BY <1>7 DEF SkipLink
  <2>2. links' \in Seq(LinkToMake)
    BY <2>1, LinkEffect
  <2> QED
    BY <1>1, <2>1, <2>2
<1>8. CASE MakeLink
  <2>1. /\ links # <<>> /\ pc = "link"
        /\ UNCHANGED <<conf, mountPoints, hostToContainerLibs, todo, pc, status>>
        /\ fs' = [fs EXCEPT ![Head(links).link] = Link(Head(links).target)]
        /\ links' = Tail(links)
    BY <1>8 DEF MakeLink, Removes
  <2>2. fs' \in [Path -> Entry] /\ links' \in Seq(LinkToMake)
    BY <2>1, LinkEffect
  <2> QED
    BY <1>1, <2>1, <2>2
<1>9. CASE LinksDone
  BY <1>1, <1>9 DEF LinksDone
<1>10. CASE PerformBindMounts
  BY <1>1, <1>10 DEF PerformBindMounts
<1>11. CASE PerformBindMountsFails
  BY <1>1, <1>11 DEF PerformBindMountsFails, Stop
<1>12. CASE Ldconfig
  BY <1>1, <1>12 DEF Ldconfig, Stop
<1>13. CASE UNCHANGED vars
  BY <1>1, <1>13 DEF vars
<1>14. CASE ConstructFails
  BY <1>1, <1>14 DEF ConstructFails, Stop
<1>15. CASE LinkFails
  <2>1. CASE Stopped("link")
    BY <1>1, <2>1 DEF Stopped
  <2>2. CASE Removal
    <3>1. fs' \in [Path -> Entry]
      BY <2>2, RemovalEffect DEF Written
    <3> QED
      BY <1>1, <2>2, <3>1 DEF Removal
  <2> QED
    BY <1>15, <2>1, <2>2, LinkFailures
<1> QED
  BY <1>2, <1>3, <1>4, <1>5, <1>6, <1>7, <1>8, <1>9, <1>10, <1>11, <1>12, <1>13,
     <1>14, <1>15
     DEF Next, Inject, Ended, HostLibs

LEMMA Typing == Spec => []Types
BY InitTypes, StepTypes, PTL DEF Spec

(* The variables keep their types: paths stay paths of the container and   *)
(* what is left to inject is what the host configured.                     *)
THEOREM TypeTheorem == Spec => []TypeOK
<1>1. Types => TypeOK
  <2> SUFFICES ASSUME Types
               PROVE  TypeOK
    OBVIOUS
  <2>1. \A n \in Names : \A c \in Elems(hostToContainerLibs[n]) : c.path \in Path
    BY CollectedPaths DEF Types, Elems
  <2>2. Elems(todo) \subseteq [lib : HostLibs, checker : CheckerTypes]
    <3>1. ASSUME NEW i \in DOMAIN todo
          PROVE  todo[i] \in [lib : HostLibs, checker : CheckerTypes]
      <4>1. todo[i] \in ToInject /\ todo[i].lib \in HostLibs
        BY DEF Types
      <4> QED
        BY <4>1 DEF ToInject
    <3> QED
      BY <3>1 DEF Elems
  <2>3. ASSUME NEW l \in Elems(links)
        PROVE  {l.link, l.target} \subseteq Path
    <3>1. PICK i \in DOMAIN links : l = links[i]
      BY DEF Elems
    <3>2. l \in LinkToMake
      BY <3>1 DEF Types
    <3> QED
      BY <3>2 DEF LinkToMake
  <2> QED
    BY <2>1, <2>2, <2>3 DEF Types, TypeOK
<1> QED
  BY <1>1, Typing, PTL

-----------------------------------------------------------------------------
(* Refusals.  What the checks have found stays true of every library still *)
(* to be injected, so that none of them is refused.                        *)

CheckedFirst ==
  /\ pc \in {"construct", "check"} \/ status = "refused" =>
       mountPoints = {} /\ fs \in Layouts
  /\ pc \in {"construct", "check"} => todo = <<>> /\ links = <<>>
  /\ pc \in {"inject", "link"} => ChecksPass
  /\ \A i \in DOMAIN todo :
       \/ todo[i].lib \in HostMpiLibs /\ todo[i].checker = conf.checker
       \/ todo[i].checker = "dependencies"

LEMMA NoLateRefusal ==
  ASSUME Types, CheckedFirst, NEW h \in HostLibs, NEW type, RefusedLate(h, type)
  PROVE  FALSE
<1>1. /\ todo # <<>> /\ h = Head(todo).lib /\ type = Head(todo).checker
      /\ pc = "inject" /\ Candidates(h) # <<>> /\ Verdict(h, type) = "throw"
  BY DEF RefusedLate
<1>2. Head(todo) = todo[1] /\ 1 \in DOMAIN todo
  BY <1>1, HeadAndTail DEF Types
<1>3. CASE h \in HostMpiLibs /\ type = conf.checker
  <2>1. BestCandidate(h) \in Elems(Candidates(h))
    BY <1>1, HostLibsTyped, BestIsCandidate
  <2>2. CheckHostContainerAbiCompatibility
    BY <1>1 DEF CheckedFirst, ChecksPass
  <2> QED
    BY <1>1, <1>3, <2>1, <2>2 DEF CheckHostContainerAbiCompatibility, Verdict
<1>4. CASE type = "dependencies"
  <2>1. \A a, b : DependenciesCheck(a, b) # "throw"
    BY DEF DependenciesCheck
  <2>2. Verdict(h, type) = DependenciesCheck(HostLib(h), BestCandidate(h))
    BY <1>4 DEF Verdict, Check
  <2> QED
    BY <1>1, <2>1, <2>2
<1> QED
  BY <1>1, <1>2, <1>3, <1>4 DEF CheckedFirst

LEMMA InitCheckedFirst == Init => CheckedFirst
BY DEF Init, CheckedFirst

LEMMA StepCheckedFirst ==
  ASSUME Types, CheckedFirst, [Next]_vars
  PROVE  CheckedFirst'
<1> USE DEF CheckedFirst
<1>1. conf' = conf => HostMpiLibs' = HostMpiLibs
  BY DEF HostMpiLibs
<1>2. UNCHANGED <<conf, hostToContainerLibs>> => ChecksPass' = ChecksPass
  BY DEF ChecksPass, CheckHostMpiLibrariesHaveAbiVersion, HostMpiLibs, Candidates,
         CheckContainerMpiLibrariesHaveAbiVersion, CheckHostContainerAbiCompatibility
<1>3. CASE Construct
  BY <1>1, <1>3 DEF Construct, Types
<1>4. CASE Refuse
  BY <1>1, <1>4 DEF Refuse, Stop
<1>5. CASE Accept
  <2>1. /\ UNCHANGED <<conf, fs, mountPoints, hostToContainerLibs, links, status>>
        /\ pc = "check" /\ pc' = "inject" /\ ChecksPass
        /\ todo' = WithChecker(conf.mpi, conf.checker)
                   \o WithChecker(conf.deps, "dependencies")
    BY <1>5 DEF Accept
  <2>2. status' # "refused"
    BY <2>1 DEF Types
  <2> QED
    BY <1>1, <1>2, <2>1, <2>2, AcceptedTypes
<1>6. ASSUME NEW h \in HostLibs, NEW type \in CheckerTypes,
             InjectNew(h, type) \/ InjectExisting(h, type)
      PROVE  CheckedFirst'
  <2>1. PICK dest \in Path, preserve \in BOOLEAN : Injected(h, type, dest, preserve)
    BY <1>6, InjectSteps, NoLateRefusal
  <2>2. BindMount(h, dest, preserve) /\ todo # <<>> /\ h \in HostLibrary /\ pc = "inject"
        /\ UNCHANGED <<conf, hostToContainerLibs, status>>
    BY <2>1, HostLibsTyped DEF Injected
  <2>3. /\ \A i \in DOMAIN todo' : i + 1 \in DOMAIN todo /\ todo'[i] = todo[i + 1]
        /\ pc' = "link"
    BY <2>2, BindMountEffect
  <2>4. status' # "refused"
    BY <2>2 DEF Types
  <2> QED
    BY <1>1, <1>2, <2>2, <2>3, <2>4
<1>7. CASE MountFails
  BY <1>1, <1>7 DEF MountFails, Stop
<1>8. CASE SkipLink
  BY <1>1, <1>2, <1>8 DEF SkipLink, Types
<1>9. CASE MakeLink
  <2>1. UNCHANGED <<conf, mountPoints, hostToContainerLibs, todo, pc, status>>
        /\ pc = "link"
    BY <1>9 DEF MakeLink, Removes
  <2>2. status # "refused"
    BY <2>1 DEF Types
  <2> QED
    BY <1>1, <1>2, <2>1, <2>2
<1>10. CASE LinksDone
  BY <1>1, <1>2, <1>10 DEF LinksDone, Types
<1>11. CASE PerformBindMounts
  BY <1>1, <1>11 DEF PerformBindMounts, Types
<1>12. CASE PerformBindMountsFails
  BY <1>1, <1>12 DEF PerformBindMountsFails, Stop
<1>13. CASE Ldconfig
  BY <1>1, <1>13 DEF Ldconfig, Stop
<1>14. CASE UNCHANGED vars
  BY <1>1, <1>2, <1>14 DEF vars
<1>15. CASE ConstructFails
  BY <1>1, <1>15 DEF ConstructFails, Stop
<1>16. CASE LinkFails
  BY <1>1, <1>16, LinkFailures DEF Stopped, Removal
<1> QED
  BY <1>3, <1>4, <1>5, <1>6, <1>7, <1>8, <1>9, <1>10, <1>11, <1>12, <1>13, <1>14,
     <1>15, <1>16
     DEF Next, Inject, Ended, HostLibs

LEMMA Checked == Spec => [](Types /\ CheckedFirst)
<1>1. Init => Types /\ CheckedFirst
  BY InitTypes, InitCheckedFirst
<1>2. Types /\ CheckedFirst /\ [Next]_vars => (Types /\ CheckedFirst)'
  BY StepTypes, StepCheckedFirst
<1> QED
  BY <1>1, <1>2, PTL DEF Spec

(* The hook refuses before it has mounted anything, whatever the container *)
(* holds, whichever order ldconfig lists it in and whatever the checker.   *)
THEOREM RefusalTheorem == Spec => []RefusalLeavesContainerAlone
<1>1. Types /\ CheckedFirst => RefusalLeavesContainerAlone
  <2> SUFFICES ASSUME Types, CheckedFirst, status = "refused"
               PROVE  /\ mountPoints = {}
                      /\ \A p \in Path : Resolves(fs, p) => Content(fs, p).origin = "container"
    BY DEF RefusalLeavesContainerAlone
  <2>1. mountPoints = {} /\ fs \in Layouts /\ fs \in [Path -> Entry]
    BY DEF CheckedFirst, Types
  <2>2. ASSUME NEW p \in Path, Resolves(fs, p)
        PROVE  Content(fs, p).origin = "container"
    <3>1. RealPath(fs, p) \in Path
      BY <2>1, RealPathIsPath
    <3> QED
      BY <2>1, <2>2, <3>1, InputsAssumption DEF Resolves, Content
  <2> QED
    BY <2>1, <2>2
<1> QED
  BY <1>1, Checked, PTL

-----------------------------------------------------------------------------
(* Mount points and links.  The library whose links are being made has one *)
(* mount point, which every target leads to; the names of the libraries    *)
(* still to be injected have none.                                         *)

Around(real) ==
  /\ fs[real].is = "file"
  /\ \A m \in mountPoints : m.name = real.name => m = real
  /\ \A l \in Elems(links) : /\ l.link.name = real.name /\ l.target.name = real.name
                             /\ RealPath(fs, l.target) = real

OneMountPointEach ==
  /\ OneVersionOfEach(conf.mpi \o conf.deps)
  /\ LinksKeepNames(fs)
  /\ \A i, j \in DOMAIN todo : todo[i].lib.name = todo[j].lib.name => i = j
  /\ \A m \in mountPoints, i \in DOMAIN todo : todo[i].lib.name # m.name
  /\ pc = "link" => \E real \in mountPoints : Around(real)

(* A link that has to be made is on no chain to the mount point.           *)
LEMMA LinkMissesChains ==
  ASSUME Types, links # <<>>, NEW real \in mountPoints, Around(real),
         ~SkipsLink(Head(links))
  PROVE  /\ Head(links).link \notin mountPoints
         /\ RealPath(fs, Head(links).link) # real
         /\ \A l \in Elems(links) : Head(links).link \notin Chain(fs, l.target)
<1> DEFINE link == Head(links).link
<1>1. /\ fs \in [Path -> Entry] /\ real \in Path /\ link \in Path
      /\ Head(links) \in Elems(links)
      /\ \A l \in Elems(links) : l.target \in Path
  BY LinkEffect, LinkPaths DEF Types
<1>2. RealPath(fs, link) # real
  BY <1>1 DEF Around, SkipsLink
<1>3. ASSUME NEW l \in Elems(links)
      PROVE  link \notin Chain(fs, l.target)
  <2>1. RealPath(fs, l.target) = real /\ Content(fs, l.target).is # "link"
    BY DEF Around, Content
  <2> QED
    BY <1>1, <1>2, <2>1, OnChain
<1>4. link \notin mountPoints
  <2> SUFFICES ASSUME link \in mountPoints
               PROVE  FALSE
    OBVIOUS
  <2>1. link = real
    BY <1>1 DEF Around
  <2>2. real \in Chain(fs, Head(links).target)
    <3>1. real = RealPath(fs, Head(links).target)
      BY <1>1 DEF Around
    <3> QED
      BY <3>1, HopsBound DEF Chain, RealPath
  <2> QED
    BY <1>1, <1>3, <2>1, <2>2
<1> QED
  BY <1>2, <1>3, <1>4

LEMMA InitOneMountPointEach ==
  ASSUME \A files \in Layouts : LinksKeepNames(files)
  PROVE  Init => OneMountPointEach
BY DEF Init, OneMountPointEach

LEMMA InjectOneMountPoint ==
  ASSUME Types, OneMountPointEach, NEW h \in HostLibrary, NEW type,
         NEW dest \in Path, dest.name = h.name, NEW preserve \in BOOLEAN,
         Injected(h, type, dest, preserve), NEW real, real = RealPath(fs, dest)
  PROVE  OneMountPointEach' /\ Around(real)' /\ real \in mountPoints'
<1>1. /\ BindMount(h, dest, preserve) /\ todo # <<>> /\ h = Head(todo).lib
      /\ UNCHANGED <<conf, hostToContainerLibs, status>>
  BY DEF Injected
<1>2. /\ real \in Path /\ File("host", h.ver) \in Entry /\ File("host", h.ver).is = "file"
      /\ fs' = [fs EXCEPT ![real] = File("host", h.ver)] /\ fs' \in [Path -> Entry]
      /\ mountPoints' = mountPoints \cup {real}
      /\ \A i \in DOMAIN todo' : i + 1 \in DOMAIN todo /\ todo'[i] = todo[i + 1]
      /\ links' = LinksFor(fs', h, dest, preserve) /\ pc' = "link"
      /\ todo' = Tail(todo)
  BY <1>1, BindMountEffect
<1>3. Head(todo) = todo[1] /\ 1 \in DOMAIN todo /\ DOMAIN todo = 1..Len(todo)
      /\ Len(todo) \in Nat /\ DOMAIN todo' = 1..(Len(todo) - 1)
  BY <1>1, <1>2, HeadAndTail DEF Types
<1>4. fs \in [Path -> Entry] /\ LinksKeepNames(fs)
  BY DEF Types, OneMountPointEach
<1>5. real.name = h.name
  BY <1>4, OneNameOnChain
<1>6. RealPath(fs', dest) = real /\ fs'[real].is = "file"
  <2>1. Written(fs, real, File("host", h.ver), fs')
    BY <1>2, <1>4, WriteEffect
  <2>2. RealPath(fs', dest) = real
    BY <1>2, <1>4, <2>1, MountedAtEnd
  <2> QED
    BY <1>2, <2>1, <2>2 DEF Written
<1>7. LinksKeepNames(fs')
  BY <1>2, <1>4 DEF LinksKeepNames
<1>8. \A m \in mountPoints : m.name # h.name
  BY <1>1, <1>3 DEF OneMountPointEach
<1>9. \A i, j \in DOMAIN todo' : todo'[i].lib.name = todo'[j].lib.name => i = j
  <2> SUFFICES ASSUME NEW i \in DOMAIN todo', NEW j \in DOMAIN todo',
                      todo'[i].lib.name = todo'[j].lib.name
               PROVE  i = j
    OBVIOUS
  <2>1. i + 1 = j + 1
    BY <1>2 DEF OneMountPointEach
  <2> QED
    BY <1>3, <2>1
<1>10. ASSUME NEW m \in mountPoints', NEW i \in DOMAIN todo'
       PROVE  todo'[i].lib.name # m.name
  <2>1. i + 1 \in DOMAIN todo /\ todo'[i] = todo[i + 1] /\ i + 1 # 1
    BY <1>2, <1>3
  <2>2. todo[i + 1].lib.name # h.name
    BY <1>1, <1>3, <2>1 DEF OneMountPointEach
  <2> QED
    BY <1>2, <1>5, <2>1, <2>2 DEF OneMountPointEach
<1> DEFINE made == LinksFor(fs', h, dest, preserve)
<1>11. \A l \in Elems(made) :
         \E dir \in {"lib", "lib64"}, n \in 0..Len(h.file) :
           l.link = In(dir, h.name, SubSeq(h.file, 1, n)) /\ l.target = dest
  <2>1. LinksOf(made, fs', h, dest, preserve)
    BY LinksForType
  <2> HIDE DEF made
  <2> QED
    BY <2>1 DEF LinksOf
<1>12. ASSUME NEW l \in Elems(made)
       PROVE  /\ l.link.name = real.name /\ l.target.name = real.name
              /\ RealPath(fs', l.target) = real
  <2>1. PICK dir \in {"lib", "lib64"}, n \in 0..Len(h.file) :
          l.link = In(dir, h.name, SubSeq(h.file, 1, n)) /\ l.target = dest
    BY <1>11
  <2> QED
    BY <1>5, <1>6, <2>1 DEF In
<1>13. Around(real)'
  <2>1. \A m \in mountPoints' : m.name = real.name => m = real
    BY <1>2, <1>5, <1>8
  <2> QED
    BY <1>2, <1>6, <1>12, <2>1 DEF Around
<1>14. OneVersionOfEach(conf.mpi \o conf.deps)'
  <2>1. OneVersionOfEach(conf.mpi \o conf.deps) /\ conf' = conf
    BY <1>1 DEF OneMountPointEach
  <2> QED
    BY <2>1 DEF OneVersionOfEach
<1> QED
  BY <1>2, <1>7, <1>9, <1>10, <1>13, <1>14 DEF OneMountPointEach

LEMMA StepOneMountPointEach ==
  ASSUME Types, CheckedFirst, OneMountPointEach, [Next]_vars
  PROVE  OneMountPointEach'
<1> USE DEF OneMountPointEach
<1>1. conf' = conf => OneVersionOfEach(conf.mpi \o conf.deps)'
  BY DEF OneVersionOfEach
<1>2. UNCHANGED <<fs, mountPoints, links>> => \A real : Around(real)' <=> Around(real)
  BY DEF Around
<1>3. UNCHANGED fs => LinksKeepNames(fs)'
  OBVIOUS
<1>4. CASE Construct
  BY <1>1, <1>3, <1>4 DEF Construct
<1>5. CASE Refuse
  BY <1>1, <1>3, <1>5 DEF Refuse, Stop
<1>6. CASE Accept
  <2> DEFINE libs == conf.mpi \o conf.deps
  <2>1. /\ UNCHANGED <<conf, fs, mountPoints, hostToContainerLibs, links, status>>
        /\ pc = "check" /\ pc' = "inject" /\ mountPoints = {}
        /\ todo' = WithChecker(conf.mpi, conf.checker)
                   \o WithChecker(conf.deps, "dependencies")
    BY <1>6 DEF Accept, CheckedFirst
  <2>2. DOMAIN todo' = DOMAIN libs /\ \A i \in DOMAIN todo' : todo'[i].lib = libs[i]
    BY <2>1, AcceptedTypes
  <2>3. \A i, j \in DOMAIN todo' : todo'[i].lib.name = todo'[j].lib.name => i = j
    <3>1. \A i, j \in DOMAIN libs : libs[i].name = libs[j].name => i = j
      BY DEF OneVersionOfEach
    <3> HIDE DEF libs
    <3> QED
      BY <2>2, <3>1
  <2> QED
    BY <1>1, <1>3, <2>1, <2>3
<1>7. ASSUME NEW h \in HostLibs, NEW type \in CheckerTypes,
             InjectNew(h, type) \/ InjectExisting(h, type)
      PROVE  OneMountPointEach'
  <2>1. PICK dest \in Path, preserve \in BOOLEAN :
          dest.name = h.name /\ Injected(h, type, dest, preserve)
    BY <1>7, InjectSteps, NoLateRefusal
  <2>2. h \in HostLibrary
    BY HostLibsTyped
  <2> QED
    BY <2>1, <2>2, InjectOneMountPoint
<1>8. CASE MountFails
  BY <1>1, <1>3, <1>8 DEF MountFails, Stop
<1>9. CASE SkipLink
  <2>1. /\ UNCHANGED <<conf, fs, mountPoints, hostToContainerLibs, todo, pc, status>>
        /\ links # <<>> /\ links' = Tail(links) /\ pc = "link"
    BY <1>9 DEF SkipLink
  <2>2. Elems(links') \subseteq Elems(links)
    BY <2>1, LinkEffect
  <2>3. \A real : Around(real) => Around(real)'
    BY <2>1, <2>2 DEF Around
  <2> QED
    BY <1>1, <1>3, <2>1, <2>3
<1>10. CASE MakeLink
  <2> DEFINE l == Head(links)
  <2>1. /\ UNCHANGED <<conf, mountPoints, hostToContainerLibs, todo>>
        /\ links # <<>> /\ pc = "link" /\ ~SkipsLink(l)
    BY <1>10 DEF MakeLink, Removes
  <2>2. PICK real \in mountPoints : Around(real)
    BY <2>1
  <2>3. /\ l.link \notin mountPoints
        /\ \A l2 \in Elems(links) : l.link \notin Chain(fs, l2.target)
    BY <2>1, <2>2, LinkMissesChains
  <2>4. /\ fs' = [fs EXCEPT ![l.link] = Link(l.target)]
        /\ links' = Tail(links) /\ UNCHANGED <<pc, status>>
    BY <1>10 DEF MakeLink, Removes
  <2>5. /\ l.link \in Path /\ l.target \in Path /\ fs \in [Path -> Entry]
        /\ l \in Elems(links) /\ Elems(links') \subseteq Elems(links)
        /\ Link(l.target) \in Entry /\ Link(l.target).to = l.target
    BY <2>1, <2>4, LinkEffect, LinkIsEntry DEF Types
  <2>6. LinksKeepNames(fs')
    <3>1. l.target.name = l.link.name
      BY <2>2, <2>5 DEF Around
    <3> QED
      BY <2>4, <2>5, <3>1 DEF LinksKeepNames
  <2>7. fs'[real].is = "file"
    BY <2>2, <2>3, <2>4 DEF Around, Types
  <2>8. ASSUME NEW l2 \in Elems(links')
        PROVE  /\ l2.link.name = real.name /\ l2.target.name = real.name
               /\ RealPath(fs', l2.target) = real
    <3>1. l2 \in Elems(links) /\ l2.target \in Path
      BY <2>5, LinkPaths
    <3>2. RealPath(fs', l2.target) = RealPath(fs, l2.target)
      <4>1. l.link \notin Chain(fs, l2.target)
        BY <2>3, <3>1
      <4>2. Written(fs, l.link, Link(l.target), fs')
        BY <2>4, <2>5, WriteEffect
      <4> HIDE DEF l
      <4> QED
        BY <2>5, <3>1, <4>1, <4>2, OffChain
    <3> QED
      BY <2>2, <3>1, <3>2 DEF Around
  <2>9. Around(real)'
    BY <2>1, <2>2, <2>7, <2>8 DEF Around
  <2> QED
    BY <1>1, <2>1, <2>2, <2>4, <2>6, <2>9
<1>11. CASE LinksDone
  BY <1>1, <1>3, <1>11 DEF LinksDone
<1>12. CASE PerformBindMounts
  BY <1>1, <1>3, <1>12 DEF PerformBindMounts
<1>13. CASE PerformBindMountsFails
  BY <1>1, <1>3, <1>13 DEF PerformBindMountsFails, Stop
<1>14. CASE Ldconfig
  BY <1>1, <1>3, <1>14 DEF Ldconfig, Stop
<1>15. CASE UNCHANGED vars
  BY <1>1, <1>2, <1>3, <1>15 DEF vars
<1>16. CASE ConstructFails
  BY <1>1, <1>3, <1>16 DEF ConstructFails, Stop
<1>17. CASE LinkFails
  <2>1. CASE Stopped("link")
    BY <1>1, <1>3, <2>1 DEF Stopped
  <2>2. CASE Removal
    <3>1. LinksKeepNames(fs')
      BY <2>2, RemovalEffect DEF LinksKeepNames, Written
    <3> QED
      BY <1>1, <2>2, <3>1 DEF Removal
  <2> QED
    BY <1>17, <2>1, <2>2, LinkFailures
<1> QED
  BY <1>4, <1>5, <1>6, <1>7, <1>8, <1>9, <1>10, <1>11, <1>12, <1>13, <1>14, <1>15,
     <1>16, <1>17
     DEF Next, Inject, Ended, HostLibs

LEMMA MountedOnce ==
  ASSUME \A files \in Layouts : LinksKeepNames(files)
  PROVE  Spec => [](Types /\ CheckedFirst /\ OneMountPointEach)
<1>1. Init => Types /\ CheckedFirst /\ OneMountPointEach
  BY InitTypes, InitCheckedFirst, InitOneMountPointEach
<1>2. Types /\ CheckedFirst /\ OneMountPointEach /\ [Next]_vars
        => (Types /\ CheckedFirst /\ OneMountPointEach)'
  BY StepTypes, StepCheckedFirst, StepOneMountPointEach
<1> QED
  BY <1>1, <1>2, PTL DEF Spec

(* In a container whose links lead to files of their own library, no link  *)
(* the hook makes is in the place of a mount point, so that removing what  *)
(* was there does not fail.                                                *)
THEOREM MountPointsTheorem ==
  ASSUME \A files \in Layouts : LinksKeepNames(files)
  PROVE  Spec => []MountPointsAreNotRemoved
<1>1. Types /\ OneMountPointEach => MountPointsAreNotRemoved
  BY LinkMissesChains DEF OneMountPointEach, MountPointsAreNotRemoved, Removes
<1> QED
  BY <1>1, MountedOnce, PTL
=============================================================================
