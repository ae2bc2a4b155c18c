--------------------------- MODULE MpiLinksProofs ---------------------------
(***************************************************************************)
(* Theorems about the links the MPI hook makes: the names of the host's    *)
(* libraries lead to them, and those of the container's other libraries    *)
(* stay what they were.                                                    *)
(***************************************************************************)
EXTENDS MpiHookProofs

-----------------------------------------------------------------------------
(* What one write leaves alone.                                            *)

\* p's chain leaves a hop free.
EndsSoon(files, p) == files[After(files, p)[MaxHops - 1]].is # "link"

LEMMA OtherName ==
  ASSUME NEW files \in [Path -> Entry], LinksKeepNames(files),
         NEW p \in Path, NEW q \in Path, p.name # q.name,
         NEW e \in Entry, NEW files2, Written(files, q, e, files2)
  PROVE  /\ q \notin Chain(files, p)
         /\ Chain(files2, p) = Chain(files, p)
         /\ RealPath(files2, p) = RealPath(files, p)
         /\ Content(files2, p) = Content(files, p)
<1>1. q \notin Chain(files, p)
  BY OneNameOnChain
<1> QED
  BY <1>1, OffChain

LEMMA StillEndsSoon ==
  ASSUME NEW files \in [Path -> Entry], NEW p \in Path, NEW q \in Path,
         NEW e \in Entry, q \notin Chain(files, p),
         NEW files2, Written(files, q, e, files2), EndsSoon(files, p)
  PROVE  EndsSoon(files2, p)
<1> DEFINE r == After(files, p)[MaxHops - 1]
<1>1. r \in Path /\ r # q
  BY HopsBound, ChainOfLinks DEF Chain
<1>2. After(files2, p)[MaxHops - 1] = r
  BY HopsBound, OffChain
<1>3. files2[r] = files[r]
  BY <1>1 DEF Written
<1> QED
  BY <1>2, <1>3 DEF EndsSoon

LEMMA MountEndsSoon ==
  ASSUME NEW files \in [Path -> Entry], NEW p \in Path,
         NEW e \in Entry, e.is # "link",
         NEW real, real = RealPath(files, p),
         NEW files2, Written(files, real, e, files2), EndsSoon(files, p)
  PROVE  EndsSoon(files2, p)
<1>1. After(files, p)[MaxHops] = After(files, p)[MaxHops - 1]
  <2>1. MaxHops \in (MaxHops - 1)..MaxHops
    BY HopsBound
  <2> QED
    BY <2>1, HopsBound, ChainEnds DEF EndsSoon
<1>2. \/ After(files2, p)[MaxHops - 1] = After(files, p)[MaxHops - 1]
      \/ After(files2, p)[MaxHops - 1] = real
  BY HopsBound, MountedAtEnd
<1>3. After(files2, p)[MaxHops - 1] = real
  BY <1>1, <1>2 DEF RealPath
<1> QED
  BY <1>3 DEF EndsSoon, Written

(* "The HOST is configured to have only 1 version of each library."        *)
LEMMA OneLibraryOfEachName ==
  ASSUME Types, OneMountPointEach, NEW h \in HostLibs, NEW h2 \in HostLibs,
         h.name = h2.name
  PROVE  h = h2
<1> DEFINE libs == conf.mpi \o conf.deps
<1>1. Elems(libs) = Elems(conf.mpi) \cup Elems(conf.deps)
  BY HostLibsTyped, ElemsOfConcat
<1>2. h \in Elems(libs) /\ h2 \in Elems(libs)
  BY <1>1 DEF HostLibs, HostMpiLibs
<1>3. OneVersionOfEach(libs)
  BY DEF OneMountPointEach
<1> HIDE DEF libs
<1>4. PICK i \in DOMAIN libs, j \in DOMAIN libs : h = libs[i] /\ h2 = libs[j]
  BY <1>2 DEF Elems
<1> QED
  BY <1>3, <1>4 DEF OneVersionOfEach

LEMMA CandidatesHaveTheName ==
  ASSUME Types, NEW h \in HostLibrary, NEW c \in Elems(Candidates(h))
  PROVE  c \in Collected /\ c.path \in Path /\ c.path.name = h.name
<1>1. h.name \in Names
  BY HostLibraryFields
<1>2. Candidates(h) \in Seq(Collected) /\ c.name = h.name
  BY <1>1 DEF Types, Candidates
<1>3. c \in Collected
  BY <1>2, ElemsTyped
<1> QED
  BY <1>2, <1>3, CollectedPaths

-----------------------------------------------------------------------------
(* Injected libraries.  The names of a library that has been injected lead *)
(* to its mount point, those whose links are still to be made excepted.    *)

NameIn(dir, h, n) == In(dir, h.name, SubSeq(h.file, 1, n))

Pending(p) == pc = "link" /\ \E l \in Elems(links) : l.link = p

InjectedAt(h, real) ==
  /\ real.name = h.name /\ fs[real] = File("host", h.ver)
  /\ \A dir \in {"lib", "lib64"} \cap conf.allowed, n \in 0..Len(h.file) :
       n > 0 \/ RootLinkIsFree(h) =>
         RealPath(fs, NameIn(dir, h, n)) = real \/ Pending(NameIn(dir, h, n))

IsInjected(h) == \A i \in DOMAIN todo : todo[i].lib # h

InjectedLibs ==
  pc \in {"inject", "link", "ldconfig"} \/ status = "done" =>
    \A h \in HostLibs : IsInjected(h) => \E real \in mountPoints : InjectedAt(h, real)

\* A link is kept only if another version of the library may need it.
KeptForAnother(l) ==
  /\ l.link.ver = <<>>
  /\ \A h \in HostLibs : h.name = l.link.name => ~RootLinkIsFree(h)

LinksToCome ==
  /\ \A l \in Elems(links) : EndsSoon(fs, l.target) /\ (l.keep => KeptForAnother(l))
  /\ \A i \in DOMAIN todo, p \in Path : p.name = todo[i].lib.name => EndsSoon(fs, p)
  /\ pc = "ldconfig" \/ status = "done" => todo = <<>>

LEMMA NameInPath ==
  ASSUME NEW dir \in {"lib", "lib64"}, NEW h \in HostLibrary, NEW n \in 0..Len(h.file)
  PROVE  NameIn(dir, h, n) \in Path /\ NameIn(dir, h, n).name = h.name
BY HostLibraryFields, MpiAssumption DEF NameIn, In, Path

LEMMA EmptyVersion ==
  ASSUME NEW h \in HostLibrary, NEW n \in 0..Len(h.file), SubSeq(h.file, 1, n) = <<>>
  PROVE  n = 0
<1>1. Len(SubSeq(h.file, 1, n)) = n
  BY HostLibraryFields
<1> QED
  BY <1>1

LEMMA SameCandidates ==
  ASSUME UNCHANGED <<conf, hostToContainerLibs>>
  PROVE  /\ HostLibs' = HostLibs
         /\ \A h : RootLinkIsFree(h)' <=> RootLinkIsFree(h)
         /\ \A l : KeptForAnother(l)' <=> KeptForAnother(l)
<1>1. HostLibs' = HostLibs
  BY DEF HostLibs, HostMpiLibs
<1>2. \A h : RootLinkIsFree(h)' <=> RootLinkIsFree(h)
  BY DEF RootLinkIsFree, HasIncompatibleVersion, BestCandidate, Candidates
<1>3. \A l : KeptForAnother(l)' <=> KeptForAnother(l)
  BY <1>1, <1>2 DEF KeptForAnother
<1> QED
  BY <1>1, <1>2, <1>3

(* A step that writes nothing.                                             *)
LEMMA NothingWritten ==
  ASSUME InjectedLibs, LinksToCome,
         UNCHANGED <<conf, fs, mountPoints, hostToContainerLibs, todo, links>>,
         pc' \in {"inject", "link", "ldconfig"} \/ status' = "done" =>
           pc \in {"inject", "link", "ldconfig"} \/ status = "done",
         pc = "link" => pc' = "link" \/ links = <<>> \/ (pc' = "end" /\ status' # "done"),
         pc' = "ldconfig" \/ status' = "done" => todo = <<>>
  PROVE  InjectedLibs' /\ LinksToCome'
<1>1. /\ HostLibs' = HostLibs
      /\ \A h : RootLinkIsFree(h)' <=> RootLinkIsFree(h)
      /\ \A l : KeptForAnother(l)' <=> KeptForAnother(l)
  BY SameCandidates
<1>2. LinksToCome'
  BY <1>1 DEF LinksToCome
<1>3. InjectedLibs'
  <2> SUFFICES ASSUME pc' \in {"inject", "link", "ldconfig"} \/ status' = "done",
                      NEW h \in HostLibs, IsInjected(h)'
               PROVE  \E real \in mountPoints : InjectedAt(h, real)'
    BY <1>1 DEF InjectedLibs
  <2>1. IsInjected(h)
    BY DEF IsInjected
  <2>2. PICK real \in mountPoints : InjectedAt(h, real)
    BY <2>1 DEF InjectedLibs
  <2>3. ASSUME NEW p, Pending(p), ~(pc' = "end" /\ status' # "done")
        PROVE  Pending(p)'
    BY <2>3 DEF Pending, Elems
  <2>4. InjectedAt(h, real)'
    BY <1>1, <2>2, <2>3 DEF InjectedAt
  <2> QED
    BY <2>4
<1> QED
  BY <1>2, <1>3

LEMMA InjectStepLinks ==
  ASSUME Types, OneMountPointEach, InjectedLibs, LinksToCome, NEW h \in HostLibs, NEW type,
         NEW dest \in Path, dest.name = h.name, NEW preserve \in BOOLEAN,
         Injected(h, type, dest, preserve), NEW real, real = RealPath(fs, dest)
  PROVE  InjectedLibs' /\ LinksToCome'
<1> DEFINE e == File("host", h.ver)
<1>1. /\ BindMount(h, dest, preserve) /\ todo # <<>> /\ h = Head(todo).lib /\ pc = "inject"
      /\ UNCHANGED <<conf, hostToContainerLibs, status>>
      /\ RootLinkIsFree(h) => ~preserve
  BY DEF Injected
<1>2. h \in HostLibrary /\ HostLibs \subseteq HostLibrary
  BY HostLibsTyped
<1>3. /\ real \in Path /\ e \in Entry /\ e.is = "file"
      /\ fs' = [fs EXCEPT ![real] = e] /\ fs' \in [Path -> Entry]
      /\ mountPoints' = mountPoints \cup {real}
      /\ \A i \in DOMAIN todo' : i + 1 \in DOMAIN todo /\ todo'[i] = todo[i + 1]
      /\ links' = LinksFor(fs', h, dest, preserve) /\ pc' = "link"
      /\ todo' = Tail(todo)
  BY <1>1, <1>2, BindMountEffect
<1>4. /\ Head(todo) = todo[1] /\ 1 \in DOMAIN todo
      /\ DOMAIN todo = 1..Len(todo) /\ DOMAIN todo' = 1..(Len(todo) - 1)
      /\ Len(todo) \in Nat
  BY <1>1, <1>3, HeadAndTail DEF Types
<1>5. fs \in [Path -> Entry] /\ LinksKeepNames(fs)
  BY DEF Types, OneMountPointEach
<1>6. real.name = h.name
  BY <1>5, OneNameOnChain
<1>7. Written(fs, real, e, fs')
  BY <1>3, <1>5, WriteEffect
<1>8. /\ HostLibs' = HostLibs
      /\ \A h2 : RootLinkIsFree(h2)' <=> RootLinkIsFree(h2)
      /\ \A l : KeptForAnother(l)' <=> KeptForAnother(l)
  BY <1>1, SameCandidates
<1>9. LinksOf(links', fs', h, dest, preserve)
  BY <1>2, <1>3, LinksForType
<1>10. EndsSoon(fs, dest)
  BY <1>1, <1>4 DEF LinksToCome
<1>11. EndsSoon(fs', dest)
  BY <1>3, <1>5, <1>7, <1>10, MountEndsSoon
<1>12. ASSUME NEW l \in Elems(links')
       PROVE  EndsSoon(fs', l.target) /\ (l.keep => KeptForAnother(l)')
  <2>1. PICK dir \in {"lib", "lib64"}, n \in 0..Len(h.file) :
          /\ l.link = In(dir, h.name, SubSeq(h.file, 1, n))
          /\ l.target = dest
          /\ l.keep => preserve /\ SubSeq(h.file, 1, n) = <<>>
    BY <1>9 DEF LinksOf
  <2>2. ASSUME l.keep
        PROVE  KeptForAnother(l)
    <3>1. l.link.ver = <<>> /\ l.link.name = h.name /\ ~RootLinkIsFree(h)
      BY <1>1, <2>1, <2>2 DEF In
    <3>2. \A h2 \in HostLibs : h2.name = h.name => h2 = h
      BY OneLibraryOfEachName
    <3> QED
      BY <3>1, <3>2 DEF KeptForAnother
  <2> QED
    BY <1>8, <1>11, <2>1, <2>2
<1>13. ASSUME NEW i \in DOMAIN todo', NEW p \in Path, p.name = todo'[i].lib.name
       PROVE  EndsSoon(fs', p)
  <2>1. i + 1 \in DOMAIN todo /\ todo'[i] = todo[i + 1] /\ i + 1 # 1
    BY <1>3, <1>4
  <2>2. p.name # h.name /\ EndsSoon(fs, p)
    BY <1>1, <1>4, <1>13, <2>1 DEF OneMountPointEach, LinksToCome
  <2>3. real \notin Chain(fs, p)
    BY <1>3, <1>5, <1>6, <1>7, <2>2, OtherName
  <2> QED
    BY <1>3, <1>5, <1>7, <2>2, <2>3, StillEndsSoon
<1>14. LinksToCome'
  BY <1>1, <1>3, <1>12, <1>13 DEF LinksToCome, Types
<1>15. InjectedAt(h, real)'
  <2>1. ASSUME NEW dir \in {"lib", "lib64"} \cap conf.allowed, NEW n \in 0..Len(h.file)
        PROVE  Pending(NameIn(dir, h, n))'
    <3>1. PICK l \in Elems(links') : l.link = In(dir, h.name, SubSeq(h.file, 1, n))
      BY <1>1, <1>9, <2>1 DEF LinksOf
    <3> QED
      BY <1>3, <3>1 DEF Pending, NameIn, Elems
  <2>2. fs'[real] = File("host", h.ver)
    BY <1>7 DEF Written
  <2> QED
    BY <1>1, <1>6, <2>1, <2>2 DEF InjectedAt
<1>16. ASSUME NEW h2 \in HostLibs, IsInjected(h2)', h2 # h
       PROVE  \E r \in mountPoints' : InjectedAt(h2, r)'
  <2>1. IsInjected(h2)
    <3> SUFFICES ASSUME NEW i \in DOMAIN todo
                 PROVE  todo[i].lib # h2
      BY DEF IsInjected
    <3>1. CASE i = 1
      BY <1>1, <1>4, <1>16, <3>1
    <3>2. CASE i # 1
      <4>1. i - 1 \in DOMAIN todo' /\ (i - 1) + 1 = i
        BY <1>4, <3>2
      <4>2. todo'[i - 1] = todo[i]
        BY <1>3, <4>1
      <4> QED
        BY <1>16, <4>1, <4>2 DEF IsInjected
    <3> QED
      BY <3>1, <3>2
  <2>2. PICK r \in mountPoints : InjectedAt(h2, r)
    BY <1>1, <2>1 DEF InjectedLibs
  <2>3. h2.name # h.name /\ h2 \in HostLibrary /\ r \in Path
    BY <1>2, <1>16, OneLibraryOfEachName DEF Types
  <2>4. fs'[r] = File("host", h2.ver) /\ r.name = h2.name
    BY <1>6, <1>7, <2>2, <2>3 DEF InjectedAt, Written
  <2>5. ASSUME NEW dir \in {"lib", "lib64"} \cap conf.allowed, NEW n \in 0..Len(h2.file),
               n > 0 \/ RootLinkIsFree(h2)
        PROVE  RealPath(fs', NameIn(dir, h2, n)) = r
    <3>1. NameIn(dir, h2, n) \in Path /\ NameIn(dir, h2, n).name = h2.name
      BY <2>3, NameInPath
    <3>2. RealPath(fs, NameIn(dir, h2, n)) = r
      BY <1>1, <2>2, <2>5 DEF InjectedAt, Pending
    <3>3. NameIn(dir, h2, n).name # real.name
      BY <1>6, <2>3, <3>1
    <3>4. RealPath(fs', NameIn(dir, h2, n)) = RealPath(fs, NameIn(dir, h2, n))
      BY <1>3, <1>5, <1>7, <3>1, <3>3, OtherName
    <3> QED
      BY <3>2, <3>4
  <2>6. InjectedAt(h2, r)'
    BY <1>1, <1>8, <2>4, <2>5 DEF InjectedAt
  <2> QED
    BY <1>3, <2>6
<1>17. InjectedLibs'
  BY <1>3, <1>8, <1>15, <1>16 DEF InjectedLibs
<1> QED
  BY <1>14, <1>17

(* Of two links, the one dealt with and another.                           *)
LEMMA StillPending ==
  ASSUME Types, links # <<>>, pc = "link", pc' = "link", links' = Tail(links),
         NEW p, Pending(p), p # Head(links).link
  PROVE  Pending(p)'
<1>1. PICK l \in Elems(links) : l.link = p
  BY DEF Pending
<1>2. Elems(links) = {Head(links)} \cup Elems(Tail(links))
  BY LinkEffect
<1>3. l \in Elems(links')
  BY <1>1, <1>2
<1> QED
  BY <1>1, <1>3 DEF Pending, Elems

LEMMA SkipStepLinks ==
  ASSUME Types, OneMountPointEach, InjectedLibs, LinksToCome, SkipLink
  PROVE  InjectedLibs' /\ LinksToCome'
<1> DEFINE l == Head(links)
<1>1. /\ UNCHANGED <<conf, fs, mountPoints, hostToContainerLibs, todo, pc, status>>
      /\ links # <<>> /\ links' = Tail(links) /\ pc = "link" /\ SkipsLink(l)
  BY DEF SkipLink
<1>2. Elems(links) = {l} \cup Elems(links') /\ l \in Elems(links)
  BY <1>1, LinkEffect
<1>3. /\ HostLibs' = HostLibs
      /\ \A h : RootLinkIsFree(h)' <=> RootLinkIsFree(h)
      /\ \A l2 : KeptForAnother(l2)' <=> KeptForAnother(l2)
  BY <1>1, SameCandidates
<1>4. LinksToCome'
  BY <1>1, <1>2, <1>3 DEF LinksToCome, Types
<1>5. ASSUME NEW h \in HostLibs, NEW real \in mountPoints, InjectedAt(h, real)
      PROVE  InjectedAt(h, real)'
  <2> SUFFICES ASSUME NEW dir \in {"lib", "lib64"} \cap conf.allowed,
                      NEW n \in 0..Len(h.file), n > 0 \/ RootLinkIsFree(h)
               PROVE  \/ RealPath(fs, NameIn(dir, h, n)) = real
                      \/ Pending(NameIn(dir, h, n))'
    BY <1>1, <1>3, <1>5 DEF InjectedAt
  <2>1. RealPath(fs, NameIn(dir, h, n)) = real \/ Pending(NameIn(dir, h, n))
    BY <1>5 DEF InjectedAt
  <2>2. CASE Pending(NameIn(dir, h, n)) /\ NameIn(dir, h, n) # l.link
    BY <1>1, <2>2, StillPending
  <2>3. CASE Pending(NameIn(dir, h, n)) /\ NameIn(dir, h, n) = l.link
    <3>1. h \in HostLibrary
      BY HostLibsTyped
    <3>2. ~l.keep
      <4> SUFFICES ASSUME l.keep
                   PROVE  FALSE
        OBVIOUS
      <4>1. KeptForAnother(l)
        BY <1>2 DEF LinksToCome
      <4>2. SubSeq(h.file, 1, n) = <<>> /\ h.name = l.link.name
        BY <2>3, <4>1 DEF KeptForAnother, NameIn, In
      <4>3. n = 0
        BY <3>1, <4>2, EmptyVersion
      <4> QED
        BY <4>1, <4>2, <4>3 DEF KeptForAnother
    <3>3. PICK real0 \in mountPoints : Around(real0)
      BY <1>1 DEF OneMountPointEach
    <3>4. RealPath(fs, l.link) = real0 /\ l.link.name = real0.name
      BY <1>1, <1>2, <3>2, <3>3 DEF SkipsLink, Around
    <3>5. real.name = real0.name
      BY <1>5, <2>3, <3>4 DEF InjectedAt, NameIn, In
    <3>6. real = real0
      BY <3>3, <3>5 DEF Around
    <3> QED
      BY <2>3, <3>4, <3>6
  <2> QED
    BY <2>1, <2>2, <2>3
<1>6. InjectedLibs'
  <2>1. \A h : IsInjected(h)' <=> IsInjected(h)
    BY <1>1 DEF IsInjected
  <2> QED
    BY <1>1, <1>3, <1>5, <2>1 DEF InjectedLibs
<1> QED
  BY <1>4, <1>6

(* The write of MakeLink is on no chain to the mount point.                *)
LEMMA MakeLinkEffect ==
  ASSUME Types, OneMountPointEach, MakeLink
  PROVE  LET l == Head(links)
         IN  /\ UNCHANGED <<conf, mountPoints, hostToContainerLibs, todo, pc, status>>
             /\ links # <<>> /\ links' = Tail(links) /\ pc = "link" /\ ~SkipsLink(l)
             /\ l \in Elems(links) /\ Elems(links) = {l} \cup Elems(links')
             /\ l.link \in Path /\ l.target \in Path /\ Link(l.target) \in Entry
             /\ l.link \notin mountPoints
             /\ \A l2 \in Elems(links) : l.link \notin Chain(fs, l2.target)
             /\ Written(fs, l.link, Link(l.target), fs')
<1> DEFINE l == Head(links)
<1>1. /\ UNCHANGED <<conf, mountPoints, hostToContainerLibs, todo>>
      /\ links # <<>> /\ pc = "link" /\ ~SkipsLink(l)
  BY DEF MakeLink, Removes
<1>2. PICK real \in mountPoints : Around(real)
  BY <1>1 DEF OneMountPointEach
<1>3. /\ l.link \notin mountPoints
      /\ \A l2 \in Elems(links) : l.link \notin Chain(fs, l2.target)
  BY <1>1, <1>2, LinkMissesChains
<1>4. /\ fs' = [fs EXCEPT ![l.link] = Link(l.target)]
      /\ links' = Tail(links) /\ UNCHANGED <<pc, status>>
  BY DEF MakeLink, Removes
<1>5. /\ l.link \in Path /\ l.target \in Path /\ fs \in [Path -> Entry]
      /\ Elems(links) = {l} \cup Elems(links') /\ Link(l.target) \in Entry
  BY <1>1, <1>4, LinkEffect, LinkIsEntry DEF Types
<1>6. Written(fs, l.link, Link(l.target), fs')
  BY <1>4, <1>5, WriteEffect
<1> QED
  BY <1>1, <1>3, <1>4, <1>5, <1>6

LEMMA MakeStepLinks ==
  ASSUME Types, OneMountPointEach, InjectedLibs, LinksToCome, MakeLink,
         NEW l, l = Head(links)
  PROVE  InjectedLibs' /\ LinksToCome'
<1>1. /\ UNCHANGED <<conf, mountPoints, hostToContainerLibs, todo, pc, status>>
      /\ links # <<>> /\ links' = Tail(links) /\ pc = "link" /\ ~SkipsLink(l)
      /\ l \in Elems(links) /\ Elems(links) = {l} \cup Elems(links')
      /\ l.link \in Path /\ l.target \in Path /\ Link(l.target) \in Entry
      /\ l.link \notin mountPoints
      /\ \A l2 \in Elems(links) : l.link \notin Chain(fs, l2.target)
      /\ Written(fs, l.link, Link(l.target), fs')
  BY MakeLinkEffect
<1>2. fs \in [Path -> Entry] /\ LinksKeepNames(fs)
  BY DEF Types, OneMountPointEach
<1>3. /\ HostLibs' = HostLibs
      /\ \A h : RootLinkIsFree(h)' <=> RootLinkIsFree(h)
      /\ \A l2 : KeptForAnother(l2)' <=> KeptForAnother(l2)
  BY <1>1, SameCandidates
<1>4. PICK real0 \in mountPoints : Around(real0)
  BY <1>1 DEF OneMountPointEach
<1>5. ASSUME NEW l2 \in Elems(links')
      PROVE  EndsSoon(fs', l2.target) /\ (l2.keep => KeptForAnother(l2)')
  <2>1. /\ l2 \in Elems(links) /\ EndsSoon(fs, l2.target)
        /\ l2.keep => KeptForAnother(l2)
    BY <1>1 DEF LinksToCome
  <2>2. l2.target \in Path /\ l.link \notin Chain(fs, l2.target)
    BY <1>1, <2>1, LinkPaths
  <2> QED
    BY <1>1, <1>2, <1>3, <2>1, <2>2, StillEndsSoon
<1>6. ASSUME NEW i \in DOMAIN todo, NEW p \in Path, p.name = todo[i].lib.name
      PROVE  EndsSoon(fs', p)
  <2>1. p.name # l.link.name
    BY <1>1, <1>4, <1>6 DEF OneMountPointEach, Around
  <2>2. l.link \notin Chain(fs, p)
    BY <1>1, <1>2, <2>1, OtherName
  <2>3. EndsSoon(fs, p)
    BY <1>6 DEF LinksToCome
  <2> QED
    BY <1>1, <1>2, <2>2, <2>3, StillEndsSoon
<1>7. LinksToCome'
  BY <1>1, <1>5, <1>6 DEF LinksToCome, Types
<1>8. RealPath(fs', l.link) = real0 /\ l.link.name = real0.name
  <2>1. RealPath(fs, l.target) = real0 /\ l.link.name = real0.name
    BY <1>1, <1>4 DEF Around
  <2>2. l.link \notin Chain(fs, l.target) /\ fs[After(fs, l.target)[MaxHops - 1]].is # "link"
    BY <1>1 DEF LinksToCome, EndsSoon
  <2>3. RealPath(fs', l.link) = RealPath(fs, l.target)
    BY <1>1, <1>2, <2>2, LinkLeadsToTarget
  <2> QED
    BY <2>1, <2>3
<1>9. ASSUME NEW h \in HostLibs, NEW real \in mountPoints, InjectedAt(h, real)
      PROVE  InjectedAt(h, real)'
  <2>1. fs'[real] = File("host", h.ver) /\ real \in Path
    BY <1>1, <1>9 DEF InjectedAt, Written, Types
  <2> SUFFICES ASSUME NEW dir \in {"lib", "lib64"} \cap conf.allowed,
                      NEW n \in 0..Len(h.file), n > 0 \/ RootLinkIsFree(h)
               PROVE  \/ RealPath(fs', NameIn(dir, h, n)) = real
                      \/ Pending(NameIn(dir, h, n))'
    BY <1>1, <1>3, <1>9, <2>1 DEF InjectedAt
  <2>2. /\ RealPath(fs, NameIn(dir, h, n)) = real \/ Pending(NameIn(dir, h, n))
        /\ real.name = h.name
    BY <1>9 DEF InjectedAt
  <2>3. NameIn(dir, h, n) \in Path /\ NameIn(dir, h, n).name = h.name
    BY HostLibsTyped, NameInPath
  <2>4. CASE NameIn(dir, h, n) = l.link
    <3>1. real = real0
      BY <1>4, <1>8, <2>2, <2>3, <2>4 DEF Around
    <3> QED
      BY <1>8, <2>4, <3>1
  <2>5. CASE NameIn(dir, h, n) # l.link /\ Pending(NameIn(dir, h, n))
    BY <1>1, <2>5, StillPending
  <2>6. CASE RealPath(fs, NameIn(dir, h, n)) = real
    <3>1. l.link \notin Chain(fs, NameIn(dir, h, n))
      <4>1. CASE h.name = l.link.name
        <5>1. real = real0
          BY <1>4, <1>8, <2>2, <4>1 DEF Around
        <5>2. RealPath(fs, l.link) # real
          BY <1>1, <1>4, <5>1, LinkMissesChains
        <5>3. Content(fs, NameIn(dir, h, n)).is # "link"
          BY <1>4, <2>6, <5>1 DEF Around, Content
        <5> QED
          BY <1>2, <2>3, <2>6, <5>2, <5>3, OnChain
      <4>2. CASE h.name # l.link.name
        BY <1>1, <1>2, <2>3, <4>2, OtherName
      <4> QED
        BY <4>1, <4>2
    <3>2. RealPath(fs', NameIn(dir, h, n)) = RealPath(fs, NameIn(dir, h, n))
      BY <1>1, <1>2, <2>3, <3>1, OffChain
    <3> QED
      BY <2>6, <3>2
  <2> QED
    BY <2>2, <2>4, <2>5, <2>6
<1>10. InjectedLibs'
  <2>1. \A h : IsInjected(h)' <=> IsInjected(h)
    BY <1>1 DEF IsInjected
  <2> QED
    BY <1>1, <1>3, <1>9, <2>1 DEF InjectedLibs
<1> QED
  BY <1>7, <1>10

(* A removal without a new link leads no library astray.                   *)
LEMMA RemovalStepLinks ==
  ASSUME Types, OneMountPointEach, LinksToCome, Removal, NEW l, l = Head(links)
  PROVE  InjectedLibs' /\ LinksToCome'
<1>1. /\ UNCHANGED <<conf, mountPoints, hostToContainerLibs, todo, links>>
      /\ links # <<>> /\ pc = "link" /\ pc' = "end" /\ status' = "terminated"
  BY DEF Removal
<1>2. /\ l \in Elems(links) /\ l.link \in Path /\ Absent \in Entry /\ ~SkipsLink(l)
      /\ Written(fs, l.link, Absent, fs')
      /\ fs \in [Path -> Entry] /\ LinksKeepNames(fs)
  BY RemovalEffect DEF Types, OneMountPointEach
<1>3. PICK real \in mountPoints : Around(real)
  BY <1>1 DEF OneMountPointEach
<1>4. \A l2 : KeptForAnother(l2)' <=> KeptForAnother(l2)
  BY <1>1, SameCandidates
<1>5. ASSUME NEW l2 \in Elems(links)
      PROVE  EndsSoon(fs', l2.target) /\ (l2.keep => KeptForAnother(l2)')
  <2>1. l2.target \in Path /\ l.link \notin Chain(fs, l2.target)
    BY <1>1, <1>2, <1>3, LinkMissesChains, LinkPaths
  <2> QED
    BY <1>2, <1>4, <2>1, StillEndsSoon DEF LinksToCome
<1>6. ASSUME NEW i \in DOMAIN todo, NEW p \in Path, p.name = todo[i].lib.name
      PROVE  EndsSoon(fs', p)
  <2>1. p.name # l.link.name
    BY <1>2, <1>3, <1>6 DEF OneMountPointEach, Around
  <2>2. l.link \notin Chain(fs, p)
    BY <1>2, <2>1, OtherName
  <2> QED
    BY <1>2, <1>6, <2>2, StillEndsSoon DEF LinksToCome
<1> QED
  BY <1>1, <1>5, <1>6 DEF LinksToCome, InjectedLibs

LEMMA InitLinks == Init => InjectedLibs /\ LinksToCome
BY DEF Init, InjectedLibs, LinksToCome, Elems

LEMMA StepLinks ==
  ASSUME \A files \in Layouts : ChainsAreShort(files),
         Types, CheckedFirst, OneMountPointEach, InjectedLibs, LinksToCome, [Next]_vars
  PROVE  InjectedLibs' /\ LinksToCome'
<1>1. CASE Construct
  <2>1. /\ UNCHANGED <<conf, fs, mountPoints, todo, links, status>>
        /\ pc = "construct" /\ pc' = "check" /\ status = "running"
    BY <1>1 DEF Construct, Types
  <2>2. todo = <<>> /\ links = <<>>
    BY <2>1 DEF CheckedFirst
  <2> QED
    BY <2>1, <2>2 DEF LinksToCome, InjectedLibs, Elems
<1>2. CASE Refuse
  <2>1. /\ UNCHANGED <<conf, fs, mountPoints, hostToContainerLibs, todo, links>>
        /\ pc = "check" /\ pc' = "end" /\ status' = "refused"
    BY <1>2 DEF Refuse, Stop
  <2> QED
    BY <2>1, NothingWritten
<1>3. CASE Accept
  <2>1. /\ UNCHANGED <<conf, fs, mountPoints, hostToContainerLibs, links, status>>
        /\ pc = "check" /\ pc' = "inject" /\ fs \in Layouts /\ links = <<>>
        /\ todo' = WithChecker(conf.mpi, conf.checker)
                   \o WithChecker(conf.deps, "dependencies")
        /\ status = "running"
    BY <1>3 DEF Accept, CheckedFirst, LinksToCome, Types
  <2>2. \A h \in HostLibs : \E i \in DOMAIN todo' : todo'[i].lib = h
    BY <2>1, AcceptedTypes
  <2>3. HostLibs' = HostLibs
    BY <2>1 DEF HostLibs, HostMpiLibs
  <2>4. InjectedLibs'
    BY <2>2, <2>3 DEF InjectedLibs, IsInjected
  <2>5. \A p \in Path : EndsSoon(fs, p)
    BY <2>1 DEF ChainsAreShort, EndsSoon
  <2>6. LinksToCome'
    BY <2>1, <2>5 DEF LinksToCome, Elems
  <2> QED
    BY <2>4, <2>6
<1>4. ASSUME NEW h \in HostLibs, NEW type \in CheckerTypes,
             InjectNew(h, type) \/ InjectExisting(h, type)
      PROVE  InjectedLibs' /\ LinksToCome'
  <2>1. PICK dest \in Path, preserve \in BOOLEAN :
          dest.name = h.name /\ Injected(h, type, dest, preserve)
    BY <1>4, InjectSteps, NoLateRefusal
  <2> QED
    BY <2>1, InjectStepLinks
<1>5. CASE MountFails
  <2>1. /\ UNCHANGED <<conf, fs, mountPoints, hostToContainerLibs, todo, links>>
        /\ pc = "inject" /\ pc' = "end" /\ status' = "failed"
    BY <1>5 DEF MountFails, Stop
  <2> QED
    BY <2>1, NothingWritten
<1>6. CASE SkipLink
  BY <1>6, SkipStepLinks
<1>7. CASE MakeLink
  BY <1>7, MakeStepLinks
<1>8. CASE LinksDone
  <2>1. /\ UNCHANGED <<conf, fs, mountPoints, hostToContainerLibs, todo, links, status>>
        /\ pc = "link" /\ pc' = "inject" /\ links = <<>> /\ status = "running"
    BY <1>8 DEF LinksDone, Types
  <2> QED
    BY <2>1, NothingWritten
<1>9. CASE PerformBindMounts
  <2>1. /\ UNCHANGED <<conf, fs, mountPoints, hostToContainerLibs, todo, links, status>>
        /\ pc = "inject" /\ pc' = "ldconfig" /\ todo = <<>>
    BY <1>9 DEF PerformBindMounts
  <2> QED
    BY <2>1, NothingWritten
<1>10. CASE PerformBindMountsFails
  <2>1. /\ UNCHANGED <<conf, fs, mountPoints, hostToContainerLibs, todo, links>>
        /\ pc = "inject" /\ pc' = "end" /\ status' = "failed"
    BY <1>10 DEF PerformBindMountsFails, Stop
  <2> QED
    BY <2>1, NothingWritten
<1>11. CASE Ldconfig
  <2>1. /\ UNCHANGED <<conf, fs, mountPoints, hostToContainerLibs, todo, links>>
        /\ pc = "ldconfig" /\ pc' = "end" /\ todo = <<>>
    BY <1>11 DEF Ldconfig, Stop, LinksToCome
  <2> QED
    BY <2>1, NothingWritten
<1>12. CASE UNCHANGED vars
  <2>1. /\ UNCHANGED <<conf, fs, mountPoints, hostToContainerLibs, todo, links, pc, status>>
        /\ pc = "ldconfig" \/ status = "done" => todo = <<>>
    BY <1>12 DEF vars, LinksToCome
  <2> QED
    BY <2>1, NothingWritten
<1>13. CASE ConstructFails
  <2>1. /\ UNCHANGED <<conf, fs, mountPoints, hostToContainerLibs, todo, links>>
        /\ pc = "construct" /\ pc' = "end" /\ status' \in {"failed", "terminated"}
    BY <1>13 DEF ConstructFails, Stop
  <2> QED
    BY <2>1, NothingWritten
<1>14. CASE LinkFails
  <2>1. CASE Stopped("link")
    BY <2>1, NothingWritten DEF Stopped
  <2>2. CASE Removal
    BY <2>2, RemovalStepLinks
  <2> QED
    BY <1>14, <2>1, <2>2, LinkFailures
<1> QED
  BY <1>1, <1>2, <1>3, <1>4, <1>5, <1>6, <1>7, <1>8, <1>9, <1>10, <1>11, <1>12,
     <1>13, <1>14
     DEF Next, Inject, Ended, HostLibs

(* When the hook ends well, each versioned name of every host library      *)
(* leads to it in /lib and /lib64, and the unversioned one too unless      *)
(* another version in the container needs it: none of the libraries        *)
(* injected later takes a name back.                                       *)
THEOREM LinkedTheorem ==
  ASSUME \A files \in Layouts : LinksKeepNames(files) /\ ChainsAreShort(files)
  PROVE  Spec => []InjectedLibsAreLinked
<1> DEFINE IInv == Types /\ CheckedFirst /\ OneMountPointEach /\ InjectedLibs /\ LinksToCome
<1>1. Init => IInv
  BY InitTypes, InitCheckedFirst, InitOneMountPointEach, InitLinks
<1>2. IInv /\ [Next]_vars => IInv'
  BY StepTypes, StepCheckedFirst, StepOneMountPointEach, StepLinks
<1>3. IInv => InjectedLibsAreLinked
  <2> SUFFICES ASSUME Types, InjectedLibs, LinksToCome, status = "done", NEW h \in HostLibs
               PROVE  \A dir \in {"lib", "lib64"} \cap conf.allowed, n \in 0..Len(h.file) :
                        n > 0 \/ RootLinkIsFree(h) =>
                          Content(fs, NameIn(dir, h, n)) = File("host", h.ver)
    BY DEF InjectedLibsAreLinked, NameIn
  <2>1. todo = <<>> /\ pc = "end"
    BY DEF LinksToCome, Types
  <2>2. PICK real \in mountPoints : InjectedAt(h, real)
    BY <2>1 DEF InjectedLibs, IsInjected
  <2> QED
    BY <2>1, <2>2 DEF InjectedAt, Pending, Content
<1> QED
  BY <1>1, <1>2, <1>3, PTL DEF Spec

-----------------------------------------------------------------------------
(* Libraries of the container that are kept.  All paths on the chain of a  *)
(* library have its major number, or none.                                 *)

Begins(v, w) == Len(v) <= Len(w) /\ \A i \in 1..Len(v) : v[i] = w[i]

KeptIn(files, c) ==
  LET real == RealPath(files, c.path)
      lib == SharedLib(c.name, real.ver)
  IN  /\ files[real] = File("container", real.ver)
      /\ c.major = lib.major /\ c.minor = lib.minor /\ c.patch = lib.patch
      /\ \A q \in Chain(files, c.path) : q.ver # <<>> => q.ver[1] = c.major

\* What can be said of the links of one library.
Abbreviates(files, name) ==
  \A p \in Path : p.name = name /\ files[p].is = "link" => Begins(p.ver, files[p].to.ver)

LEMMA VersionsAreSequences == \A v \in Versions : v \in Seq(Nat) /\ Len(v) \in Nat
BY MpiAssumption

LEMMA PrefixBegins ==
  ASSUME NEW v \in Versions, NEW w \in Versions, IsPrefix(v, w)
  PROVE  Begins(v, w)
<1>1. v \in Seq(Nat) /\ w \in Seq(Nat) /\ Len(v) <= Len(w) /\ Len(v) \in Nat /\ Len(w) \in Nat
      /\ SubSeq(v, 1, Len(v)) = SubSeq(w, 1, Len(v))
  BY VersionsAreSequences DEF IsPrefix
<1>2. ASSUME NEW i \in 1..Len(v)
      PROVE  v[i] = w[i]
  <2>1. SubSeq(v, 1, Len(v))[i] = v[i] /\ SubSeq(w, 1, Len(v))[i] = w[i]
    BY <1>1
  <2> QED
    BY <1>1, <2>1
<1> QED
  BY <1>1, <1>2 DEF Begins

LEMMA BeginsIsTransitive ==
  ASSUME NEW u \in Versions, NEW v \in Versions, NEW w \in Versions,
         Begins(u, v), Begins(v, w)
  PROVE  Begins(u, w)
<1>1. Len(u) \in Nat /\ Len(v) \in Nat /\ Len(w) \in Nat
  BY VersionsAreSequences
<1> QED
  BY <1>1 DEF Begins

LEMMA PathVersions == \A p \in Path : p.ver \in Versions
BY DEF Path

(* Along a chain versions get longer.                                      *)
LEMMA ChainLengthens ==
  ASSUME NEW files \in [Path -> Entry], LinksKeepNames(files), NEW p \in Path,
         Abbreviates(files, p.name), NEW q \in Chain(files, p)
  PROVE  Begins(q.ver, RealPath(files, p).ver)
<1> DEFINE g == After(files, p)
<1>1. PICK k \in 0..MaxHops : q = g[k]
  BY DEF Chain
<1>2. /\ g \in [0..MaxHops -> Path]
      /\ \A n \in 1..MaxHops : g[n] = Hop(files, g[n - 1])
  BY ChainOfLinks
<1>3. \A n \in 0..MaxHops : g[n].name = p.name
  BY OneNameOnChain DEF Chain
<1>4. RealPath(files, p) = g[MaxHops]
  BY DEF RealPath
<1> DEFINE S == {n \in 0..MaxHops : n >= k => Begins(q.ver, g[n].ver)}
<1> HIDE DEF g
<1>5. q.ver \in Versions /\ \A n \in 0..MaxHops : g[n].ver \in Versions
  BY <1>1, <1>2, PathVersions
<1>6. Begins(q.ver, q.ver)
  BY <1>5, VersionsAreSequences DEF Begins
<1>7. 0 \in S
  BY <1>1, <1>6, HopsBound
<1>8. ASSUME NEW n \in 1..MaxHops, n - 1 \in S
      PROVE  n \in S
  <2> SUFFICES ASSUME n >= k
               PROVE  Begins(q.ver, g[n].ver)
    OBVIOUS
  <2>1. CASE n = k
    BY <1>1, <1>6, <2>1
  <2>2. CASE n # k
    <3>1. Begins(q.ver, g[n - 1].ver) /\ n - 1 \in 0..MaxHops /\ n \in 0..MaxHops
      BY <1>8, <2>2
    <3>2. g[n - 1] \in Path /\ g[n - 1].name = p.name /\ g[n] = Hop(files, g[n - 1])
      BY <1>2, <1>3, <3>1
    <3>3. g[n] = g[n - 1] \/ Begins(g[n - 1].ver, g[n].ver)
      BY <3>2 DEF Hop, Abbreviates
    <3> QED
      BY <1>5, <3>1, <3>3, BeginsIsTransitive
  <2> QED
    BY <2>1, <2>2
<1>9. 0..MaxHops \subseteq S
  <2> HIDE DEF S
  <2> QED
    BY <1>7, <1>8, HopsBound, SetInductionUpTo
<1> QED
  BY <1>1, <1>4, <1>9, HopsBound

LEMMA ResolvedIsReal ==
  ASSUME NEW files \in [Path -> Entry], LinksKeepNames(files), NEW p \in Path,
         Abbreviates(files, p.name)
  PROVE  ResolvedVersion(files, p) = RealPath(files, p).ver
<1> DEFINE w == RealPath(files, p).ver
           V == {q.ver : q \in Chain(files, p)}
           Longest(v) == \A q \in Chain(files, p) : Len(q.ver) <= Len(v)
<1>1. RealPath(files, p) \in Chain(files, p)
  BY HopsBound DEF RealPath, Chain
<1>2. w \in V /\ Longest(w)
  BY <1>1, ChainLengthens DEF Begins
<1>3. ResolvedVersion(files, p) = CHOOSE v \in V : Longest(v)
  BY DEF ResolvedVersion
<1>4. ASSUME NEW v \in V, Longest(v)
      PROVE  v = w
  <2>1. PICK q \in Chain(files, p) : v = q.ver
    OBVIOUS
  <2>2. Begins(v, w) /\ Len(w) <= Len(v)
    BY <1>1, <1>4, <2>1, ChainLengthens
  <2>3. v \in Versions /\ w \in Versions
    BY <1>1, <2>1, RealPathIsPath, PathVersions
  <2>4. /\ v \in Seq(Nat) /\ w \in Seq(Nat) /\ Len(v) = Len(w)
        /\ \A i \in 1..Len(v) : v[i] = w[i]
    BY <2>2, <2>3, VersionsAreSequences DEF Begins
  <2> HIDE DEF w
  <2> QED
    BY <2>4
<1> HIDE DEF V, Longest, w
<1>5. (CHOOSE v \in V : Longest(v)) = w
  BY <1>2, <1>4
<1> QED
  BY <1>3, <1>5 DEF w

LEMMA ListedIsKept ==
  ASSUME NEW files \in Layouts, files \in [Path -> Entry],
         LinksKeepNames(files), LinksAbbreviate(files), FilesAreNamed(files),
         NEW p \in Path, Resolves(files, p)
  PROVE  KeptIn(files, ContainerLib(files, p))
<1> DEFINE real == RealPath(files, p)
           c == ContainerLib(files, p)
           lib == SharedLib(p.name, real.ver)
<1>1. real \in Path /\ files[real] \in Entry /\ files[real].is = "file"
  BY RealPathIsPath DEF Resolves, Content
<1>2. files[real] = File("container", real.ver)
  <2>1. files[real] = File(files[real].origin, files[real].ver)
    BY <1>1, EntryKinds
  <2>2. files[real].ver = real.ver /\ files[real].origin = "container"
    BY <1>1, InputsAssumption DEF FilesAreNamed
  <2> QED
    BY <2>1, <2>2
<1>3. Abbreviates(files, p.name)
  BY EntryKinds, PathVersions, PrefixBegins DEF LinksAbbreviate, Abbreviates
<1>4. ResolvedVersion(files, p) = real.ver
  BY <1>3, ResolvedIsReal
<1>5. /\ c.path = p /\ c.name = p.name
      /\ c.major = lib.major /\ c.minor = lib.minor /\ c.patch = lib.patch
  BY <1>4 DEF ContainerLib, SharedLib
<1>6. ASSUME NEW q \in Chain(files, p), q.ver # <<>>
      PROVE  q.ver[1] = lib.major
  <2>1. Begins(q.ver, real.ver) /\ q \in Path
    BY <1>3, ChainLengthens, RealPathIsPath
  <2>2. q.ver \in Seq(Nat) /\ real.ver \in Seq(Nat)
    BY <1>1, <2>1, VersionsAreSequences, PathVersions
  <2>3. Len(q.ver) > 0 /\ Len(real.ver) \in Nat
    BY <1>6, <2>2
  <2>4. Len(real.ver) > 0 /\ q.ver[1] = real.ver[1]
    BY <2>1, <2>2, <2>3 DEF Begins
  <2> QED
    BY <2>4 DEF SharedLib
<1> QED
  BY <1>2, <1>5, <1>6 DEF KeptIn

LEMMA KeptOffChain ==
  ASSUME NEW files \in [Path -> Entry], NEW c, c.path \in Path, KeptIn(files, c),
         NEW q \in Path, q \notin Chain(files, c.path), NEW e \in Entry,
         NEW files2, Written(files, q, e, files2)
  PROVE  KeptIn(files2, c) /\ Chain(files2, c.path) = Chain(files, c.path)
<1>1. /\ Chain(files2, c.path) = Chain(files, c.path)
      /\ RealPath(files2, c.path) = RealPath(files, c.path)
      /\ Content(files2, c.path) = Content(files, c.path)
  BY OffChain
<1> QED
  BY <1>1 DEF KeptIn, Content

\* An application of the container that uses c cannot use h instead.
OtherMajor(h, c) ==
  h.file # <<>> /\ HasMajorVersion(c) /\ c.major # HostLib(h).major

ToBeInjected(h) == \E i \in DOMAIN todo : todo[i].lib = h

OthersKept ==
  /\ pc = "construct" => \A n \in Names : Elems(hostToContainerLibs[n]) = {}
  /\ \A h \in HostLibs : \A c \in Elems(Candidates(h)) :
       pc = "check" \/ ToBeInjected(h) \/ OtherMajor(h, c) => KeptIn(fs, c)
  /\ \A l \in Elems(links), h \in HostLibs : \A c \in Elems(Candidates(h)) :
       ~l.keep /\ OtherMajor(h, c) => l.link \notin Chain(fs, c.path)
  /\ \A i \in DOMAIN todo : Abbreviates(fs, todo[i].lib.name)

LEMMA SameHostLibs ==
  ASSUME UNCHANGED <<conf, hostToContainerLibs>>
  PROVE  HostLibs' = HostLibs /\ \A h : Candidates(h)' = Candidates(h)
BY DEF HostLibs, HostMpiLibs, Candidates

(* The file of a host library has the major number in its name.            *)
LEMMA MajorInFileName ==
  ASSUME Types, NEW h \in HostLibs,
         \A libs \in MpiLibs \cup DepLibs : HostNamesAbbreviate(libs),
         h.file # <<>>
  PROVE  /\ h \in HostLibrary /\ Len(h.file) > 0
         /\ HostLib(h).major = h.file[1]
<1>1. h \in HostLibrary /\ h.file \in Versions /\ h.ver \in Versions
  BY HostLibsTyped, HostLibraryFields
<1>2. Begins(h.file, h.ver)
  <2>1. h \in Elems(conf.mpi) \/ h \in Elems(conf.deps)
    BY DEF HostLibs, HostMpiLibs
  <2>2. conf.mpi \in MpiLibs /\ conf.deps \in DepLibs
    BY DEF Types
  <2>3. IsPrefix(h.file, h.ver)
    BY <2>1, <2>2 DEF HostNamesAbbreviate
  <2> QED
    BY <1>1, <2>3, PrefixBegins
<1>3. h.file \in Seq(Nat) /\ h.ver \in Seq(Nat) /\ Len(h.ver) \in Nat /\ Len(h.file) \in Nat
  BY <1>1, VersionsAreSequences
<1>4. Len(h.file) > 0
  BY <1>3
<1>5. Len(h.ver) > 0 /\ h.file[1] = h.ver[1]
  BY <1>2, <1>3, <1>4 DEF Begins
<1> QED
  BY <1>1, <1>4, <1>5 DEF HostLib, SharedLib

LEMMA YesOnMajor ==
  ASSUME NEW h, NEW type \in CheckerTypes, Verdict(h, type) = "yes"
  PROVE  BestCandidate(h).major = HostLib(h).major
<1> DEFINE host == HostLib(h)
           best == BestCandidate(h)
<1>1. MajorCheck(host, best) = "yes" => AreMajorAbiCompatible(host, best)
  BY DEF MajorCheck
<1>2. FullCheck(host, best) = "yes" => AreMajorAbiCompatible(host, best)
  BY DEF FullCheck, AreFullAbiCompatible
<1>3. StrictCheck(host, best) = "yes" => AreMajorAbiCompatible(host, best)
  BY DEF StrictCheck, AreStrictlyAbiCompatible
<1>4. DependenciesCheck(host, best) = "yes" => AreMajorAbiCompatible(host, best)
  BY <1>2 DEF DependenciesCheck
<1>5. AreMajorAbiCompatible(host, best)
  BY <1>1, <1>2, <1>3, <1>4 DEF Verdict, Check, CheckerTypes
<1> QED
  BY <1>5 DEF AreMajorAbiCompatible

(* Where the library of the host is mounted is on no chain to a library of *)
(* another major number.                                                   *)
LEMMA MountMissesOthers ==
  ASSUME \A libs \in MpiLibs \cup DepLibs : HostNamesAbbreviate(libs),
         Types, OneMountPointEach, OthersKept, NEW h \in HostLibs, NEW type \in CheckerTypes,
         NEW dest \in Path, dest.name = h.name, NEW preserve,
         Injected(h, type, dest, preserve), NEW real, real = RealPath(fs, dest),
         NEW c \in Elems(Candidates(h)), OtherMajor(h, c)
  PROVE  real \notin Chain(fs, c.path) /\ KeptIn(fs, c) /\ c.path \in Path
<1>1. /\ h \in HostLibrary /\ Len(h.file) > 0 /\ HostLib(h).major = h.file[1]
      /\ h.file \in Versions
  BY MajorInFileName, HostLibraryFields DEF OtherMajor
<1>2. fs \in [Path -> Entry] /\ LinksKeepNames(fs)
  BY DEF Types, OneMountPointEach
<1>3. 1 \in DOMAIN todo /\ todo[1].lib = h
  BY HeadAndTail DEF Types, Injected
<1>4. \A c2 \in Elems(Candidates(h)) : KeptIn(fs, c2)
  BY <1>3 DEF OthersKept, ToBeInjected
<1>5. c.path \in Path /\ c.path.name = h.name
  BY <1>1, CandidatesHaveTheName
<1> SUFFICES ASSUME real \in Chain(fs, c.path)
             PROVE  FALSE
  BY <1>4, <1>5
<1>6. CASE dest = InLib(h)
  <2>1. Abbreviates(fs, h.name)
    BY <1>3 DEF OthersKept
  <2>2. Begins(h.file, real.ver)
    <3>1. dest.ver = h.file /\ dest \in Chain(fs, dest)
      BY <1>2, <1>6, RealPathIsPath DEF InLib, In
    <3> QED
      BY <1>2, <2>1, <3>1, ChainLengthens
  <2>3. real \in Path /\ real.ver \in Seq(Nat) /\ Len(real.ver) \in Nat /\ Len(h.file) \in Nat
    BY <1>1, <1>2, RealPathIsPath, PathVersions, VersionsAreSequences
  <2>4. Len(real.ver) > 0 /\ real.ver[1] = h.file[1]
    BY <1>1, <2>2, <2>3 DEF Begins
  <2>5. real.ver # <<>>
    BY <2>4
  <2>6. real.ver[1] = c.major
    BY <1>4, <2>5 DEF KeptIn
  <2> QED
    BY <1>1, <2>4, <2>6 DEF OtherMajor
<1>7. CASE Verdict(h, type) = "yes" /\ dest = BestCandidate(h).path /\ Candidates(h) # <<>>
  <2> DEFINE best == BestCandidate(h)
  <2>1. best \in Elems(Candidates(h)) /\ best.path \in Path
    BY <1>1, <1>7, BestIsCandidate
  <2>2. KeptIn(fs, best) /\ KeptIn(fs, c)
    BY <1>4, <2>1
  <2>3. real = RealPath(fs, best.path) /\ real \in Path
    BY <1>2, <1>7, RealPathIsPath
  <2>4. fs[real].is # "link" /\ Content(fs, c.path).is # "link"
    BY <2>2, <2>3 DEF KeptIn, File, Content
  <2>5. RealPath(fs, real) = real
    <3>1. fs[After(fs, real)[0]].is # "link" /\ After(fs, real)[0] = real
      BY <1>2, <2>3, <2>4, ChainOfLinks
    <3>2. 0 \in 0..MaxHops /\ MaxHops \in 0..MaxHops
      BY HopsBound
    <3> QED
      BY <1>2, <2>3, <3>1, <3>2, ChainEnds DEF RealPath
  <2>6. RealPath(fs, real) = RealPath(fs, c.path)
    BY <1>2, <1>5, <2>4, OnChain
  <2>7. best.major = c.major
    BY <2>2, <2>3, <2>5, <2>6 DEF KeptIn, SharedLib
  <2>8. best.major = HostLib(h).major
    BY <1>7, YesOnMajor
  <2> QED
    BY <2>7, <2>8 DEF OtherMajor
<1> QED
  BY <1>6, <1>7 DEF Injected

(* Nor are the links that will be made, the unversioned one included: it   *)
(* is kept if a library of another major number is found through it.       *)
LEMMA LinkMissesOthers ==
  ASSUME \A libs \in MpiLibs \cup DepLibs : HostNamesAbbreviate(libs),
         Types, NEW h \in HostLibs, NEW target \in Path,
         NEW files \in [Path -> Entry], NEW made,
         NEW preserve, HasIncompatibleVersion(h) => preserve,
         LinksOf(made, files, h, target, preserve),
         NEW c \in Elems(Candidates(h)), OtherMajor(h, c), KeptIn(files, c),
         NEW l \in Elems(made), ~l.keep
  PROVE  l.link \notin Chain(files, c.path)
<1>1. /\ h \in HostLibrary /\ Len(h.file) > 0 /\ HostLib(h).major = h.file[1]
      /\ h.file \in Seq(Nat)
  BY MajorInFileName, HostLibraryFields DEF OtherMajor
<1>2. PICK dir \in {"lib", "lib64"}, n \in 0..Len(h.file) :
        /\ l.link = In(dir, h.name, SubSeq(h.file, 1, n))
        /\ l.keep <=> preserve /\ RootLinkExists(files, h) /\ SubSeq(h.file, 1, n) = <<>>
  BY DEF LinksOf
<1>3. c.path \in Path
  BY <1>1, CandidatesHaveTheName
<1> SUFFICES ASSUME l.link \in Chain(files, c.path)
             PROVE  FALSE
  OBVIOUS
<1>4. CASE n > 0
  <2>1. SubSeq(h.file, 1, n) # <<>> /\ SubSeq(h.file, 1, n)[1] = h.file[1]
    <3>1. Len(SubSeq(h.file, 1, n)) = n /\ SubSeq(h.file, 1, n)[1] = h.file[1]
      BY <1>1, <1>4
    <3> QED
      BY <1>4, <3>1
  <2>2. l.link.ver = SubSeq(h.file, 1, n)
    BY <1>2 DEF In
  <2>3. l.link.ver[1] = c.major
    BY <2>1, <2>2 DEF KeptIn
  <2> QED
    BY <1>1, <2>1, <2>2, <2>3 DEF OtherMajor
<1>5. CASE n = 0
  <2>1. SubSeq(h.file, 1, n) = <<>>
    BY <1>1, <1>5
  <2>2. l.link = In(dir, h.name, <<>>) /\ dir \in Dirs \ Local
    BY <1>2, <2>1, MpiAssumption
  <2>3. preserve
    <3>1. ~AreFullAbiCompatible(HostLib(h), c)
      BY DEF OtherMajor, AreFullAbiCompatible, AreMajorAbiCompatible
    <3> QED
      BY <3>1 DEF HasIncompatibleVersion, OtherMajor
  <2>4. RootLinkExists(files, h)
    <3>1. CASE files[l.link].is = "link"
      BY <2>2, <3>1 DEF RootLinkExists
    <3>2. CASE files[l.link].is # "link"
      <4>1. Content(files, c.path).is = "file"
        BY DEF KeptIn, Content, File
      <4>2. RealPath(files, l.link) = RealPath(files, c.path)
        BY <1>3, <4>1, OnChain
      <4>3. Resolves(files, l.link)
        BY <4>1, <4>2 DEF Resolves, Content
      <4> QED
        BY <2>2, <4>3 DEF RootLinkExists
    <3> QED
      BY <3>1, <3>2
  <2> QED
    BY <1>2, <2>1, <2>3, <2>4
<1> QED
  BY <1>4, <1>5

LEMMA InjectStepKept ==
  ASSUME \A libs \in MpiLibs \cup DepLibs : HostNamesAbbreviate(libs),
         Types, OneMountPointEach, OthersKept, NEW h \in HostLibs, NEW type \in CheckerTypes,
         NEW dest \in Path, dest.name = h.name, NEW preserve \in BOOLEAN,
         Injected(h, type, dest, preserve), NEW real, real = RealPath(fs, dest),
         LinksKeepNames(fs')
  PROVE  OthersKept'
<1> DEFINE e == File("host", h.ver)
<1>1. /\ BindMount(h, dest, preserve) /\ todo # <<>> /\ h = Head(todo).lib /\ pc = "inject"
      /\ UNCHANGED <<conf, hostToContainerLibs, status>>
  BY DEF Injected
<1>2. h \in HostLibrary /\ HostLibs \subseteq HostLibrary
  BY HostLibsTyped
<1>3. /\ real \in Path /\ e \in Entry
      /\ fs' = [fs EXCEPT ![real] = e] /\ fs' \in [Path -> Entry]
      /\ \A i \in DOMAIN todo' : i + 1 \in DOMAIN todo /\ todo'[i] = todo[i + 1]
      /\ links' = LinksFor(fs', h, dest, preserve) /\ pc' = "link"
      /\ todo' = Tail(todo)
  BY <1>1, <1>2, BindMountEffect
<1>4. /\ Head(todo) = todo[1] /\ 1 \in DOMAIN todo
      /\ DOMAIN todo' = 1..(Len(todo) - 1) /\ Len(todo) \in Nat
  BY <1>1, <1>3, HeadAndTail DEF Types
<1>5. fs \in [Path -> Entry] /\ LinksKeepNames(fs)
  BY DEF Types, OneMountPointEach
<1>6. real.name = h.name
  BY <1>5, OneNameOnChain
<1>7. Written(fs, real, e, fs')
  BY <1>3, <1>5, WriteEffect
<1>8. HostLibs' = HostLibs /\ \A h2 : Candidates(h2)' = Candidates(h2)
  BY <1>1, SameHostLibs
<1>9. LinksOf(links', fs', h, dest, preserve)
  BY <1>2, <1>3, LinksForType
<1>10. ASSUME NEW i \in DOMAIN todo'
       PROVE  /\ todo'[i].lib.name # h.name
              /\ Abbreviates(fs', todo'[i].lib.name)
              /\ i + 1 \in DOMAIN todo /\ todo'[i] = todo[i + 1]
  <2>1. i + 1 \in DOMAIN todo /\ todo'[i] = todo[i + 1] /\ i + 1 # 1
    BY <1>3, <1>4
  <2>2. todo'[i].lib.name # h.name
    BY <1>1, <1>4, <2>1 DEF OneMountPointEach
  <2>3. Abbreviates(fs, todo'[i].lib.name)
    BY <2>1 DEF OthersKept
  <2>4. \A p \in Path : p.name = todo'[i].lib.name => fs'[p] = fs[p]
    BY <1>6, <1>7, <2>2 DEF Written
  <2> QED
    BY <2>1, <2>2, <2>3, <2>4 DEF Abbreviates
<1>11. ASSUME NEW h2 \in HostLibs, NEW c \in Elems(Candidates(h2)),
              ToBeInjected(h2)' \/ OtherMajor(h2, c)
       PROVE  KeptIn(fs', c) /\ c.path \in Path /\ c.path.name = h2.name
  <2>1. c.path \in Path /\ c.path.name = h2.name
    BY <1>2, CandidatesHaveTheName
  <2>2. KeptIn(fs, c)
    BY <1>10, <1>11 DEF OthersKept, ToBeInjected
  <2>3. real \notin Chain(fs, c.path)
    <3>1. CASE h2.name = h.name
      <4>1. h2 = h /\ OtherMajor(h, c)
        <5>1. h2 = h
          BY <3>1, OneLibraryOfEachName
        <5>2. ~ToBeInjected(h)'
          BY <1>10 DEF ToBeInjected
        <5> QED
          BY <1>11, <5>1, <5>2
      <4> QED
        BY <4>1, MountMissesOthers
    <3>2. CASE h2.name # h.name
      BY <1>3, <1>5, <1>6, <1>7, <2>1, <3>2, OtherName
    <3> QED
      BY <3>1, <3>2
  <2>4. KeptIn(fs', c)
    BY <1>3, <1>5, <1>7, <2>1, <2>2, <2>3, KeptOffChain
  <2> QED
    BY <2>1, <2>4
<1>12. ASSUME NEW l \in Elems(links'), NEW h2 \in HostLibs, NEW c \in Elems(Candidates(h2)),
              ~l.keep, OtherMajor(h2, c)
       PROVE  l.link \notin Chain(fs', c.path)
  <2>1. KeptIn(fs', c) /\ c.path \in Path /\ c.path.name = h2.name
    BY <1>11, <1>12
  <2>2. CASE h2.name = h.name
    <3>1. h2 = h
      BY <2>2, OneLibraryOfEachName
    <3>2. HasIncompatibleVersion(h) => preserve
      BY <1>12, <3>1 DEF Injected, Elems
    <3> QED
      BY <1>3, <1>9, <1>12, <2>1, <3>1, <3>2, LinkMissesOthers
  <2>3. CASE h2.name # h.name
    <3>1. l.link.name = h.name
      <4>1. PICK dir \in {"lib", "lib64"}, n \in 0..Len(h.file) :
              l.link = In(dir, h.name, SubSeq(h.file, 1, n))
        BY <1>9, <1>12 DEF LinksOf
      <4> QED
        BY <4>1 DEF In
    <3> QED
      BY <1>3, <2>1, <2>3, <3>1, OneNameOnChain
  <2> QED
    BY <2>2, <2>3
<1>13. \A h2 \in HostLibs : \A c \in Elems(Candidates(h2)) :
         ToBeInjected(h2)' \/ OtherMajor(h2, c) => KeptIn(fs', c)
  BY <1>11
<1>14. \A l \in Elems(links'), h2 \in HostLibs : \A c \in Elems(Candidates(h2)) :
         ~l.keep /\ OtherMajor(h2, c) => l.link \notin Chain(fs', c.path)
  BY <1>12
<1> QED
  BY <1>3, <1>8, <1>10, <1>13, <1>14 DEF OthersKept

LEMMA SkipStepKept ==
  ASSUME Types, OthersKept, SkipLink
  PROVE  OthersKept'
<1>1. /\ UNCHANGED <<conf, fs, mountPoints, hostToContainerLibs, todo, pc, status>>
      /\ links # <<>> /\ links' = Tail(links) /\ pc = "link"
  BY DEF SkipLink
<1>2. Elems(links') \subseteq Elems(links)
  BY <1>1, LinkEffect
<1>3. HostLibs' = HostLibs /\ \A h : Candidates(h)' = Candidates(h)
  BY <1>1, SameHostLibs
<1> QED
  BY <1>1, <1>2, <1>3 DEF OthersKept, ToBeInjected

(* What had the name of a link to be made is replaced or removed.          *)
LEMMA WriteStepKept ==
  ASSUME Types, OneMountPointEach, OthersKept, NEW l \in Elems(links), NEW e \in Entry,
         UNCHANGED <<conf, mountPoints, hostToContainerLibs, todo>>,
         pc = "link", pc' \in {"link", "end"}, ~SkipsLink(l),
         Elems(links') \subseteq Elems(links), l.link \in Path,
         Written(fs, l.link, e, fs')
  PROVE  OthersKept'
<1>1. /\ UNCHANGED <<conf, mountPoints, hostToContainerLibs, todo>>
      /\ pc = "link" /\ pc' \in {"link", "end"} /\ ~SkipsLink(l)
      /\ l \in Elems(links) /\ Elems(links') \subseteq Elems(links)
      /\ l.link \in Path /\ e \in Entry /\ Written(fs, l.link, e, fs')
  OBVIOUS
<1>2. fs \in [Path -> Entry] /\ LinksKeepNames(fs) /\ HostLibs \subseteq HostLibrary
  BY HostLibsTyped DEF Types, OneMountPointEach
<1>3. HostLibs' = HostLibs /\ \A h : Candidates(h)' = Candidates(h)
  BY <1>1, SameHostLibs
<1>4. \A i \in DOMAIN todo : todo[i].lib.name # l.link.name
  BY <1>1 DEF OneMountPointEach, Around
<1>5. ASSUME NEW i \in DOMAIN todo
      PROVE  Abbreviates(fs', todo[i].lib.name)
  <2>1. Abbreviates(fs, todo[i].lib.name)
    BY DEF OthersKept
  <2>2. \A p \in Path : p.name = todo[i].lib.name => fs'[p] = fs[p]
    BY <1>1, <1>4 DEF Written
  <2> QED
    BY <2>1, <2>2 DEF Abbreviates
<1>6. ASSUME NEW h \in HostLibs, NEW c \in Elems(Candidates(h)),
             ToBeInjected(h) \/ OtherMajor(h, c)
      PROVE  KeptIn(fs', c) /\ Chain(fs', c.path) = Chain(fs, c.path)
  <2>1. c.path \in Path /\ c.path.name = h.name
    BY <1>2, CandidatesHaveTheName
  <2>2. KeptIn(fs, c)
    BY <1>6 DEF OthersKept
  <2>3. l.link \notin Chain(fs, c.path)
    <3>1. CASE ToBeInjected(h)
      <4>1. c.path.name # l.link.name
        BY <1>4, <2>1, <3>1 DEF ToBeInjected
      <4> QED
        BY <1>1, <1>2, <2>1, <4>1, OtherName
    <3>2. CASE OtherMajor(h, c)
      BY <1>1, <3>2 DEF OthersKept, SkipsLink
    <3> QED
      BY <1>6, <3>1, <3>2
  <2> QED
    BY <1>1, <1>2, <2>1, <2>2, <2>3, KeptOffChain
<1>7. ASSUME NEW l2 \in Elems(links'), NEW h \in HostLibs, NEW c \in Elems(Candidates(h)),
             ~l2.keep, OtherMajor(h, c)
      PROVE  l2.link \notin Chain(fs', c.path)
  <2>1. l2.link \notin Chain(fs, c.path)
    BY <1>1, <1>7 DEF OthersKept
  <2> QED
    BY <1>6, <1>7, <2>1
<1>8. \A h \in HostLibs : \A c \in Elems(Candidates(h)) :
        ToBeInjected(h) \/ OtherMajor(h, c) => KeptIn(fs', c)
  BY <1>6
<1>9. \A l2 \in Elems(links'), h \in HostLibs : \A c \in Elems(Candidates(h)) :
        ~l2.keep /\ OtherMajor(h, c) => l2.link \notin Chain(fs', c.path)
  BY <1>7
<1> QED
  BY <1>1, <1>3, <1>5, <1>8, <1>9 DEF OthersKept, ToBeInjected

LEMMA MakeStepKept ==
  ASSUME Types, OneMountPointEach, OthersKept, MakeLink, NEW l, l = Head(links)
  PROVE  OthersKept'
<1>1. /\ UNCHANGED <<conf, mountPoints, hostToContainerLibs, todo, pc>>
      /\ pc = "link" /\ ~SkipsLink(l) /\ l \in Elems(links) /\ Elems(links') \subseteq Elems(links)
      /\ l.link \in Path /\ Link(l.target) \in Entry
      /\ Written(fs, l.link, Link(l.target), fs')
  BY MakeLinkEffect
<1> QED
  BY <1>1, WriteStepKept

LEMMA RemovalStepKept ==
  ASSUME Types, OneMountPointEach, OthersKept, Removal, NEW l, l = Head(links)
  PROVE  OthersKept'
<1>1. /\ UNCHANGED <<conf, mountPoints, hostToContainerLibs, todo, links>>
      /\ pc = "link" /\ pc' = "end"
  BY DEF Removal
<1>2. /\ l \in Elems(links) /\ l.link \in Path /\ Absent \in Entry /\ ~SkipsLink(l)
      /\ Written(fs, l.link, Absent, fs')
  BY RemovalEffect
<1> QED
  BY <1>1, <1>2, WriteStepKept

(* A step that writes nothing and lists nothing.                           *)
LEMMA NothingKept ==
  ASSUME OthersKept, UNCHANGED <<conf, fs, hostToContainerLibs, todo, links>>,
         pc' \in {"construct", "check"} => pc' = pc
  PROVE  OthersKept'
<1>1. HostLibs' = HostLibs /\ \A h : Candidates(h)' = Candidates(h)
  BY SameHostLibs
<1> QED
  BY <1>1 DEF OthersKept, ToBeInjected

LEMMA InitKept == Init => OthersKept
<1> SUFFICES ASSUME Init
             PROVE  OthersKept
  OBVIOUS
<1>1. todo = <<>> /\ links = <<>> /\ hostToContainerLibs = [n \in Names |-> <<>>]
      /\ pc = "construct"
  BY DEF Init
<1>2. \A n \in Names : Elems(hostToContainerLibs[n]) = {}
  BY <1>1 DEF Elems
<1>3. \A h \in HostLibs : Elems(Candidates(h)) = {}
  <2>1. HostLibs \subseteq HostLibrary
    BY InitTypes, HostLibsTyped
  <2> QED
    BY <1>2, <2>1, HostLibraryFields DEF Candidates
<1> QED
  BY <1>1, <1>2, <1>3 DEF OthersKept, ToBeInjected, Elems

LEMMA StepKept ==
  ASSUME \A files \in Layouts :
           LinksKeepNames(files) /\ LinksAbbreviate(files) /\ FilesAreNamed(files),
         \A libs \in MpiLibs \cup DepLibs : HostNamesAbbreviate(libs),
         Types, CheckedFirst, OneMountPointEach, OneMountPointEach', OthersKept, [Next]_vars
  PROVE  OthersKept'
<1>1. CASE Construct
  <2>1. /\ UNCHANGED <<conf, fs, mountPoints, todo, links, status>>
        /\ pc = "construct" /\ pc' = "check"
    BY <1>1 DEF Construct
  <2>2. todo = <<>> /\ links = <<>> /\ fs \in Layouts /\ fs \in [Path -> Entry]
    BY <2>1 DEF CheckedFirst, Types
  <2>3. HostLibs' = HostLibs /\ HostLibs \subseteq HostLibrary
    BY <2>1, HostLibsTyped DEF HostLibs, HostMpiLibs
  <2>4. ASSUME NEW h \in HostLibs, NEW c \in Elems(hostToContainerLibs'[h.name])
        PROVE  KeptIn(fs, c)
    <3>1. h.name \in Names /\ hostToContainerLibs'[h.name] \in Listings(h.name)
      BY <1>1, <2>3, HostLibraryFields DEF Construct
    <3>2. c.path \in Path /\ Resolves(fs, c.path) /\ c = ContainerLib(fs, c.path)
      BY <2>2, <2>4, <3>1, ListingType
    <3>3. KeptIn(fs, ContainerLib(fs, c.path))
      BY <2>2, <3>2, ListedIsKept
    <3> QED
      BY <3>2, <3>3
  <2> QED
    BY <2>1, <2>2, <2>3, <2>4 DEF OthersKept, Elems, Candidates
<1>2. CASE Refuse
  BY <1>2, NothingKept DEF Refuse, Stop
<1>3. CASE Accept
  <2>1. /\ UNCHANGED <<conf, fs, mountPoints, hostToContainerLibs, links, status>>
        /\ pc = "check" /\ pc' = "inject" /\ fs \in Layouts /\ fs \in [Path -> Entry]
        /\ links = <<>>
    BY <1>3 DEF Accept, CheckedFirst, Types
  <2>2. HostLibs' = HostLibs /\ \A h : Candidates(h)' = Candidates(h)
    BY <2>1, SameHostLibs
  <2>3. \A n : Abbreviates(fs, n)
    <3>1. ASSUME NEW p \in Path, fs[p].is = "link"
          PROVE  Begins(p.ver, fs[p].to.ver)
      <4>1. fs[p].to \in Path
        BY <2>1, <3>1, EntryKinds
      <4>2. IsPrefix(p.ver, fs[p].to.ver)
        BY <2>1, <3>1 DEF LinksAbbreviate
      <4> QED
        BY <4>1, <4>2, PathVersions, PrefixBegins
    <3> QED
      BY <3>1 DEF Abbreviates
  <2>4. \A h \in HostLibs : \A c \in Elems(Candidates(h)) : KeptIn(fs, c)
    BY <2>1 DEF OthersKept
  <2> QED
    BY <2>1, <2>2, <2>3, <2>4 DEF OthersKept, Elems
<1>4. ASSUME NEW h \in HostLibs, NEW type \in CheckerTypes,
             InjectNew(h, type) \/ InjectExisting(h, type)
      PROVE  OthersKept'
  <2>1. PICK dest \in Path, preserve \in BOOLEAN :
          dest.name = h.name /\ Injected(h, type, dest, preserve)
    BY <1>4, InjectSteps, NoLateRefusal
  <2>2. LinksKeepNames(fs')
    BY DEF OneMountPointEach
  <2> QED
    BY <2>1, <2>2, InjectStepKept
<1>5. CASE MountFails
  BY <1>5, NothingKept DEF MountFails, Stop
<1>6. CASE SkipLink
  BY <1>6, SkipStepKept
<1>7. CASE MakeLink
  BY <1>7, MakeStepKept
<1>8. CASE LinksDone
  BY <1>8, NothingKept DEF LinksDone
<1>9. CASE PerformBindMounts
  BY <1>9, NothingKept DEF PerformBindMounts
<1>10. CASE PerformBindMountsFails
  BY <1>10, NothingKept DEF PerformBindMountsFails, Stop
<1>11. CASE Ldconfig
  BY <1>11, NothingKept DEF Ldconfig, Stop
<1>12. CASE UNCHANGED vars
  BY <1>12, NothingKept DEF vars
<1>13. CASE ConstructFails
  BY <1>13, NothingKept DEF ConstructFails, Stop
<1>14. CASE LinkFails
  BY <1>14, LinkFailures, NothingKept, RemovalStepKept DEF Stopped
<1> QED
  BY <1>1, <1>2, <1>3, <1>4, <1>5, <1>6, <1>7, <1>8, <1>9, <1>10, <1>11, <1>12,
     <1>13, <1>14
     DEF Next, Inject, Ended, HostLibs

(* Wherever the hook stops, every library of the container with another    *)
(* major number than the host's is still found under its name, whatever    *)
(* has been mounted and linked, if versions in names are those of the      *)
(* files they lead to.                                                     *)
THEOREM OtherMajorsTheorem ==
  ASSUME \A files \in Layouts :
           LinksKeepNames(files) /\ LinksAbbreviate(files) /\ FilesAreNamed(files),
         \A libs \in MpiLibs \cup DepLibs : HostNamesAbbreviate(libs)
  PROVE  Spec => []OtherMajorsKeepTheirNames
<1> DEFINE IInv == Types /\ CheckedFirst /\ OneMountPointEach /\ OthersKept
<1>1. Init => IInv
  BY InitTypes, InitCheckedFirst, InitOneMountPointEach, InitKept
<1>2. IInv /\ [Next]_vars => IInv'
  BY StepTypes, StepCheckedFirst, StepOneMountPointEach, StepKept
<1>3. OthersKept => OtherMajorsKeepTheirNames
  <2> SUFFICES ASSUME OthersKept, NEW h \in HostLibs, NEW c \in Elems(Candidates(h)),
                      OtherMajor(h, c)
               PROVE  Untouched(c)
    BY DEF OtherMajorsKeepTheirNames, OtherMajor
  <2>1. KeptIn(fs, c)
    BY DEF OthersKept
  <2> QED
    BY <2>1 DEF KeptIn, Untouched, Resolves, Content, File, RealName, SharedLib
<1> QED
  BY <1>1, <1>2, <1>3, PTL DEF Spec
=============================================================================
