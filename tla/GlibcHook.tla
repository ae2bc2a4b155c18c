----------------------------- MODULE GlibcHook -----------------------------
(***************************************************************************)
(* The glibc hook (src/glibc/GlibcHook.cpp): it replaces the container's   *)
(* glibc by the host's if the container's is older and of the same ABI.    *)
(* Everything it needs to know it reads before its first mount.            *)
(***************************************************************************)
EXTENDS Container

CONSTANTS
  HostLibs,      \* GLIBC_LIBS, a sequence of [file, soname]
  HostVersion,   \* of the host's glibc, as <<major, minor>>
  LibcNames,     \* the names that isLibc accepts
  AbsoluteLinks  \* libraries of the image that are absolute symbolic links

ASSUME GlibcAssumption ==
  /\ HostLibs \in Seq([file : Names, soname : Names])
  /\ HostVersion \in Nat \X Nat
  /\ LibcNames \subseteq Names
  /\ AbsoluteLinks \subseteq Paths

VARIABLES
  version,  \* the version the image's ldd reports, None if it cannot
  missed    \* history: 64-bit libraries the cache lacked when it was read

glibcVars == <<version, missed>>

-----------------------------------------------------------------------------
(* findLibc of the host's libraries; None if there is none.                *)
HostLibc ==
  LET libcs == {i \in DOMAIN HostLibs : HostLibs[i].file \in LibcNames}
  IN  IF libcs = {} THEN None
      ELSE HostLibs[CHOOSE i \in libcs : \A j \in libcs : i <= j]

(* get64bitContainerLibraries: what the cache lists and the file system    *)
(* has.                                                                    *)
ContainerLibs == {p \in cache : Is64(p)}

ContainerLibcs == {p \in ContainerLibs : p.name \in LibcNames}

(* containerGlibcHasToBeReplaced, if ldd reports a version.                *)
Older(v, w) == v[1] < w[1] \/ (v[1] = w[1] /\ v[2] < w[2])
HasToBeReplaced == version # None /\ Older(version, HostVersion)

(* The path of the container's libc is not resolved within the container:  *)
(* behind an absolute link the hook reads a file of the host, if any.      *)
SonamesRead(p) ==
  IF p \in AbsoluteLinks THEN Names \cup {None} ELSE {libs[p].soname}

\* Only the first counterpart is replaced.
BadCounterparts(soname) ==
  LET same == {p \in ContainerLibs : p.name = soname}
  IN  IF same = {} THEN {} ELSE {CHOOSE p \in same : TRUE}

Counterparts(soname) == {p \in ContainerLibs : p.name = soname}

(* replaceGlibcLibrariesInContainer: each host library is mounted over all *)
(* its counterparts, or else, under the name of its file, into /lib64.     *)
Replacements ==
  [i \in DOMAIN HostLibs |->
     LET h == HostLibs[i]
     IN  Bind([origin |-> "glibc hook", soname |-> h.soname, bits |-> 64],
              IF Counterparts(h.soname) # {}
              THEN Counterparts(h.soname)
              ELSE {[dir |-> Lib64, name |-> h.file]})]

-----------------------------------------------------------------------------
(* injectGlibcLibrariesIfNecessary, up to the replacement.                 *)

GlibcKept ==
  /\ HostLibc # None
  /\ \/ ~hasCache
     \/ ContainerLibcs = {}
     \/ version # None /\ ~HasToBeReplaced
  /\ Start(<<>>)
  /\ UNCHANGED glibcVars

GlibcRefused ==
  /\ \/ HostLibc = None
     \/ /\ hasCache /\ ContainerLibcs # {}
        /\ \/ version = None
           \/ /\ HasToBeReplaced
              /\ \E p \in ContainerLibcs :
                   SonamesRead(p) # {HostLibc.soname}
  /\ Throw("refused")
  /\ UNCHANGED glibcVars

GlibcReplaced ==
  /\ HostLibc # None
  /\ hasCache
  /\ HasToBeReplaced
  /\ \E p \in ContainerLibcs : HostLibc.soname \in SonamesRead(p)
  /\ missed' = {p \in Paths : Is64(p)} \ cache
  /\ Start(Replacements)
  /\ UNCHANGED version

RunGlibcHook == GlibcKept \/ GlibcRefused \/ GlibcReplaced
=============================================================================
