----------------------------- MODULE MCMpiHook -----------------------------
(* Instances of MpiHook for TLC.                                           *)
EXTENDS MpiHook

MCVersions == {<<>>, <<1>>, <<1, 0>>, <<1, 1>>, <<2>>, <<2, 0>>}

Empty == [p \in Path |-> Absent]
Put(dir, name, ver) == In(dir, name, ver) :> File("container", ver)
Soft(dir, name, ver, to) == In(dir, name, ver) :> Link(to)

\* A library with the link of its soname, and the link for the linker.
Chained(dir, name, ver) ==
  Put(dir, name, ver) @@ Soft(dir, name, <<ver[1]>>, In(dir, name, ver))
Rooted(dir, name, ver) ==
  Chained(dir, name, ver) @@ Soft(dir, name, <<>>, In(dir, name, ver))

MpiLayouts == {
  Chained("lib", "mpi", <<1, 0>>),
  Chained("local", "mpi", <<1, 1>>),
  Put("lib", "mpi", <<1, 0>>) @@ Put("lib64", "mpi", <<1, 1>>),
  Put("lib", "mpi", <<1, 0>>) @@ Put("lib64", "mpi", <<2, 0>>),
  Put("lib", "mpi", <<>>)}

DepLayouts == {
  <<>>,
  Put("lib", "dep", <<>>),
  Rooted("lib", "dep", <<1, 0>>),
  Chained("lib64", "dep", <<1, 1>>) @@ Soft("lib", "dep", <<>>, In("lib64", "dep", <<1, 1>>)),
  Put("lib", "dep", <<1, 0>>) @@ Rooted("lib", "dep", <<2, 0>>),
  Rooted("lib", "dep", <<2, 0>>),
  Rooted("local", "dep", <<2, 0>>),
  Soft("lib", "dep", <<1>>, In("lib", "dep", <<1, 1>>))}

MCLayouts == {dep @@ mpi @@ Empty : mpi \in MpiLayouts, dep \in DepLayouts}

ASSUME LayoutsAreOrdinary ==
  \A files \in MCLayouts : /\ LinksKeepNames(files) /\ ChainsAreShort(files)
                           /\ LinksAbbreviate(files) /\ FilesAreNamed(files)

Host(name, file, ver) == [name |-> name, file |-> file, ver |-> ver]

MCMpiLibs == {
  <<Host("mpi", <<1, 0>>, <<1, 0>>)>>,
  <<Host("mpi", <<1>>, <<1, 1>>)>>,
  <<Host("mpi", <<>>, <<>>)>>,
  <<Host("mpi", <<1, 1>>, <<1, 1>>), Host("dep", <<1, 1>>, <<1, 1>>)>>}

MCDepLibs == {
  <<>>,
  <<Host("dep", <<1, 0>>, <<1, 0>>)>>,
  <<Host("dep", <<1>>, <<1, 1>>)>>,
  <<Host("dep", <<>>, <<>>)>>}

ASSUME HostNamesAreOrdinary ==
  \A libs \in MCMpiLibs \cup MCDepLibs : HostNamesAbbreviate(libs)
=============================================================================
