-------------------------- MODULE DependencyGraph --------------------------
(***************************************************************************)
(* What resolve_graph (phoenix-driver/src/deps/graph.rs) makes of the      *)
(* packages that its walk has found: one version for each name.            *)
(*                                                                         *)
(* A dependency is [src, ref]: a git URL and a ref, or a directory.  A     *)
(* found package is [name, dep, version, deps, commit], with the           *)
(* dependencies of its own manifest.  A version is <<major, minor, patch>>. *)
(***************************************************************************)
EXTENDS Integers, Sequences, FiniteSets, SequencesExt, FiniteSetsExt, Functions

CONSTANTS
  Url, Dir,      \* where packages come from: git repositories, directories
  NoCommit       \* the commit of a package from a directory

ASSUME SourceAssumption == Url \cap Dir = {}

\* The order of versions.
Older(v, w) ==
  \/ v[1] < w[1]
  \/ v[1] = w[1] /\ v[2] < w[2]
  \/ v[1] = w[1] /\ v[2] = w[2] /\ v[3] < w[3]

\* caret_compatible: the leftmost part that is not 0 in both has to agree.
CaretCompatible(v, w) ==
  /\ v[1] = w[1]
  /\ v[1] = 0 => v[2] = w[2]
  /\ v[1] = 0 /\ v[2] = 0 => v[3] = w[3]

\* Where the packages of a name are among the found ones.
Named(found, n) == {i \in DOMAIN found : found[i].name = n}

\* Mutant: the first that was found.
M_SelectHighest(found, n) == found[Min(Named(found, n))]

\* select_highest: of several highest ones the last (max_by).
SelectHighest(found, n) ==
  found[Max({i \in Named(found, n) :
               \A j \in Named(found, n) : ~Older(found[i].version, found[j].version)})]

\* What the selected versions of some names depend on.
Needs(found, names) == UNION {DOMAIN SelectHighest(found, n).deps : n \in names}

\* Mutant: all that was found, superseded versions and what only they need included.
M_Reachable(rootDeps, found) == {found[i].name : i \in DOMAIN found}

\* The names reached from the root along the selected versions: those that are in every
\* set with the names of the root and what its members need.  All of them were found.
Reachable(rootDeps, found) ==
  LET known == {p.name : p \in Range(found)}
  IN  {n \in known : \A S \in SUBSET known :
         DOMAIN rootDeps \subseteq S /\ Needs(found, S) \subseteq S => n \in S}

\* One name from two sources, or at versions that are not compatible.
Conflict(rootDeps, found) ==
  \E p, q \in Range(found) :
    /\ p.name = q.name /\ p.name \in Reachable(rootDeps, found)
    /\ p.dep.src # q.dep.src \/ ~CaretCompatible(p.version, q.version)

Packages(rootDeps, found) ==
  [n \in Reachable(rootDeps, found) |-> SelectHighest(found, n)]

\* Mutant: directories are locked, too.
M_LockOf(packages) ==
  [n \in DOMAIN packages |->
     [dep |-> packages[n].dep, version |-> packages[n].version, rev |-> packages[n].commit]]

\* Lockfile::from_graph: directories are not locked.
LockOf(packages) ==
  [n \in {m \in DOMAIN packages : packages[m].dep.src \in Url} |->
     [dep |-> packages[n].dep, version |-> packages[n].version, rev |-> packages[n].commit]]
=============================================================================
