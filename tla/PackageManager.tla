--------------------------- MODULE PackageManager --------------------------
(***************************************************************************)
(* The package manager (phoenix-driver/src/deps and pkg_cli.rs) of one     *)
(* project: `phoenix build`, with and without --locked, and `phoenix add`, *)
(* run one after the other; the manifest, the lockfile and the cache that  *)
(* they leave on disk; repositories whose branches move at any time; and   *)
(* processes that fail or are killed at any step.                          *)
(*                                                                         *)
(* A cached clone is used only by the process that made it: it is part of  *)
(* the process.  Packages are valid, and carry the name they are required  *)
(* by.                                                                     *)
(***************************************************************************)
EXTENDS DependencyGraph

CONSTANTS
  NameOrder,     \* the names of packages, in the order of a BTreeMap
  Commit,
  Content,       \* [version, deps] of each commit and of each directory
  Fixed,         \* the commits of the tags and revs of each repository
  Moving,        \* the ref of a branch
  History,       \* the commits that the branch of each repository moves along
  Manifests,     \* the [dependencies] the user writes by hand
  Additions,     \* what the user adds with `phoenix add`: <<name, dependency>>
  Torn,          \* a manifest that has been written in part
  NoLock,        \* there is no phoenix.lock
  MaxFaults      \* crashes and failures of the network and the disk

Name == Range(NameOrder)
Dependency == [src : Url \cup Dir, ref : STRING]
Version == Nat \X Nat \X Nat

\* The [dependencies] of a manifest.
IsDeps(deps) ==
  /\ DOMAIN deps \subseteq Name
  /\ \A n \in DOMAIN deps : deps[n] \in Dependency

ASSUME NameAssumption == NameOrder \in Seq(STRING)

ASSUME ContentAssumption ==
  \A c \in Commit \cup Dir : Content[c].version \in Version /\ IsDeps(Content[c].deps)

ASSUME RepositoryAssumption ==
  /\ NoCommit \notin Commit
  /\ \A u \in Url :
       /\ History[u] \in Seq(Commit) /\ History[u] # <<>>
       /\ \A r \in DOMAIN Fixed[u] : Fixed[u][r] \in Commit

ASSUME UserAssumption ==
  /\ \A m \in Manifests : IsDeps(m)
  /\ \A a \in Additions : a[1] \in Name /\ a[2] \in Dependency

VARIABLES
  pushed,        \* how far the branch of each repository is
  manifest,      \* phoenix.toml
  lock,          \* phoenix.lock
  checkout,      \* each commit's directory in the cache
  marked,        \* the commits whose checkout has its completion marker
  proc,          \* the process that runs, or how the last one ended
  settled,       \* history: the last process to succeed left this manifest and lock
  faults

vars == <<pushed, manifest, lock, checkout, marked, proc, settled, faults>>
disk == <<manifest, lock, checkout, marked>>

Idle(outcome) == [step |-> "idle", outcome |-> outcome]
Running == proc.step # "idle"
To(step) == proc' = [proc EXCEPT !.step = step]

\* f with the value v at x.
With(f, x, v) == [y \in DOMAIN f \cup {x} |-> IF y = x THEN v ELSE f[y]]

\* A finite set of numbers in their order.
Ascending(I) ==
  CHOOSE s \in [1 .. Cardinality(I) -> I] :
    Range(s) = I /\ \A i, j \in DOMAIN s : i < j => s[i] < s[j]

\* The walk goes into the dependencies of a manifest in the order of the names.
Frames(deps, chain) ==
  LET order == Ascending({i \in DOMAIN NameOrder : NameOrder[i] \in DOMAIN deps})
  IN  [i \in DOMAIN order |->
         LET n == NameOrder[order[i]] IN [name |-> n, dep |-> deps[n], chain |-> chain]]

\* resolve_project has read the lockfile; ready is history: a lock whose commits are all
\* checked out.
Resolving(op, deps, original, known) ==
  [step |-> "walk", op |-> op, root |-> deps, original |-> original, existing |-> lock,
   stack |-> Frames(deps, {}), found |-> <<>>, cloned |-> <<>>, commit |-> NoCommit,
   settled |-> known,
   ready |-> lock # NoLock /\ \A n \in DOMAIN lock : lock[n].rev \in marked]

Init ==
  /\ pushed = [u \in Url |-> 1]
  /\ manifest \in Manifests
  /\ lock = NoLock
  /\ checkout = [c \in Commit |-> "absent"]
  /\ marked = {}
  /\ proc = Idle("none")
  /\ settled = FALSE
  /\ faults = 0

-----------------------------------------------------------------------------
(* Commands.                                                               *)

\* build_package_resolution; a manifest that does not parse ends the command at once, and
\* for one without dependencies it does not look at the lockfile.
Build(op) ==
  /\ ~Running /\ manifest \notin {Torn, <<>>}
  /\ proc' = Resolving(op, manifest, manifest, settled)
  /\ UNCHANGED <<pushed, disk, settled, faults>>

\* cmd_add: the edited manifest is written in place.
Add(n, dep) ==
  /\ ~Running /\ manifest # Torn
  /\ manifest' = Torn
  /\ proc' = [step |-> "edit", op |-> "add", root |-> With(manifest, n, dep),
              original |-> manifest, existing |-> lock, settled |-> settled]
  /\ settled' = FALSE
  /\ UNCHANGED <<pushed, lock, checkout, marked, faults>>

\* It has been written: refresh_lock reads it back.
Edited ==
  /\ proc.step = "edit"
  /\ manifest' = proc.root
  /\ proc' = Resolving("add", proc.root, proc.original, proc.settled)
  /\ UNCHANGED <<pushed, lock, checkout, marked, settled, faults>>

-----------------------------------------------------------------------------
(* The walk (resolve_graph) and the fetches it makes (CacheFetcher).       *)

Top == proc.stack[1]

\* Mutant: the commit of a branch is looked up each time.
M_IsPinned(n, dep) ==
  /\ proc.existing # NoLock
  /\ n \in DOMAIN proc.existing
  /\ proc.existing[n].dep = dep /\ dep.ref # Moving

\* matches_ref: the lock's commit is used for the source and the ref it was locked for.
IsPinned(n, dep) ==
  /\ proc.existing # NoLock
  /\ n \in DOMAIN proc.existing
  /\ proc.existing[n].dep = dep

\* Mutant: only a tag is taken from the cache at once.
M_InCache(n, dep) ==
  IsPinned(n, dep) /\ proc.existing[n].rev \in marked /\ dep.ref # Moving

\* The fast path of materialize_git: the locked commit is checked out.
InCache(n, dep) == IsPinned(n, dep) /\ proc.existing[n].rev \in marked

\* Mutant: the repository is cloned again for every requirement.
M_Cloned(u) == With(proc.cloned, u, History[u][pushed[u]])

\* ensure_db, once for a URL in a resolve.
Cloned(u) ==
  IF u \in DOMAIN proc.cloned THEN proc.cloned
  ELSE With(proc.cloned, u, History[u][pushed[u]])

\* resolve_ref, in a clone whose branch is at head.
ResolveRef(dep, head) == IF dep.ref = Moving THEN head ELSE Fixed[dep.src][dep.ref]

\* The commit of a requirement, given the clones.
CommitOf(n, dep, cloned) ==
  IF dep.src \in Dir THEN NoCommit
  ELSE IF IsPinned(n, dep) THEN proc.existing[n].rev
  ELSE ResolveRef(dep, cloned[dep.src])

Package(n, dep, commit) ==
  LET content == Content[IF dep.src \in Dir THEN dep.src ELSE commit]
  IN  [name |-> n, dep |-> dep, version |-> content.version, deps |-> content.deps,
       commit |-> commit]

\* visited: this version of the package is known.
Visited(p) ==
  \E q \in Range(proc.found) :
    q.name = p.name /\ q.dep.src = p.dep.src /\ q.version = p.version

\* The package at the top of the stack has been fetched.
WalkOn(commit, cloned) ==
  LET p == Package(Top.name, Top.dep, commit)
  IN  proc' = [proc EXCEPT
        !.step = "walk", !.cloned = cloned, !.commit = NoCommit,
        !.found = IF Visited(p) THEN @ ELSE Append(@, p),
        !.stack = IF Visited(p) THEN Tail(@)
                  ELSE Frames(p.deps, Top.chain \cup {p.name}) \o Tail(@)]

\* Mutant: a package may be required by a package that it requires.
M_Fetchable == proc.step = "walk" /\ proc.stack # <<>>

Fetchable == proc.step = "walk" /\ proc.stack # <<>> /\ Top.name \notin Top.chain

FetchPath ==
  /\ Fetchable /\ Top.dep.src \in Dir
  /\ WalkOn(NoCommit, proc.cloned)
  /\ UNCHANGED <<pushed, disk, settled, faults>>

FetchPinned ==
  /\ Fetchable /\ Top.dep.src \in Url /\ InCache(Top.name, Top.dep)
  /\ WalkOn(proc.existing[Top.name].rev, proc.cloned)
  /\ UNCHANGED <<pushed, disk, settled, faults>>

HasRef(dep) == dep.ref \in {Moving} \cup DOMAIN Fixed[dep.src]

\* The rest of materialize_git, up to materialize_checkout.
FetchGit ==
  /\ Fetchable /\ Top.dep.src \in Url /\ ~InCache(Top.name, Top.dep) /\ HasRef(Top.dep)
  /\ LET cloned == Cloned(Top.dep.src)
         commit == CommitOf(Top.name, Top.dep, cloned)
     IN  IF commit \in marked THEN WalkOn(commit, cloned)
         ELSE proc' = [proc EXCEPT !.step = "clear", !.cloned = cloned, !.commit = commit]
  /\ UNCHANGED <<pushed, disk, settled, faults>>

\* materialize_checkout: what is left of an earlier attempt is removed.
ClearCheckout ==
  /\ proc.step = "clear"
  /\ marked' = marked \ {proc.commit}
  /\ checkout' = [checkout EXCEPT ![proc.commit] = "partial"]
  /\ To("fill")
  /\ UNCHANGED <<pushed, manifest, lock, settled, faults>>

\* Mutant: what is left of an earlier attempt is kept, and the marker comes first.
M_FillCheckout ==
  /\ proc.step = "fill"
  /\ marked' = marked \cup {proc.commit}
  /\ To("mark")
  /\ UNCHANGED <<pushed, manifest, lock, checkout, settled, faults>>

FillCheckout ==
  /\ proc.step = "fill"
  /\ checkout' = [checkout EXCEPT ![proc.commit] = "full"]
  /\ To("mark")
  /\ UNCHANGED <<pushed, manifest, lock, marked, settled, faults>>

MarkCheckout ==
  /\ proc.step = "mark"
  /\ marked' = marked \cup {proc.commit}
  /\ WalkOn(proc.commit, proc.cloned)
  /\ UNCHANGED <<pushed, manifest, lock, checkout, settled, faults>>

-----------------------------------------------------------------------------
(* The end of a command.                                                   *)

Walked == proc.step = "walk" /\ proc.stack = <<>>
Resolved == Walked /\ ~Conflict(proc.root, proc.found)
Chosen == Packages(proc.root, proc.found)

\* A lockfile without packages is not kept.
Fresh == LET locked == LockOf(Chosen) IN IF locked = <<>> THEN NoLock ELSE locked

\* reconcile_lock: with --locked a lock that differs is an error.  The rename of the new
\* lockfile is one step.
Reconcile ==
  /\ Resolved
  /\ proc.op = "locked" => Fresh = proc.existing
  /\ lock' = Fresh
  /\ proc' = Idle("done")
  /\ settled' = TRUE
  /\ UNCHANGED <<pushed, manifest, checkout, marked, faults>>

\* Mutant: the failure of a resolve is reported and no more.
M_Fails == proc' = Idle("failed")

\* cmd_add puts the manifest back.
Fails == IF proc.op = "add" THEN To("restore") ELSE proc' = Idle("failed")

\* What resolve_graph and reconcile_lock refuse: a cycle, a ref that does not exist, a
\* conflict, a lockfile that differs.
Refuse ==
  /\ \/ proc.step = "walk" /\ proc.stack # <<>> /\ Top.name \in Top.chain
     \/ Fetchable /\ Top.dep.src \in Url /\ ~HasRef(Top.dep)
     \/ Walked /\ Conflict(proc.root, proc.found)
     \/ Resolved /\ proc.op = "locked" /\ Fresh # proc.existing
  /\ Fails
  /\ UNCHANGED <<pushed, disk, settled, faults>>

\* The network or the disk fails in a step of resolve_project.
Fault ==
  /\ proc.step \in {"walk", "clear", "fill", "mark"} /\ faults < MaxFaults
  /\ faults' = faults + 1
  /\ Fails
  /\ UNCHANGED <<pushed, disk, settled>>

Restore ==
  /\ proc.step = "restore"
  /\ manifest' = Torn
  /\ To("restoring")
  /\ UNCHANGED <<pushed, lock, checkout, marked, settled, faults>>

Restored ==
  /\ proc.step = "restoring"
  /\ manifest' = proc.original
  /\ settled' = proc.settled
  /\ proc' = Idle("failed")
  /\ UNCHANGED <<pushed, lock, checkout, marked, faults>>

\* cmd_add cannot write the manifest, the first time or to put the old one back, and says so.
WriteFails ==
  /\ proc.step \in {"edit", "restore", "restoring"} /\ faults < MaxFaults
  /\ faults' = faults + 1
  /\ proc' = Idle("failed")
  /\ UNCHANGED <<pushed, disk, settled>>

\* The process is killed.
Crash ==
  /\ Running /\ faults < MaxFaults
  /\ faults' = faults + 1
  /\ proc' = Idle("crashed")
  /\ UNCHANGED <<pushed, disk, settled>>

-----------------------------------------------------------------------------
(* What goes on around the commands.                                       *)

Push(u) ==
  /\ pushed[u] < Len(History[u])
  /\ pushed' = [pushed EXCEPT ![u] = @ + 1]
  /\ UNCHANGED <<disk, proc, settled, faults>>

EditManifest(m) ==
  /\ ~Running /\ manifest # m
  /\ manifest' = m
  /\ settled' = FALSE
  /\ UNCHANGED <<pushed, lock, checkout, marked, proc, faults>>

\* The project is on another machine, or the cache is removed.
ClearCache ==
  /\ ~Running
  /\ checkout' = [c \in Commit |-> "absent"]
  /\ marked' = {}
  /\ UNCHANGED <<pushed, manifest, lock, proc, settled, faults>>

Next ==
  \/ \E op \in {"build", "locked"} : Build(op)
  \/ \E a \in Additions : Add(a[1], a[2])
  \/ Edited
  \/ FetchPath \/ FetchPinned \/ FetchGit \/ ClearCheckout \/ FillCheckout \/ MarkCheckout
  \/ Reconcile \/ Refuse \/ Fault \/ Restore \/ Restored
  \/ WriteFails \/ Crash
  \/ \E u \in Url : Push(u)
  \/ \E m \in Manifests : EditManifest(m)
  \/ ClearCache

Spec == Init /\ [][Next]_vars

-----------------------------------------------------------------------------
(* Properties.                                                             *)

Requirements(n) ==
  {m[n] : m \in {d \in {proc.root} \cup {p.deps : p \in Range(proc.found)} : n \in DOMAIN d}}

Required == DOMAIN proc.root \cup UNION {DOMAIN p.deps : p \in Range(proc.found)}

\* A manifest is incomplete while `add` writes it.  The lockfile and the marked checkouts
\* are of packages that exist.
TypeOK ==
  /\ proc.step \in {"edit", "restoring"} => manifest = Torn
  /\ lock # NoLock =>
       lock # <<>> /\ \A n \in DOMAIN lock :
         lock[n].rev \in Commit /\ lock[n].version = Content[lock[n].rev].version
  /\ marked \subseteq Commit
  /\ \A c \in Commit : checkout[c] \in {"absent", "partial", "full"}

\* A checkout that carries the marker is complete, and so is every checkout that a
\* running resolve has read a manifest from, whatever was interrupted before.
CheckoutsComplete ==
  /\ \A c \in marked : checkout[c] = "full"
  /\ Running /\ proc.step \notin {"edit", "restore", "restoring"} =>
       \A p \in Range(proc.found) : p.commit # NoCommit => checkout[p.commit] = "full"

\* A branch that moves while a resolve is under way does not split it: whoever requires
\* a package at one ref gets the same commit.
OneCommitPerRef ==
  Running /\ proc.step # "edit" =>
    \A p, q \in Range(proc.found) : p.name = q.name /\ p.dep = q.dep => p.commit = q.commit

\* Everything that is part of the resolved graph gets, for each of its dependencies, the
\* source it names, and a version that is compatible with the one it asked for and not
\* older, though the version was chosen among those that other packages brought in.
RequirementsServed ==
  Resolved =>
    \A deps \in {proc.root} \cup {p.deps : p \in Range(Chosen)} : \A n \in DOMAIN deps :
      LET asked == Package(n, deps[n], CommitOf(n, deps[n], proc.cloned)).version
      IN  /\ n \in DOMAIN Chosen /\ Chosen[n].dep.src = deps[n].src
          /\ ~Older(Chosen[n].version, asked) /\ CaretCompatible(Chosen[n].version, asked)

\* The version that a requirement means, in these [dependencies].
Asks(deps, n, version) ==
  n \in DOMAIN deps /\ version = Package(n, deps[n], CommitOf(n, deps[n], proc.cloned)).version

\* The [dependencies] that are part of the graph, and those that the walk has found but not
\* kept, because another version was selected or nothing that was selected requires them.
Kept == {proc.root} \cup {p.deps : p \in Range(Chosen)}
Discarded == {p.deps : p \in Range(proc.found) \ Range(Chosen)}

\* Every package of the graph is required there, and at the version that it has, if no
\* package of the graph was found in two versions.  If one was, a superseded version, or
\* what only that requires, may have asked for a version that is higher than what the rest
\* of the graph asks for: the residual that resolve_graph documents.
VersionsAskedFor ==
  Resolved => \A n \in DOMAIN Chosen :
    /\ \E deps \in Kept : n \in DOMAIN deps
    /\ \/ \E deps \in Kept : Asks(deps, n, Chosen[n].version)
       \/ /\ \E deps \in Discarded : Asks(deps, n, Chosen[n].version)
          /\ \E m \in DOMAIN Chosen : Cardinality(Named(proc.found, m)) > 1

\* Packages that were found in one version each do not need one another in a circle.  (If
\* a version was superseded they may: see the README.)
NoCycle ==
  Resolved /\ (\A n \in DOMAIN Chosen : Cardinality(Named(proc.found, n)) = 1) =>
    \A S \in (SUBSET DOMAIN Chosen) \ {{}} : \E n \in S : S \cap DOMAIN Chosen[n].deps = {}

\* The lockfile has the commit of a requirement.  It has one entry for each name: of two
\* refs the one that was selected, and nothing that only a superseded version requires.
Locked(n, dep) ==
  proc.existing # NoLock /\ n \in DOMAIN proc.existing /\ proc.existing[n].dep = dep

BranchesLocked ==
  \A n \in Required : \A dep \in Requirements(n) :
    dep.src \in Url /\ dep.ref = Moving => Locked(n, dep)

\* What one resolve has locked the next one reproduces, wherever the branches have gone
\* in between, whether the cache survived, and whatever failed half way.
LockReproduces ==
  Resolved /\ proc.op # "add" /\ proc.settled /\ BranchesLocked => Fresh = proc.existing

\* With every locked commit in the cache the network is used only for what the lockfile
\* does not have, whoever left it, and however the requirements have changed since.
ReproducibleIsOffline ==
  /\ Walked /\ proc.ready
  /\ \A n \in Required : \A dep \in Requirements(n) : dep.src \in Url => Locked(n, dep)
  => proc.cloned = <<>>

\* A command that fails leaves the lockfile as it was, and the manifest too, an `add` that
\* has edited it included, unless what failed is a write to the manifest itself.
FailureChangesNothing ==
  [][Running /\ proc'.step = "idle" /\ proc'.outcome = "failed" =>
       /\ lock' = proc.existing
       /\ manifest' = proc.original \/ WriteFails]_vars

-----------------------------------------------------------------------------
(* The inductive invariant.                                                *)

Resolves == {"walk", "clear", "fill", "mark", "restore", "restoring"}

IsLock(locked) ==
  locked # NoLock =>
    locked # <<>> /\ \A n \in DOMAIN locked :
      locked[n].rev \in Commit /\ locked[n].version = Content[locked[n].rev].version

\* The files between the steps of a command; a branch is somewhere on its history.
FilesSound ==
  /\ pushed \in [Url -> Nat] /\ \A u \in Url : pushed[u] \in DOMAIN History[u]
  /\ manifest = Torn \/ IsDeps(manifest)
  /\ IsLock(lock)
  /\ checkout \in [Commit -> {"absent", "partial", "full"}]
  /\ marked \subseteq Commit /\ \A c \in marked : checkout[c] = "full"

\* A process is idle, edits the manifest, or resolves.
ProcShape ==
  /\ proc.step \in {"idle", "edit"} \cup Resolves
  /\ proc.step = "edit" => proc.op = "add"
  /\ Running => IsDeps(proc.root) /\ IsDeps(proc.original) /\ IsLock(proc.existing)
  /\ proc.step \in Resolves =>
       /\ DOMAIN proc = {"step", "op", "root", "original", "existing", "stack", "found",
                         "cloned", "commit", "settled", "ready"}
       /\ proc.op \in {"build", "locked", "add"}
       /\ proc.stack \in Seq([name : Name, dep : Dependency, chain : SUBSET Name])
       /\ proc.found \in Seq(Range(proc.found))
       /\ DOMAIN proc.cloned \subseteq Url
       /\ \A u \in DOMAIN proc.cloned : proc.cloned[u] \in Commit

\* No process but this one, and no user, changes the files while it runs.
FilesHeld ==
  Running =>
    /\ lock = proc.existing
    /\ proc.step \in {"edit", "restoring"} => manifest = Torn
    /\ proc.step \in {"restore", "restoring"} => proc.op = "add"
    /\ proc.op # "add" => manifest = proc.original

\* What commit a requirement means is settled: it has none, or is in the lockfile, or its
\* repository has been cloned and has the ref.
Known(n, dep) ==
  \/ dep.src \in Dir
  \/ IsPinned(n, dep)
  \/ dep.src \in DOMAIN proc.cloned /\ HasRef(dep)

\* The checkout that is under way is of the commit of the top of the stack.
CheckoutUnderWay ==
  proc.step \in {"clear", "fill", "mark"} =>
    /\ proc.stack # <<>> /\ Top.dep.src \in Url /\ Top.name \notin Top.chain
    /\ Known(Top.name, Top.dep)
    /\ proc.commit \in Commit \ marked
    /\ proc.commit = CommitOf(Top.name, Top.dep, proc.cloned)
    /\ proc.step = "mark" => checkout[proc.commit] = "full"

\* What was found is what its commit contains, and a marked checkout of it was read.
FoundSound ==
  proc.step \in Resolves =>
    \A p \in Range(proc.found) :
      /\ p.name \in Name /\ p.dep \in Dependency
      /\ p = Package(p.name, p.dep, p.commit)
      /\ Known(p.name, p.dep) /\ p.commit = CommitOf(p.name, p.dep, proc.cloned)
      /\ p.dep.src \in Url => p.commit \in marked

\* The version that is required has been found.
Served(n, dep) ==
  /\ Known(n, dep)
  /\ \E p \in Range(proc.found) :
       /\ p.name = n /\ p.dep.src = dep.src
       /\ p.version = Package(n, dep, CommitOf(n, dep, proc.cloned)).version

\* Every requirement is on the stack, below the name of whoever has it, or was served.
NothingForgotten ==
  proc.step \in Resolves =>
    /\ \A n \in DOMAIN proc.root :
         \/ Served(n, proc.root[n])
         \/ \E f \in Range(proc.stack) : f.name = n /\ f.dep = proc.root[n]
    /\ \A p \in Range(proc.found) : \A n \in DOMAIN p.deps :
         \/ Served(n, p.deps[n])
         \/ \E f \in Range(proc.stack) :
               f.name = n /\ f.dep = p.deps[n] /\ p.name \in f.chain

\* The walk is depth first: what is under way at a frame is so at those above it, too.
ChainsNest(stack) ==
  \A i, j \in DOMAIN stack : i < j => stack[j].chain \subseteq stack[i].chain

\* The packages that have been found in one version.
Once(found) == {i \in DOMAIN found : Named(found, found[i].name) = {i}}

\* The package at i requires the one at j, and the walk has not come to that.
Pending(found, stack, i, j) ==
  \E f \in Range(stack) : f.name = found[j].name /\ found[i].name \in f.chain

Requires(found, i, j) == found[j].name \in DOMAIN found[i].deps

\* A package that is done with does not require one that is under way.
DoneIsClosed(found, stack) ==
  \A i, j \in Once(found) : \A f \in Range(stack) :
    Requires(found, i, j) /\ found[j].name \in f.chain /\ found[i].name \notin f.chain
      => Pending(found, stack, i, j)

\* There is no circle of requirements that the walk has been through.
Acyclic(found, stack) ==
  \A S \in (SUBSET Once(found)) \ {{}} : \E i \in S : \A j \in S :
    Requires(found, i, j) => Pending(found, stack, i, j)

WalkIsDepthFirst ==
  proc.step \in Resolves =>
    /\ ChainsNest(proc.stack)
    /\ DoneIsClosed(proc.found, proc.stack)
    /\ Acyclic(proc.found, proc.stack)

IInv ==
  /\ FilesSound
  /\ ProcShape
  /\ FilesHeld
  /\ CheckoutUnderWay
  /\ FoundSound
  /\ NothingForgotten
  /\ WalkIsDepthFirst
=============================================================================
