-------------------------- MODULE ModuleResolver ---------------------------
(***************************************************************************)
(* The module resolver (phoenix-modules/src/lib.rs, resolve_core) for one  *)
(* package: from the entry file along the imports, breadth first, each     *)
(* module once.  What it finds depends on the texts of the files alone, so *)
(* the operators are functions of the texts.                               *)
(*                                                                         *)
(* A module is an identity: the entry module, or a module path.  The entry *)
(* file can also be imported by its path, and is then a second module.     *)
(* Every file can be read.                                                 *)
(***************************************************************************)
EXTENDS Naturals, FiniteSets, FiniteSetsExt, Functions

CONSTANTS
  File,          \* the files of the project
  Text,
  Malformed,     \* the texts that do not parse
  Imports,       \* the module paths that a text imports, a function on Text
  EntryModule,
  FileOf         \* the file of each module that exists

ASSUME ResolverAssumption ==
  /\ Malformed \subseteq Text
  /\ EntryModule \in DOMAIN FileOf
  /\ \A m \in DOMAIN FileOf : FileOf[m] \in File

Module == DOMAIN FileOf

\* The imports of a file that does not parse are not followed.
ImportsOf(texts, m) ==
  IF texts[FileOf[m]] \in Malformed THEN {} ELSE Imports[texts[FileOf[m]]]

\* The modules that a walk along the imports from a module meets, by its length.
Within(texts, from) ==
  LET met[n \in Nat] ==
        IF n = 0 THEN from
        ELSE met[n - 1] \cup (Module \cap UNION {ImportsOf(texts, m) : m \in met[n - 1]})
  IN  met[Cardinality(Module)]

Reached(texts) == Within(texts, {EntryModule})

FilesReached(texts) == {FileOf[m] : m \in Reached(texts)}

\* The files a module is checked against: its own and those it imports.
FilesFrom(texts, f) ==
  {FileOf[m] : m \in Within(texts, {n \in Reached(texts) : FileOf[n] = f})}

-----------------------------------------------------------------------------
(* The ways to fail, in the order of precedence.                           *)

\* resolve_module_path: an import that names no file ends the walk at once.
MissingSites(texts) ==
  {FileOf[m] : m \in {n \in Reached(texts) : ~(ImportsOf(texts, n) \subseteq Module)}}

\* Files that do not parse are collected, and reported when the walk is over.
MalformedFiles(texts) == {f \in FilesReached(texts) : texts[f] \in Malformed}

\* detect_cycle: the import that closes the reported cycle is in one of these.
CycleSites(texts) ==
  {FileOf[m] : m \in {n \in Reached(texts) : n \in Within(texts, ImportsOf(texts, n))}}

NoError == [error |-> "none", at |-> {}]

\* What resolve_core may return; of several missing modules or cycles one is reported.
Results(texts) ==
  IF MissingSites(texts) # {}
  THEN {[error |-> "missing", at |-> {f}] : f \in MissingSites(texts)}
  ELSE IF MalformedFiles(texts) # {}
  THEN {[error |-> "malformed", at |-> MalformedFiles(texts)]}
  ELSE IF CycleSites(texts) # {}
  THEN {[error |-> "cyclic", at |-> {f}] : f \in CycleSites(texts)}
  ELSE {NoError}
=============================================================================
