---------------------------- MODULE DependencyGraph ----------------------------
(***************************************************************************)
(* FileDependencyGraph (crates/csilgen-core/src/dependency.rs) over the    *)
(* imports that ImportScanner (scanner.rs) finds: which of the input files *)
(* import each other, the depth-first search for a ring, and the files     *)
(* nobody imports, from which code is generated.                           *)
(*                                                                         *)
(* Files are compared by their paths.  An import leads to a canonical path *)
(* (scanner.rs:261, :272); the path of an input is spelled as the user and *)
(* the directory walk of the command line spell it, and may not be.        *)
(*                                                                         *)
(* The sets of the code have no order and the order of a file's imports    *)
(* makes no difference to a property here, so both are left open.          *)
(***************************************************************************)
EXTENDS Naturals, Sequences, FiniteSets, SequencesExt

CONSTANT Files  \* the input files

ASSUME FilesAssumption == IsFiniteSet(Files)

VARIABLES
  includes,   \* for each file, the inputs it imports
  canonical,  \* the inputs whose path is spelled canonically
  started,    \* files from which has_circular_dependencies has searched
  path,       \* the files being visited, with the dependencies still to visit
  visited,    \* files this search has entered
  cycle,      \* the cycle that is returned, <<>> for none
  searching   \* the search goes on

graphVars == <<includes, canonical, started, path, visited, cycle, searching>>

GraphInit ==
  /\ includes \in [Files -> SUBSET Files]
  /\ canonical \in SUBSET Files
  /\ started = {} /\ path = <<>> /\ visited = {} /\ cycle = <<>>
  /\ searching = TRUE

-----------------------------------------------------------------------------
(* build_from_files keeps the imports that are in its set of files. *)
ValidImports(imports, spelled) == [f \in DOMAIN imports |-> imports[f] \intersect spelled]

(* find_entry_points: no other file has it among its dependencies. *)
EntryPoints(dependencies) ==
  {f \in DOMAIN dependencies : \A g \in DOMAIN dependencies : f \notin dependencies[g]}

(* The files of the set import each other in a ring, or hang on one. *)
LeadToARing(dependencies, set) ==
  set # {} /\ \A f \in set : dependencies[f] \intersect set # {}

HasRing(dependencies) == \E set \in SUBSET DOMAIN dependencies : LeadToARing(dependencies, set)

Dependencies == ValidImports(includes, canonical)

-----------------------------------------------------------------------------
(* has_circular_dependencies: one search from each file, with fresh sets. *)

Frame(f) == [file |-> f, todo |-> Dependencies[f]]
FilesOnPath == {path[i].file : i \in DOMAIN path}

StartSearch ==
  /\ searching /\ path = <<>>
  /\ \E f \in Files \ started :
       /\ started' = started \union {f}
       /\ path' = <<Frame(f)>>
       /\ visited' = {f}
  /\ UNCHANGED <<includes, canonical, cycle, searching>>

(* dfs_visit, for a dependency of the file at the end of the path. *)
Visit(f) ==
  /\ searching /\ path # <<>>
  /\ f \in Last(path).todo

WithoutNext(f) == [path EXCEPT ![Len(path)].todo = @ \ {f}]

VisitOnPath ==
  /\ \E f \in Files :
       /\ Visit(f) /\ f \in FilesOnPath
       /\ LET first == CHOOSE i \in DOMAIN path : path[i].file = f
          IN cycle' = Append([i \in 1 .. Len(path) - first + 1 |-> path[first + i - 1].file], f)
  /\ searching' = FALSE
  /\ UNCHANGED <<includes, canonical, started, path, visited>>

VisitSeen ==
  /\ \E f \in Files :
       /\ Visit(f) /\ f \notin FilesOnPath /\ f \in visited
       /\ path' = WithoutNext(f)
  /\ UNCHANGED <<includes, canonical, started, visited, cycle, searching>>

VisitNew ==
  /\ \E f \in Files :
       /\ Visit(f) /\ f \notin visited
       /\ path' = Append(WithoutNext(f), Frame(f))
       /\ visited' = visited \union {f}
  /\ UNCHANGED <<includes, canonical, started, cycle, searching>>

Backtrack ==
  /\ searching /\ path # <<>> /\ Last(path).todo = {}
  /\ path' = Front(path)
  /\ UNCHANGED <<includes, canonical, started, visited, cycle, searching>>

\* Mutant: the search ends with the first file it started from.
NothingFoundFromOne ==
  /\ searching /\ path = <<>> /\ started # {}
  /\ searching' = FALSE
  /\ UNCHANGED <<includes, canonical, started, path, visited, cycle>>

NothingFound ==
  /\ searching /\ path = <<>> /\ started = Files
  /\ searching' = FALSE
  /\ UNCHANGED <<includes, canonical, started, path, visited, cycle>>

GraphNext == StartSearch \/ VisitOnPath \/ VisitSeen \/ VisitNew \/ Backtrack \/ NothingFound

GraphSpec == GraphInit /\ [][GraphNext]_graphVars

-----------------------------------------------------------------------------
IsCycle(files) ==
  /\ Len(files) > 1 /\ files[1] = Last(files) /\ IsInjective(Front(files))
  /\ \A i \in 1 .. Len(files) - 1 : files[i + 1] \in Dependencies[files[i]]

(* The search, with its two sets and a fresh start from every file, returns *)
(* a cycle exactly when there is one, and what it returns is one, without a *)
(* file that only leads to it.  Otherwise no input is left out: what can be *)
(* reached from the entry points is everything (lib.rs:314-327).            *)
AnalysisIsExact ==
  /\ cycle # <<>> => IsCycle(cycle)
  /\ (~searching /\ cycle = <<>>) =>
       /\ ~HasRing(Dependencies)
       /\ \A reached \in SUBSET Files :
            (/\ EntryPoints(Dependencies) \subseteq reached
             /\ \A f \in reached : Dependencies[f] \subseteq reached) => reached = Files

(* README.md:266, of a run over several files: entry points are the files   *)
(* not imported by others, and code is generated from nothing else.         *)
ImportedFilesAreNoEntries ==
  (~searching /\ cycle = <<>>) =>
    \A f, g \in Files : (f # g /\ g \in includes[f]) => g \notin EntryPoints(Dependencies)
=============================================================================
