--------------------------- MODULE ImportResolver ---------------------------
(***************************************************************************)
(* The import resolver of csilgen-core (resolver.rs, with the "/=" merge   *)
(* of ast.rs).  One resolver serves a series of top-level resolve_imports  *)
(* calls; its recursion over the include graph is an explicit stack, one   *)
(* frame for every resolve_imports_uncollapsed that has not returned.      *)
(*                                                                         *)
(* A rule is a name, a kind ("def", "service", or "ext" for "/=") and the  *)
(* set of its alternatives.  A name is the sequence of the alias prefixes  *)
(* it was given on its way, with the name in its own file last.  Where a   *)
(* path leads (resolve_file_path) is part of the disk: an import names the *)
(* file it finds, or NoFile.                                               *)
(***************************************************************************)
EXTENDS Naturals, Sequences, FiniteSets, SequencesExt

CONSTANTS
  Files,     \* the files on disk, by canonical path
  NoFile,    \* what a path that resolves to nothing leads to
  NoAlias,   \* an include without "as"
  Disks,     \* the disks considered: for each file what the parser makes of it
  MaxCalls   \* bound: top-level calls on one resolver

ASSUME DiskAssumption ==
  /\ NoFile \notin Files
  /\ MaxCalls \in Nat
  /\ \A disk \in Disks : \A f \in Files :
       /\ disk[f].parses \in BOOLEAN
       /\ Len(disk[f].imports) \in Nat
       /\ DOMAIN disk[f].imports = 1 .. Len(disk[f].imports)
       /\ \A i \in 1 .. Len(disk[f].imports) :
            disk[f].imports[i].file \in Files \union {NoFile}

VARIABLES
  disk,       \* the files, unchanged while the resolver lives
  cache,      \* resolved_cache: resolved files, each with its rules and origins
  resolving,  \* the files marked as being resolved
  stack,      \* the calls of resolve_imports_uncollapsed, innermost first
  loaded,     \* what load_and_resolve_file just returned to the innermost call
  outcome,    \* what the last top-level call returned
  calls,      \* top-level calls made
  failures    \* those that returned an error

vars == <<disk, cache, resolving, stack, loaded, outcome, calls, failures>>

OutcomeKinds ==
  {"none", "ok", "circular", "missing", "unparsable", "no such item"}

NoOutcome == [kind |-> "none", root |-> NoFile, rules |-> <<>>]

-----------------------------------------------------------------------------
(***************************************************************************)
(* merge_type_choice_extensions.  The "/=" rules of a name give their arms *)
(* to its first other rule when that is a type, and stay where they are    *)
(* when it is a service.  Without a base the first of them takes all arms, *)
(* as a type when the include graph is complete and as a "/=" rule before. *)
(***************************************************************************)
Indices(rules, name, isExtension) ==
  {i \in DOMAIN rules :
     rules[i].name = name /\ (rules[i].kind = "ext") = isExtension}

FoldExtensions(rules, collapse) ==
  LET Exts(i)  == Indices(rules, rules[i].name, TRUE)
      Bases(i) == Indices(rules, rules[i].name, FALSE)
      OnService(i) == Bases(i) # {} /\ rules[Min(Bases(i))].kind = "service"
      Absorbs(i) ==
        /\ Exts(i) # {} /\ ~OnService(i)
        /\ i = IF Bases(i) # {} THEN Min(Bases(i)) ELSE Min(Exts(i))
      Kept == {i \in DOMAIN rules :
                 rules[i].kind # "ext" \/ OnService(i) \/ Absorbs(i)}
      Arms(i) == UNION {rules[j].arms : j \in Exts(i) \union {i}}
      Kind(i) == IF collapse THEN "def" ELSE rules[i].kind
      Folded(i) ==
        IF Absorbs(i) THEN [rules[i] EXCEPT !.arms = Arms(i), !.kind = Kind(i)]
        ELSE rules[i]
      order == SetToSortSeq(Kept, <)
  IN [k \in DOMAIN order |-> Folded(order[k])]

\* Mutant: the guard of the including spec is carried into the included one.
ParsedWithGuard(file) ==
  LET own == disk[file].rules
  IN [rules   |-> own,
      origins |-> [n \in {own[i].name : i \in DOMAIN own} |-> <<file, n>>],
      merged  |-> IF stack = <<>> THEN {} ELSE stack[1].spec.merged]

\* The spec under assembly, as the parser left it: its rules, their true origins
\* by name (the file itself), and what was merged into it, which is nothing yet.
Parsed(file) ==
  LET own == disk[file].rules
  IN [rules   |-> own,
      origins |-> [n \in {own[i].name : i \in DOMAIN own} |-> <<file, n>>],
      merged  |-> {}]

\* Mutant: no diamond guard.
MergeRuleUnguarded(spec, rule, origin, name) ==
  [rules   |-> Append(spec.rules, [rule EXCEPT !.name = name]),
   origins |-> (name :> origin) @@ spec.origins,
   merged  |-> spec.merged \union {<<name, origin>>}]

\* One turn of the merge loops: a rule that came under this name from this origin
\* before is skipped.
MergeRule(spec, rule, origin, name) ==
  IF <<name, origin>> \in spec.merged THEN spec
  ELSE [rules   |-> Append(spec.rules, [rule EXCEPT !.name = name]),
        origins |-> (name :> origin) @@ spec.origins,
        merged  |-> spec.merged \union {<<name, origin>>}]

Prefixed(alias, name) == IF alias = NoAlias THEN name ELSE <<alias>> \o name

\* resolve_include after loading.
MergeAll(spec, imported, alias) ==
  FoldLeft(LAMBDA acc, rule :
             MergeRule(acc, rule, imported.origins[rule.name], Prefixed(alias, rule.name)),
           spec, imported.rules)

Named(imported, item) ==
  {i \in DOMAIN imported.rules : imported.rules[i].name = item}

\* resolve_selective_import after loading, when every item is there: the first rule
\* of each name.
MergeItems(spec, imported, items) ==
  FoldLeft(LAMBDA acc, item :
             MergeRule(acc, imported.rules[Min(Named(imported, item))],
                       imported.origins[item], item),
           spec, items)

MergeImport(spec, imported, import) ==
  IF import.kind = "include" THEN MergeAll(spec, imported, import.alias)
  ELSE MergeItems(spec, imported, import.items)

MissesItem(imported, import) ==
  /\ import.kind = "from"
  /\ \E k \in DOMAIN import.items : Named(imported, import.items[k]) = {}

\* Mutant: an included file is finalized as if it were the root.
ResolvedCollapsed(spec) ==
  [rules |-> FoldExtensions(spec.rules, TRUE), origins |-> spec.origins]

\* The end of resolve_imports_uncollapsed: what the caller gets and the cache keeps.
Resolved(spec) ==
  [rules |-> FoldExtensions(spec.rules, FALSE), origins |-> spec.origins]

-----------------------------------------------------------------------------
\* One resolve_imports_uncollapsed in progress: the file, whether this call marked
\* it, the import it is at, and the spec so far.
Frame(file, newlyResolving, next, spec) ==
  [file |-> file, newly |-> newlyResolving, next |-> next, spec |-> spec]

Top     == Head(stack)
Imports == disk[Top.file].imports
Current == Imports[Top.next]
AtImport == stack # <<>> /\ loaded = <<>> /\ Top.next <= Len(Imports)
AtEnd    == stack # <<>> /\ loaded = <<>> /\ Top.next > Len(Imports)

Init ==
  /\ disk \in Disks
  /\ cache = <<>> /\ resolving = {} /\ stack = <<>> /\ loaded = <<>>
  /\ outcome = NoOutcome /\ calls = 0 /\ failures = 0

\* The caller has parsed root and calls resolve_imports on it.
Start(root) ==
  /\ stack = <<>> /\ calls < MaxCalls /\ disk[root].parses
  /\ stack' = <<Frame(root, root \notin resolving, 1, Parsed(root))>>
  /\ resolving' = resolving \union {root}
  /\ calls' = calls + 1
  /\ outcome' = NoOutcome
  /\ UNCHANGED <<disk, cache, loaded, failures>>

\* "?" in every call on the stack: the error reaches the caller, and none of the
\* calls takes back its mark.
Fails(kind) ==
  /\ outcome' = [kind |-> kind, root |-> Last(stack).file, rules |-> <<>>]
  /\ failures' = failures + 1
  /\ stack' = <<>> /\ loaded' = <<>>
  /\ UNCHANGED <<disk, cache, calls>>

\* resolve_file_path finds nothing.
LoadMissing ==
  /\ AtImport /\ Current.file = NoFile
  /\ Fails("missing")
  /\ UNCHANGED resolving

LoadCircular ==
  /\ AtImport /\ Current.file \in resolving
  /\ Fails("circular")
  /\ UNCHANGED resolving

Returns(spec) ==
  /\ loaded' = <<spec>>
  /\ UNCHANGED <<disk, outcome, calls, failures>>

LoadCached ==
  /\ AtImport /\ Current.file \in DOMAIN cache \ resolving
  /\ Returns(cache[Current.file])
  /\ UNCHANGED <<cache, resolving, stack>>

\* Mutant: a file is loaded although it is being resolved.
FreshIgnoringMarks(file) == file \in Files \ DOMAIN cache

Fresh(file) == file \in Files \ (resolving \union DOMAIN cache)

LoadUnparsable ==
  /\ AtImport /\ Fresh(Current.file) /\ ~disk[Current.file].parses
  /\ resolving' = resolving \union {Current.file}
  /\ Fails("unparsable")

\* The file is marked, parsed and resolved in turn; the mark being its caller's,
\* the inner call does not count it as its own.
LoadFile ==
  /\ AtImport /\ Fresh(Current.file) /\ disk[Current.file].parses
  /\ resolving' = resolving \union {Current.file}
  /\ stack' = <<Frame(Current.file, FALSE, 1, Parsed(Current.file))>> \o stack
  /\ UNCHANGED <<disk, cache, loaded, outcome, calls, failures>>

\* Mutants: the spec that was merged is still taken for the one that was loaded;
\* the call stays at the import it has merged.
MergeKeepsLoaded ==
  /\ loaded # <<>> /\ ~MissesItem(loaded[1], Current)
  /\ stack' = <<Frame(Top.file, Top.newly, Top.next + 1,
                      MergeImport(Top.spec, loaded[1], Current))>> \o Tail(stack)
  /\ UNCHANGED <<disk, cache, resolving, loaded, outcome, calls, failures>>

MergeStays ==
  /\ loaded # <<>> /\ ~MissesItem(loaded[1], Current)
  /\ stack' = <<Frame(Top.file, Top.newly, Top.next,
                      MergeImport(Top.spec, loaded[1], Current))>> \o Tail(stack)
  /\ loaded' = <<>>
  /\ UNCHANGED <<disk, cache, resolving, outcome, calls, failures>>

\* The rules of the loaded file are merged into the innermost spec.
Merge ==
  /\ loaded # <<>> /\ ~MissesItem(loaded[1], Current)
  /\ stack' = <<Frame(Top.file, Top.newly, Top.next + 1,
                      MergeImport(Top.spec, loaded[1], Current))>> \o Tail(stack)
  /\ loaded' = <<>>
  /\ UNCHANGED <<disk, cache, resolving, outcome, calls, failures>>

MergeMissesItem ==
  /\ loaded # <<>> /\ MissesItem(loaded[1], Current)
  /\ Fails("no such item")
  /\ UNCHANGED resolving

Cached(file, spec) ==
  [f \in DOMAIN cache \union {file} |-> IF f = file THEN spec ELSE cache[f]]

\* Mutant: a resolved file stays marked.
FinishImportedKeepsMark ==
  /\ AtEnd /\ Len(stack) > 1
  /\ stack' = Tail(stack)
  /\ cache' = Cached(Top.file, Resolved(Top.spec))
  /\ Returns(Resolved(Top.spec))
  /\ UNCHANGED resolving

\* The innermost call returns to load_and_resolve_file, which takes the mark back
\* and fills the cache.
FinishImported ==
  /\ AtEnd /\ Len(stack) > 1
  /\ stack' = Tail(stack)
  /\ resolving' = resolving \ {Top.file}
  /\ cache' = Cached(Top.file, Resolved(Top.spec))
  /\ Returns(Resolved(Top.spec))

\* Mutant: the entry file stays marked.
FinishRootKeepsMark ==
  /\ AtEnd /\ Len(stack) = 1
  /\ outcome' = [kind |-> "ok", root |-> Top.file,
                 rules |-> FoldExtensions(Resolved(Top.spec).rules, TRUE)]
  /\ stack' = <<>>
  /\ UNCHANGED <<disk, cache, resolving, loaded, calls, failures>>

\* The outermost call returns to resolve_imports, which gives the "/=" rules left
\* without a base a type of their own.
FinishRoot ==
  /\ AtEnd /\ Len(stack) = 1
  /\ resolving' = IF Top.newly THEN resolving \ {Top.file} ELSE resolving
  /\ outcome' = [kind |-> "ok", root |-> Top.file,
                 rules |-> FoldExtensions(Resolved(Top.spec).rules, TRUE)]
  /\ stack' = <<>>
  /\ UNCHANGED <<disk, cache, loaded, calls, failures>>

Step ==
  \/ LoadMissing \/ LoadCircular \/ LoadCached \/ LoadUnparsable \/ LoadFile
  \/ Merge \/ MergeMissesItem
  \/ FinishImported \/ FinishRoot

Next == Step \/ \E root \in Files : Start(root)

Spec == Init /\ [][Next]_vars

\* A call that was started is computed to its end.
FairSpec == Spec /\ WF_vars(Step)

-----------------------------------------------------------------------------
(***************************************************************************)
(* What the files say, read without the resolver.                          *)
(***************************************************************************)
ImportedBy(f) == {disk[f].imports[i].file : i \in DOMAIN disk[f].imports}

Reachable(root) ==
  {f \in Files : \A S \in SUBSET Files :
     root \in S /\ (\A g \in S : ImportedBy(g) \intersect Files \subseteq S)
       => f \in S}

\* Some reachable files import each other in a ring.
Cyclic(root) ==
  \E S \in (SUBSET Reachable(root)) \ {{}} :
    \A f \in S : ImportedBy(f) \intersect S # {}

\* The (name, origin) pairs a file passes on to the files that include it.
Exports ==
  LET Passed[f \in Files] ==
        {<<disk[f].rules[i].name, <<f, disk[f].rules[i].name>>>> :
           i \in DOMAIN disk[f].rules}
          \union
        UNION {LET import == disk[f].imports[i]
               IN IF import.kind = "include"
                  THEN {<<Prefixed(import.alias, e[1]), e[2]>> : e \in Passed[import.file]}
                  ELSE {e \in Passed[import.file] : e[1] \in ToSet(import.items)} :
               i \in DOMAIN disk[f].imports}
  IN Passed

\* The spec a resolver that never did anything else makes of a file.
Alone ==
  LET Spec1[f \in Files] ==
        Resolved(FoldLeft(
          LAMBDA spec, import : MergeImport(spec, Spec1[import.file], import),
          Parsed(f), disk[f].imports))
  IN Spec1

Source(origin) ==
  LET rules == disk[origin[1]].rules
  IN rules[CHOOSE i \in DOMAIN rules : rules[i].name = origin[2]]

\* A rule of a resolved spec, given the name under which an origin is exported.
Exported(e) == [Source(e[2]) EXCEPT !.name = e[1]]

-----------------------------------------------------------------------------
(***************************************************************************)
(* Properties.                                                             *)
(***************************************************************************)
InProgress == {stack[k].file : k \in DOMAIN stack}

\* The variables keep their shape.
TypeOK ==
  /\ disk \in Disks
  /\ DOMAIN cache \subseteq Files /\ resolving \subseteq Files
  /\ \A k \in DOMAIN stack :
       /\ stack[k].file \in Files /\ stack[k].newly \in BOOLEAN
       /\ stack[k].next \in 1 .. Len(disk[stack[k].file].imports) + 1
  /\ loaded # <<>> =>
       stack # <<>> /\ stack[1].next <= Len(disk[stack[1].file].imports)
  /\ outcome.kind \in OutcomeKinds
  /\ calls \in Nat /\ failures \in Nat

\* No file is being resolved twice at a time, so the recursion is never deeper than
\* there are files, whatever the include graph and whatever failed before.
NoReentry ==
  \A i, j \in DOMAIN stack : stack[i].file = stack[j].file => i = j

\* The files marked as being resolved are the ones a call is in progress for, as
\* long as no call has failed: the recursion takes back every mark it sets.
MarksAreInProgress == failures = 0 => resolving = InProgress

\* resolve_imports reports a circular dependency exactly when the files import
\* each other in a ring: a diamond is no ring, a ring through the entry file is
\* one, and a result is never computed from a ring.
CircularMeansRing ==
  /\ outcome.kind = "circular" /\ failures = 1 => Cyclic(outcome.root)
  /\ outcome.kind = "ok" => ~Cyclic(outcome.root)

\* A cached spec, and a result, do not depend on the root it was first resolved
\* for, or on what was resolved before.
ContextFree ==
  /\ \A f \in DOMAIN cache : cache[f] = Alone[f]
  /\ outcome.kind = "ok" =>
       outcome.rules = FoldExtensions(Alone[outcome.root].rules, TRUE)

DefinedOnce(root) ==
  \A d, e \in Exports[root] : Source(d[2]).kind # "ext" /\ (d[1] = e[1] => d = e)

\* Where every rule name is defined once and not extended, a rule that reaches
\* the root along several paths under one name is there once, and none is missing.
DiamondsMergeOnce ==
  outcome.kind = "ok" /\ DefinedOnce(outcome.root) =>
    /\ ToSet(outcome.rules) = {Exported(e) : e \in Exports[outcome.root]}
    /\ Len(outcome.rules) = Cardinality(Exports[outcome.root])

\* resolve_imports returns, for any include graph.
ResolveReturns == stack # <<>> ~> stack = <<>>

ExportedAs(root, name) == {e \in Exports[root] : e[1] = name}

AllArms(root, name) == UNION {Source(e[2]).arms : e \in ExportedAs(root, name)}

\* No file below the root is imported by two statements.
EachImportedOnce(root) ==
  LET statements == UNION {{<<f, i>> : i \in DOMAIN disk[f].imports} : f \in Reachable(root)}
  IN \A s, t \in statements :
       disk[s[1]].imports[s[2]].file = disk[t[1]].imports[t[2]].file => s = t

\* A type has all the arms that "/=" rules anywhere below the root give it,
\* whichever file has the base and whichever is included first.
ExtensionsReachTheirType ==
  outcome.kind = "ok" =>
    \A i \in DOMAIN outcome.rules :
      outcome.rules[i].arms = AllArms(outcome.root, outcome.rules[i].name)

\* They do when no file below the root is included twice, and no "/=" rule is left.
ExtensionsReachTheirTypeInTrees ==
  outcome.kind = "ok" =>
    /\ \A i \in DOMAIN outcome.rules : outcome.rules[i].kind # "ext"
    /\ EachImportedOnce(outcome.root) => ExtensionsReachTheirType
=============================================================================
