------------------------ MODULE DependencyGraphProofs ------------------------
(***************************************************************************)
(* Proofs about DependencyGraph: the depth-first search returns a cycle    *)
(* exactly when the input files have one, and otherwise everything can be  *)
(* reached from the entry points, for any finite set of files, any imports *)
(* and any order of the visits.                                            *)
(***************************************************************************)
EXTENDS DependencyGraph, FiniteSetTheorems, WellFoundedInduction, TLAPS

Frames == [file : Files, todo : SUBSET Files]

GraphTypeOK ==
  /\ includes \in [Files -> SUBSET Files] /\ canonical \in SUBSET Files
  /\ started \in SUBSET Files /\ visited \in SUBSET Files
  /\ path \in Seq(Frames)

\* The path is one: its files are different, each is a dependency of the one before.
PathInv ==
  /\ \A i, j \in 1 .. Len(path) : path[i].file = path[j].file => i = j
  /\ \A i \in 2 .. Len(path) : path[i].file \in Dependencies[path[i - 1].file]
  /\ \A i \in 1 .. Len(path) : path[i].todo \subseteq Dependencies[path[i].file]
  /\ FilesOnPath \subseteq visited
  /\ path # <<>> => path[1].file \in started

\* Files the search has left: all that can be reached from them is left, too.
Left == visited \ FilesOnPath

ClosedAcyclic(set) ==
  /\ \A f \in set : Dependencies[f] \subseteq set
  /\ \A ring \in SUBSET set : ~LeadToARing(Dependencies, ring)

\* A dependency a file on the path has no longer to visit has been left, or is the next
\* file on the path.
VisitedInv ==
  /\ ClosedAcyclic(Left)
  /\ \A i \in 1 .. Len(path) : \A f \in Dependencies[path[i].file] \ path[i].todo :
       f \in Left \/ (i < Len(path) /\ f = path[i + 1].file)

\* What a search that has ended says outlives the sets it worked with.
StartedInv ==
  \A f \in started :
    \/ path # <<>> /\ f = path[1].file
    \/ \E set \in SUBSET Files : f \in set /\ ClosedAcyclic(set)

ResultInv ==
  /\ searching => cycle = <<>>
  /\ cycle # <<>> => IsCycle(cycle)
  /\ (~searching /\ cycle = <<>>) => path = <<>> /\ started = Files

SearchInv == GraphTypeOK /\ PathInv /\ VisitedInv /\ StartedInv /\ ResultInv

-----------------------------------------------------------------------------
(***************************************************************************)
(* Graphs.                                                                 *)
(***************************************************************************)
\* The dependencies of a file are files.
LEMMA DependenciesType ==
  ASSUME GraphTypeOK
  PROVE  Dependencies \in [Files -> SUBSET Files] /\ DOMAIN Dependencies = Files
BY DEF GraphTypeOK, Dependencies, ValidImports

\* A file whose dependencies have all been left is in no ring.
LEMMA AddToClosedAcyclic ==
  ASSUME NEW set, ClosedAcyclic(set), NEW f, f \notin set, Dependencies[f] \subseteq set
  PROVE  ClosedAcyclic(set \union {f})
<1>1. \A g \in set \union {f} : Dependencies[g] \subseteq set \union {f}
  BY DEF ClosedAcyclic
<1>2. ASSUME NEW ring \in SUBSET (set \union {f}), LeadToARing(Dependencies, ring)
      PROVE  FALSE
  <2>1. \A g \in ring : Dependencies[g] \intersect ring \subseteq ring \intersect set
    BY DEF ClosedAcyclic
  <2>2. LeadToARing(Dependencies, ring \intersect set)
    BY <1>2, <2>1 DEF LeadToARing
  <2>3. QED
    BY <2>2 DEF ClosedAcyclic
<1>3. QED
  BY <1>1, <1>2 DEF ClosedAcyclic

\* Where every file is in some closed set without a ring, there is none at all.
LEMMA NoRingIfCovered ==
  ASSUME GraphTypeOK, \A f \in Files : \E set \in SUBSET Files : f \in set /\ ClosedAcyclic(set)
  PROVE  ~HasRing(Dependencies)
<1> SUFFICES ASSUME NEW ring \in SUBSET Files, LeadToARing(Dependencies, ring)
             PROVE  FALSE
  BY DependenciesType DEF HasRing
<1>1. PICK f \in ring : TRUE
  BY DEF LeadToARing
<1>2. PICK set \in SUBSET Files : f \in set /\ ClosedAcyclic(set)
  BY <1>1
<1>3. \A g \in ring \intersect set : Dependencies[g] \intersect ring \subseteq ring \intersect set
  BY <1>2 DEF ClosedAcyclic
<1>4. LeadToARing(Dependencies, ring \intersect set)
  BY <1>1, <1>2, <1>3 DEF LeadToARing
<1>5. QED
  BY <1>2, <1>4 DEF ClosedAcyclic

\* Every file of the set is a dependency of one of the set.
ImportedInside(set) == \A f \in set : \E g \in set : f \in Dependencies[g]

\* In a finite graph without a ring no set of files is imported inside: a smallest one
\* would have a file without dependencies in it, which the set can do without.
LEMMA SomeFileIsAnEntry ==
  ASSUME GraphTypeOK, ~HasRing(Dependencies),
         NEW start \in SUBSET Files, start # {}, ImportedInside(start)
  PROVE  FALSE
<1> DEFINE Inside == {set \in SUBSET Files : set # {} /\ ImportedInside(set)}
<1>1. Inside # {} /\ Inside \subseteq FiniteSubsetsOf(Files)
  BY FilesAssumption, FS_FiniteSubsetsOfFinite
<1>2. \E set \in Inside : \A smaller \in Inside : ~(<<smaller, set>> \in StrictSubsetOrdering(Files))
  <2> HIDE DEF Inside
  <2>1. QED
    BY <1>1, WFMin, FS_StrictSubsetOrderingWellFounded
<1>3. PICK set \in Inside : \A smaller \in Inside : ~(<<smaller, set>> \in StrictSubsetOrdering(Files))
  BY <1>2
<1>4. PICK sink \in set : Dependencies[sink] \intersect set = {}
  BY DependenciesType DEF HasRing, LeadToARing
<1>5. set \ {sink} # {} /\ ImportedInside(set \ {sink})
  BY <1>4 DEF ImportedInside
<1>6. set \ {sink} \in Inside /\ <<set \ {sink}, set>> \in StrictSubsetOrdering(Files)
  BY <1>5 DEF StrictSubsetOrdering
<1>7. QED
  BY <1>3, <1>6

\* Without a ring, the entry points lead to every file.
LEMMA EntriesLeadEverywhere ==
  ASSUME GraphTypeOK, ~HasRing(Dependencies), NEW reached \in SUBSET Files,
         EntryPoints(Dependencies) \subseteq reached,
         \A f \in reached : Dependencies[f] \subseteq reached
  PROVE  reached = Files
<1> SUFFICES ASSUME Files \ reached # {}
             PROVE  FALSE
  OBVIOUS
<1>1. ImportedInside(Files \ reached)
  BY DependenciesType DEF EntryPoints, ImportedInside
<1>2. QED
  BY <1>1, SomeFileIsAnEntry

-----------------------------------------------------------------------------
(***************************************************************************)
(* The search.                                                             *)
(***************************************************************************)
\* Nothing changes which files import which.
LEMMA DependenciesKept ==
  ASSUME UNCHANGED <<includes, canonical>>
  PROVE  /\ Dependencies' = Dependencies
         /\ \A f : Frame(f)' = Frame(f)
         /\ \A set : ClosedAcyclic(set)' = ClosedAcyclic(set)
BY DEF Dependencies, Frame, ClosedAcyclic, LeadToARing, ValidImports

\* The path, as the function it is.
LEMMA PathFacts ==
  ASSUME GraphTypeOK
  PROVE  /\ Len(path) \in Nat /\ DOMAIN path = 1 .. Len(path)
         /\ path \in [1 .. Len(path) -> Frames]
         /\ FilesOnPath = {path[i].file : i \in 1 .. Len(path)}
         /\ path = <<>> <=> Len(path) = 0
BY DEF GraphTypeOK, FilesOnPath

LEMMA SearchInit == GraphInit => SearchInv
<1> SUFFICES ASSUME GraphInit PROVE SearchInv
  OBVIOUS
<1> USE DEF GraphInit
<1>1. GraphTypeOK
  BY DEF GraphTypeOK
<1>2. PathInv /\ StartedInv /\ ResultInv
  BY DEF PathInv, FilesOnPath, StartedInv, ResultInv
<1>3. VisitedInv
  BY DEF VisitedInv, Left, FilesOnPath, ClosedAcyclic, LeadToARing
<1>4. QED
  BY <1>1, <1>2, <1>3 DEF SearchInv

\* A search starts where the last one has said all about the files started before.
LEMMA StartSearchStep ==
  ASSUME SearchInv, StartSearch
  PROVE  SearchInv'
<1> USE DEF SearchInv, StartSearch
<1>1. PICK f \in Files \ started :
        started' = started \union {f} /\ path' = <<Frame(f)>> /\ visited' = {f}
  OBVIOUS
<1>2. Frame(f) = [file |-> f, todo |-> Dependencies[f]] /\ Frame(f) \in Frames
  BY DependenciesType DEF Frame, Frames
<1>3. Len(path') = 1 /\ path'[1] = Frame(f) /\ path' \in Seq(Frames)
  BY <1>1, <1>2
<1>4. GraphTypeOK'
  BY <1>1, <1>3 DEF GraphTypeOK
<1>5. FilesOnPath' = {f}
  BY <1>1, <1>2, <1>3 DEF FilesOnPath
<1>6. PathInv'
  BY <1>1, <1>2, <1>3, <1>5, DependenciesKept DEF PathInv
<1>7. VisitedInv'
  <2>1. Left' = {}
    BY <1>1, <1>5 DEF Left
  <2>2. ClosedAcyclic({})
    BY DEF ClosedAcyclic, LeadToARing
  <2>3. QED
    BY <1>2, <1>3, <2>1, <2>2, DependenciesKept DEF VisitedInv
<1>8. StartedInv'
  BY <1>1, <1>2, <1>3, DependenciesKept DEF StartedInv
<1>9. ResultInv'
  BY DEF ResultInv
<1>10. QED
  BY <1>4, <1>6, <1>7, <1>8, <1>9

\* A sequence with one more element, and without its last one.
LEMMA OneMore ==
  ASSUME NEW S, NEW s \in Seq(S), NEW e \in S
  PROVE  /\ Append(s, e) \in Seq(S) /\ Len(Append(s, e)) = Len(s) + 1 /\ Len(s) \in Nat
         /\ Append(s, e)[Len(s) + 1] = e
         /\ \A i \in 1 .. Len(s) : Append(s, e)[i] = s[i]
OBVIOUS

LEMMA FunctionIsSequence ==
  ASSUME NEW S, NEW n \in Nat, NEW s \in [1 .. n -> S]
  PROVE  s \in Seq(S) /\ Len(s) = n
OBVIOUS

LEMMA OneLess ==
  ASSUME NEW S, NEW s \in Seq(S), s # <<>>
  PROVE  /\ Front(s) \in Seq(S) /\ Len(s) \in Nat \ {0}
         /\ Len(Front(s)) = Len(s) - 1
         /\ \A i \in 1 .. Len(s) - 1 : Front(s)[i] = s[i]
<1>1. PICK n \in Nat : Len(s) = n + 1
  <2>1. Len(s) \in Nat /\ Len(s) # 0
    OBVIOUS
  <2>2. Len(s) - 1 \in Nat
    BY <2>1
  <2>3. QED
    BY <2>1, <2>2
<1>2. /\ SubSeq(s, 1, n) \in Seq(S) /\ Len(SubSeq(s, 1, n)) = n
      /\ \A i \in 1 .. n : SubSeq(s, 1, n)[i] = s[i]
  BY <1>1
<1>3. Front(s) = SubSeq(s, 1, n)
  BY <1>1 DEF Front
<1>4. QED
  BY <1>1, <1>2, <1>3

\* The cycle is the path from the file that was met again.
LEMMA VisitOnPathStep ==
  ASSUME SearchInv, VisitOnPath
  PROVE  SearchInv'
<1> USE DEF SearchInv
<1>1. PICK f \in Files :
        /\ Visit(f) /\ f \in FilesOnPath
        /\ LET first == CHOOSE i \in DOMAIN path : path[i].file = f
           IN cycle' = Append([i \in 1 .. Len(path) - first + 1 |-> path[first + i - 1].file], f)
  BY DEF VisitOnPath
<1>2. PICK first \in 1 .. Len(path) :
        /\ path[first].file = f
        /\ cycle' = Append([i \in 1 .. Len(path) - first + 1 |-> path[first + i - 1].file], f)
  BY <1>1, PathFacts DEF FilesOnPath
<1> DEFINE length == Len(path) - first + 1
           files == [i \in 1 .. length |-> path[first + i - 1].file]
<1>3. length \in Nat \ {0} /\ Len(path) \in Nat /\ first + length - 1 = Len(path)
  BY <1>2, PathFacts
<1>4. \A i \in 1 .. length : first + i - 1 \in 1 .. Len(path)
  BY <1>2, <1>3
<1> HIDE DEF length
<1>5. files \in Seq(Files) /\ Len(files) = length
  <2>1. files \in [1 .. length -> Files]
    BY <1>4, PathFacts DEF Frames
  <2>2. length \in Nat
    BY <1>3
  <2>3. QED
    BY <2>1, <2>2, FunctionIsSequence
<1>6. cycle' = Append(files, f)
  BY <1>2 DEF length
<1>7. \A i \in 1 .. length : files[i] = path[first + i - 1].file
  OBVIOUS
<1> HIDE DEF files
<1>8. /\ cycle' \in Seq(Files) /\ Len(cycle') = length + 1
      /\ cycle'[length + 1] = f
      /\ \A i \in 1 .. length : cycle'[i] = files[i]
      /\ Front(cycle') = files
  <2>1. /\ Append(files, f) \in Seq(Files) /\ Len(Append(files, f)) = Len(files) + 1
        /\ Append(files, f)[Len(files) + 1] = f
        /\ \A i \in 1 .. Len(files) : Append(files, f)[i] = files[i]
    BY <1>5, OneMore
  <2>2. /\ cycle' \in Seq(Files) /\ Len(cycle') = length + 1
        /\ cycle'[length + 1] = f
        /\ \A i \in 1 .. length : cycle'[i] = files[i]
    BY <1>5, <1>6, <2>1
  <2>3. cycle' # <<>>
    BY <1>3, <2>2
  <2>4. /\ Front(cycle') \in Seq(Files) /\ Len(Front(cycle')) = length
        /\ \A i \in 1 .. length : Front(cycle')[i] = files[i]
    BY <1>3, <2>2, <2>3, OneLess, SMTT(60)
  <2>5. QED
    BY <1>5, <2>2, <2>4
<1>9. IsInjective(Front(cycle'))
  <2>1. ASSUME NEW i \in 1 .. length, NEW j \in 1 .. length, files[i] = files[j]
        PROVE  i = j
    <3>1. path[first + i - 1].file = path[first + j - 1].file
      BY <1>7, <2>1
    <3>2. first + i - 1 = first + j - 1
      BY <1>4, <3>1 DEF PathInv
    <3>3. QED
      BY <1>2, <1>3, <3>2
  <2>2. QED
    BY <1>5, <1>8, <2>1 DEF IsInjective
<1>10. ASSUME NEW i \in 1 .. length
       PROVE  cycle'[i + 1] \in Dependencies[cycle'[i]]
  <2>1. CASE i < length
    <3>1. i + 1 \in 1 .. length /\ first + i \in 2 .. Len(path) /\ (first + i) - 1 = first + i - 1
      BY <1>2, <1>3, <2>1
    <3>2. cycle'[i] = path[first + i - 1].file
      BY <1>7, <1>8
    <3>3. cycle'[i + 1] = path[first + (i + 1) - 1].file
      BY <1>7, <1>8, <3>1
    <3>4. first + (i + 1) - 1 = first + i
      BY <1>2, <1>3
    <3>5. cycle'[i + 1] = path[first + i].file
      BY <3>3, <3>4
    <3>6. QED
      BY <3>1, <3>2, <3>5 DEF PathInv
  <2>2. CASE i = length
    <3>1. cycle'[i + 1] = f /\ cycle'[i] = path[Len(path)].file
      BY <1>3, <1>7, <1>8, <2>2
    <3>2. f \in path[Len(path)].todo
      BY <1>1 DEF Visit, Last
    <3>3. Len(path) \in 1 .. Len(path)
      BY <1>2, <1>3
    <3>4. QED
      BY <3>1, <3>2, <3>3 DEF PathInv
  <2>3. QED
    BY <1>3, <2>1, <2>2
<1>11. IsCycle(cycle)'
  <2>1. cycle'[1] = f
    BY <1>2, <1>3, <1>7, <1>8
  <2>2. UNCHANGED <<includes, canonical>>
    BY DEF VisitOnPath
  <2>3. Len(cycle') > 1 /\ Len(cycle') - 1 = length
    BY <1>3, <1>8
  <2>4. QED
    BY <1>8, <1>9, <1>10, <2>1, <2>2, <2>3, DependenciesKept DEF IsCycle, Last
<1>12. GraphTypeOK' /\ PathInv' /\ VisitedInv' /\ StartedInv'
  <2>1. UNCHANGED <<includes, canonical, started, path, visited>>
    BY DEF VisitOnPath
  <2>2. Left' = Left /\ FilesOnPath' = FilesOnPath
    BY <2>1 DEF Left, FilesOnPath
  <2>3. GraphTypeOK' /\ PathInv'
    BY <2>1, <2>2, DependenciesKept DEF GraphTypeOK, PathInv
  <2>4. VisitedInv'
    BY <2>1, <2>2, DependenciesKept DEF VisitedInv
  <2>5. StartedInv'
    BY <2>1, DependenciesKept DEF StartedInv
  <2>6. QED
    BY <2>3, <2>4, <2>5
<1>13. ResultInv'
  <2>1. cycle' # <<>>
    BY <1>3, <1>8
  <2>2. QED
    BY <1>11, <2>1 DEF ResultInv, VisitOnPath
<1>14. QED
  BY <1>12, <1>13

\* The path after the next file of its last frame has been dealt with.
LEMMA WithoutNextFacts ==
  ASSUME GraphTypeOK, path # <<>>, NEW f
  PROVE  /\ WithoutNext(f) \in Seq(Frames)
         /\ Len(WithoutNext(f)) = Len(path) /\ Len(path) \in Nat \ {0}
         /\ \A i \in 1 .. Len(path) : WithoutNext(f)[i].file = path[i].file
         /\ \A i \in 1 .. Len(path) - 1 : WithoutNext(f)[i].todo = path[i].todo
         /\ WithoutNext(f)[Len(path)].todo = path[Len(path)].todo \ {f}
<1>1. Len(path) \in Nat \ {0} /\ path \in [1 .. Len(path) -> Frames]
  BY PathFacts
<1>2. [path[Len(path)] EXCEPT !.todo = @ \ {f}] \in Frames
  BY <1>1 DEF Frames
<1>3. WithoutNext(f) = [path EXCEPT ![Len(path)] = [path[Len(path)] EXCEPT !.todo = @ \ {f}]]
  BY <1>1 DEF WithoutNext
<1>4. WithoutNext(f) \in [1 .. Len(path) -> Frames]
  BY <1>1, <1>2, <1>3
<1>5. WithoutNext(f) \in Seq(Frames) /\ Len(WithoutNext(f)) = Len(path)
  BY <1>1, <1>4
<1>6. \A i \in 1 .. Len(path) - 1 : WithoutNext(f)[i] = path[i]
  BY <1>1, <1>3
<1>7. /\ WithoutNext(f)[Len(path)].file = path[Len(path)].file
      /\ WithoutNext(f)[Len(path)].todo = path[Len(path)].todo \ {f}
  BY <1>1, <1>3 DEF Frames
<1>8. QED
  BY <1>1, <1>5, <1>6, <1>7

\* A file the search has left is passed over.
LEMMA VisitSeenStep ==
  ASSUME SearchInv, VisitSeen
  PROVE  SearchInv'
<1> USE DEF SearchInv
<1>1. PICK f \in Files :
        Visit(f) /\ f \notin FilesOnPath /\ f \in visited /\ path' = WithoutNext(f)
  BY DEF VisitSeen
<1>2. UNCHANGED <<includes, canonical, started, visited, cycle, searching>>
  BY DEF VisitSeen
<1>3. /\ path' \in Seq(Frames) /\ Len(path') = Len(path) /\ Len(path) \in Nat \ {0}
      /\ \A i \in 1 .. Len(path) : path'[i].file = path[i].file
      /\ \A i \in 1 .. Len(path) - 1 : path'[i].todo = path[i].todo
      /\ path'[Len(path)].todo = path[Len(path)].todo \ {f}
      /\ path # <<>>
  BY <1>1, WithoutNextFacts DEF Visit
<1>4. GraphTypeOK'
  BY <1>2, <1>3 DEF GraphTypeOK
<1>5. FilesOnPath' = FilesOnPath /\ Left' = Left /\ f \in Left /\ path' # <<>>
  <2>1. FilesOnPath = {path[i].file : i \in 1 .. Len(path)}
    BY PathFacts
  <2>2. FilesOnPath' = {path'[i].file : i \in 1 .. Len(path)}
    BY <1>3 DEF FilesOnPath
  <2>3. FilesOnPath' = FilesOnPath
    BY <1>3, <2>1, <2>2
  <2>4. QED
    BY <1>1, <1>2, <1>3, <2>3 DEF Left
<1>6. PathInv'
  <2>1. \A i, j \in 1 .. Len(path) : path'[i].file = path'[j].file => i = j
    BY <1>3 DEF PathInv
  <2>2. ASSUME NEW i \in 2 .. Len(path)
        PROVE  path'[i].file \in Dependencies[path'[i - 1].file]
    <3>1. i \in 1 .. Len(path) /\ i - 1 \in 1 .. Len(path)
      BY <1>3
    <3>2. QED
      BY <1>3, <3>1 DEF PathInv
  <2>3. ASSUME NEW i \in 1 .. Len(path)
        PROVE  path'[i].todo \subseteq Dependencies[path'[i].file]
    <3>1. i = Len(path) \/ i \in 1 .. Len(path) - 1
      BY <1>3
    <3>2. QED
      BY <1>3, <3>1 DEF PathInv
  <2>4. path'[1].file \in started'
    BY <1>2, <1>3 DEF PathInv
  <2>5. FilesOnPath' \subseteq visited'
    BY <1>2, <1>5 DEF PathInv
  <2>6. QED
    BY <1>2, <1>3, <2>1, <2>2, <2>3, <2>4, <2>5, DependenciesKept DEF PathInv
<1>7. VisitedInv'
  <2>1. \A i \in 1 .. Len(path) : path[i].todo \ {f} \subseteq path'[i].todo
    BY <1>3
  <2>2. QED
    BY <1>2, <1>3, <1>5, <2>1, DependenciesKept DEF VisitedInv
<1>8. StartedInv' /\ ResultInv'
  BY <1>1, <1>2, <1>3, <1>5, DependenciesKept DEF StartedInv, ResultInv, Visit
<1>9. QED
  BY <1>4, <1>6, <1>7, <1>8

\* A new file is entered: it comes on the path, and nothing has been left.
LEMMA VisitNewStep ==
  ASSUME SearchInv, VisitNew
  PROVE  SearchInv'
<1> USE DEF SearchInv
<1>1. PICK f \in Files :
        /\ Visit(f) /\ f \notin visited
        /\ path' = Append(WithoutNext(f), Frame(f))
        /\ visited' = visited \union {f}
  BY DEF VisitNew
<1>2. UNCHANGED <<includes, canonical, started, cycle, searching>>
  BY DEF VisitNew
<1> DEFINE n == Len(path)
           rest == WithoutNext(f)
<1>3. /\ rest \in Seq(Frames) /\ Len(rest) = n /\ n \in Nat \ {0}
      /\ \A i \in 1 .. n : rest[i].file = path[i].file
      /\ \A i \in 1 .. n - 1 : rest[i].todo = path[i].todo
      /\ rest[n].todo = path[n].todo \ {f}
      /\ path # <<>>
  BY <1>1, WithoutNextFacts DEF Visit
<1>4. Frame(f) = [file |-> f, todo |-> Dependencies[f]] /\ Frame(f) \in Frames
  BY DependenciesType DEF Frame, Frames
<1>5. /\ path' \in Seq(Frames) /\ Len(path') = n + 1
      /\ path'[n + 1] = Frame(f)
      /\ \A i \in 1 .. n : path'[i] = rest[i]
  BY <1>1, <1>3, <1>4
<1> HIDE DEF n, rest
<1>6. GraphTypeOK'
  BY <1>1, <1>2, <1>5 DEF GraphTypeOK
<1>7. FilesOnPath' = FilesOnPath \union {f} /\ Left' = Left /\ f \notin FilesOnPath
  <2>1. FilesOnPath = {path[i].file : i \in 1 .. n}
    BY PathFacts DEF n
  <2>2. FilesOnPath' = {path'[i].file : i \in 1 .. n + 1}
    BY <1>3, <1>5 DEF FilesOnPath
  <2>3. FilesOnPath' = FilesOnPath \union {f}
    BY <1>3, <1>4, <1>5, <2>1, <2>2
  <2>4. f \notin FilesOnPath
    BY <1>1 DEF PathInv
  <2>5. QED
    BY <1>1, <2>3, <2>4 DEF Left
<1>8. /\ f \in Dependencies[path[n].file]
      /\ \A i \in 1 .. n : path[i].file # f
  BY <1>1, <1>3, <1>7, PathFacts DEF Visit, Last, PathInv, n
<1>9. PathInv'
  <2>0. \A i \in 1 .. n + 1 : i \in 1 .. n \/ i = n + 1
    BY <1>3
  <2>1. ASSUME NEW i \in 1 .. n + 1, NEW j \in 1 .. n + 1, path'[i].file = path'[j].file
        PROVE  i = j
    <3>1. \A k \in 1 .. n : path'[k].file = path[k].file /\ path'[k].file # f
      BY <1>3, <1>5, <1>8
    <3>2. path'[n + 1].file = f
      BY <1>4, <1>5
    <3>3. CASE i \in 1 .. n /\ j \in 1 .. n
      BY <2>1, <3>1, <3>3 DEF PathInv, n
    <3>4. QED
      BY <2>0, <2>1, <3>1, <3>2, <3>3
  <2>2. \A i \in 2 .. n + 1 : path'[i].file \in Dependencies[path'[i - 1].file]
    <3>1. ASSUME NEW i \in 2 .. n
          PROVE  path'[i].file \in Dependencies[path'[i - 1].file]
      <4>1. i \in 1 .. n /\ i - 1 \in 1 .. n
        BY <1>3
      <4>2. path'[i].file = path[i].file /\ path'[i - 1].file = path[i - 1].file
        BY <1>3, <1>5, <4>1
      <4>3. QED
        BY <4>2 DEF PathInv, n
    <3>2. path'[n + 1].file \in Dependencies[path'[n].file] /\ (n + 1) - 1 = n
      BY <1>3, <1>4, <1>5, <1>8
    <3>3. QED
      BY <1>3, <3>1, <3>2
  <2>3. ASSUME NEW i \in 1 .. n + 1
        PROVE  path'[i].todo \subseteq Dependencies[path'[i].file]
    <3>1. CASE i \in 1 .. n
      <4>1. path'[i].todo \subseteq path[i].todo /\ path'[i].file = path[i].file
        <5>1. i = n \/ i \in 1 .. n - 1
          BY <1>3, <3>1
        <5>2. QED
          BY <1>3, <1>5, <3>1, <5>1
      <4>2. QED
        BY <3>1, <4>1 DEF PathInv, n
    <3>2. CASE i = n + 1
      BY <1>4, <1>5, <3>2
    <3>3. QED
      BY <2>0, <3>1, <3>2
  <2>4. FilesOnPath' \subseteq visited'
    BY <1>1, <1>7 DEF PathInv
  <2>5. path'[1].file \in started'
    BY <1>2, <1>3, <1>5 DEF PathInv
  <2>6. QED
    BY <1>2, <1>5, <2>1, <2>2, <2>3, <2>4, <2>5, DependenciesKept DEF PathInv
<1>10. VisitedInv'
  <2>1. ASSUME NEW i \in 1 .. n + 1, NEW d \in Dependencies[path'[i].file] \ path'[i].todo
        PROVE  d \in Left \/ (i < n + 1 /\ d = path'[i + 1].file)
    <3>1. CASE i < n
      <4>1. /\ i \in 1 .. n /\ i + 1 \in 1 .. n
            /\ path'[i].file = path[i].file /\ path'[i].todo = path[i].todo
            /\ path'[i + 1].file = path[i + 1].file
        BY <1>3, <1>5, <3>1
      <4>2. d \in Left \/ (i < n /\ d = path[i + 1].file)
        BY <2>1, <4>1 DEF VisitedInv, n
      <4>3. i < n + 1
        BY <1>3, <3>1
      <4>4. QED
        BY <4>1, <4>2, <4>3
    <3>2. CASE i = n
      <4>1. /\ i \in 1 .. n /\ path'[i].file = path[i].file /\ path'[i].todo = path[i].todo \ {f}
            /\ path'[i + 1].file = f /\ i < n + 1
        BY <1>3, <1>4, <1>5, <3>2
      <4>2. d = f \/ d \in Left
        BY <2>1, <3>2, <4>1 DEF VisitedInv, n
      <4>3. QED
        BY <4>1, <4>2
    <3>3. CASE i = n + 1
      BY <1>4, <1>5, <2>1, <3>3
    <3>4. QED
      BY <1>3, <3>1, <3>2, <3>3
  <2>2. QED
    BY <1>2, <1>5, <1>7, <2>1, DependenciesKept DEF VisitedInv
<1>11. StartedInv' /\ ResultInv'
  <2>1. path' # <<>> /\ path'[1].file = path[1].file /\ searching
    BY <1>1, <1>3, <1>5 DEF Visit
  <2>2. QED
    BY <1>2, <1>3, <2>1, DependenciesKept DEF StartedInv, ResultInv
<1>12. QED
  BY <1>6, <1>9, <1>10, <1>11

\* The search leaves the last file of the path: all of its dependencies have been left.
LEMMA BacktrackStep ==
  ASSUME SearchInv, Backtrack
  PROVE  SearchInv'
<1> USE DEF SearchInv
<1> DEFINE n == Len(path)
           last == path[n].file
<1>1. /\ searching /\ path # <<>> /\ path[n].todo = {} /\ path' = Front(path)
      /\ UNCHANGED <<includes, canonical, started, visited, cycle, searching>>
  BY DEF Backtrack, Last
<1>2. n \in Nat \ {0} /\ path \in Seq(Frames)
  BY <1>1, PathFacts DEF GraphTypeOK
<1>3. /\ path' \in Seq(Frames) /\ Len(path') = n - 1
      /\ \A i \in 1 .. n - 1 : path'[i] = path[i]
  BY <1>1, <1>2, OneLess
<1> HIDE DEF n
<1>4. GraphTypeOK'
  BY <1>1, <1>3 DEF GraphTypeOK
<1>5. FilesOnPath' = FilesOnPath \ {last} /\ last \in FilesOnPath
  <2>1. FilesOnPath = {path[i].file : i \in 1 .. n}
    BY PathFacts DEF n
  <2>2. FilesOnPath' = {path[i].file : i \in 1 .. n - 1}
    BY <1>2, <1>3 DEF FilesOnPath
  <2>3. \A i \in 1 .. n : path[i].file = last => i = n
    BY <1>2 DEF PathInv, n
  <2>4. 1 .. n = (1 .. n - 1) \union {n} /\ n \notin 1 .. n - 1
    BY <1>2
  <2>5. FilesOnPath = {path[i].file : i \in 1 .. n - 1} \union {last}
    BY <2>1, <2>4
  <2>6. \A i \in 1 .. n - 1 : path[i].file # last
    BY <2>3, <2>4
  <2>7. QED
    BY <2>2, <2>5, <2>6
<1>6. last \in visited /\ last \notin Left /\ Left' = Left \union {last}
  BY <1>1, <1>5 DEF Left, PathInv
<1>7. PathInv'
  <2>1. \A i, j \in 1 .. n - 1 : path'[i].file = path'[j].file => i = j
    BY <1>2, <1>3, SMTT(60) DEF PathInv, n
  <2>2. \A i \in 2 .. n - 1 : path'[i].file \in Dependencies[path'[i - 1].file]
    BY <1>2, <1>3 DEF PathInv, n
  <2>3. \A i \in 1 .. n - 1 : path'[i].todo \subseteq Dependencies[path'[i].file]
    BY <1>2, <1>3 DEF PathInv, n
  <2>4. path' # <<>> => path'[1].file \in started'
    BY <1>1, <1>2, <1>3 DEF PathInv
  <2>5. QED
    BY <1>1, <1>3, <1>5, <2>1, <2>2, <2>3, <2>4, DependenciesKept DEF PathInv
<1>8. ClosedAcyclic(Left')
  <2>1. Dependencies[last] \subseteq Left
    BY <1>1, <1>2 DEF VisitedInv, n
  <2>2. QED
    BY <1>6, <2>1, AddToClosedAcyclic DEF VisitedInv
<1>9. VisitedInv'
  <2>1. ASSUME NEW i \in 1 .. n - 1, NEW d \in Dependencies[path'[i].file] \ path'[i].todo
        PROVE  d \in Left' \/ (i < n - 1 /\ d = path'[i + 1].file)
    <3>1. i \in 1 .. n /\ i < n /\ path'[i] = path[i]
      BY <1>2, <1>3
    <3>2. d \in Left \/ d = path[i + 1].file
      BY <2>1, <3>1 DEF VisitedInv, n
    <3>3. CASE i = n - 1
      <4>1. i + 1 = n
        BY <1>2, <3>3
      <4>2. QED
        BY <1>6, <3>2, <4>1
    <3>4. CASE i < n - 1
      <4>1. i + 1 \in 1 .. n - 1
        BY <1>2, <3>4
      <4>2. path'[i + 1] = path[i + 1]
        BY <1>3, <4>1
      <4>3. QED
        BY <1>6, <3>2, <3>4, <4>2
    <3>5. QED
      BY <1>2, <3>3, <3>4
  <2>2. QED
    BY <1>1, <1>3, <1>8, <2>1, DependenciesKept DEF VisitedInv
<1>10. StartedInv'
  <2>1. CASE n = 1
    <3>1. last \in Left' /\ path[1].file = last
      BY <1>6, <2>1
    <3>2. Left' \in SUBSET Files
      BY <1>4 DEF Left, GraphTypeOK
    <3>3. QED
      BY <1>1, <1>8, <3>1, <3>2, DependenciesKept DEF StartedInv
  <2>2. CASE n > 1
    <3>1. path' # <<>> /\ path'[1] = path[1]
      BY <1>2, <1>3, <2>2
    <3>2. QED
      BY <1>1, <3>1, DependenciesKept DEF StartedInv
  <2>3. QED
    BY <1>2, <2>1, <2>2
<1>11. ResultInv'
  BY <1>1 DEF ResultInv
<1>12. QED
  BY <1>4, <1>7, <1>9, <1>10, <1>11

LEMMA NothingFoundStep ==
  ASSUME SearchInv, NothingFound
  PROVE  SearchInv'
BY DependenciesKept
   DEF SearchInv, NothingFound, GraphTypeOK, PathInv, VisitedInv, StartedInv, ResultInv, Left,
       FilesOnPath

LEMMA SearchStep == SearchInv /\ [GraphNext]_graphVars => SearchInv'
<1>1. ASSUME SearchInv, UNCHANGED graphVars
      PROVE  SearchInv'
  <2> USE DEF SearchInv, graphVars
  <2>1. GraphTypeOK' /\ PathInv' /\ VisitedInv' /\ StartedInv'
    BY <1>1, DependenciesKept
       DEF GraphTypeOK, PathInv, VisitedInv, StartedInv, Left, FilesOnPath
  <2>2. IsCycle(cycle)' = IsCycle(cycle)
    BY <1>1, DependenciesKept DEF IsCycle
  <2>3. QED
    BY <1>1, <2>1, <2>2 DEF ResultInv
<1>2. QED
  BY <1>1, StartSearchStep, VisitOnPathStep, VisitSeenStep, VisitNewStep, BacktrackStep,
     NothingFoundStep
     DEF GraphNext

\* What the invariant says of a search that has returned.
LEMMA SearchInvIsExact == SearchInv => AnalysisIsExact
<1> SUFFICES ASSUME SearchInv PROVE AnalysisIsExact
  OBVIOUS
<1> USE DEF SearchInv
<1>1. ASSUME ~searching, cycle = <<>>
      PROVE  ~HasRing(Dependencies)
  BY <1>1, NoRingIfCovered DEF ResultInv, StartedInv
<1>2. QED
  BY <1>1, EntriesLeadEverywhere DEF AnalysisIsExact, ResultInv

-----------------------------------------------------------------------------
(* The invariant of the search of dependency.rs: the path is a path, and     *)
(* what has been left of it leads nowhere else and has no ring.              *)
THEOREM SearchInvariant == GraphSpec => []SearchInv
BY SearchInit, SearchStep, PTL DEF GraphSpec

(* has_circular_dependencies returns a cycle exactly when there is one, and  *)
(* where there is none, what find_entry_points returns leads to every file.  *)
THEOREM SearchIsExact == GraphSpec => []AnalysisIsExact
BY SearchInvariant, SearchInvIsExact, PTL
=============================================================================
