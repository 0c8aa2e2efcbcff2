------------------------ MODULE ImportResolverProofs ------------------------
(***************************************************************************)
(* Proofs about ImportResolver: the recursion never enters a file twice,   *)
(* the marks in "resolving" are the files in progress until a call fails,  *)
(* and a call that reports a circular dependency was made for a file that  *)
(* leads to a ring, for any set of files and any include graph.            *)
(***************************************************************************)
EXTENDS ImportResolver, TLAPS

\* The stack is a finite sequence of frames.
StackShape == \E S : stack \in Seq(S)

\* The outer calls wait at an import, and so does the innermost one while it has a
\* loaded file to merge.
Waits(k) == stack[k].next <= Len(disk[stack[k].file].imports)

WaitInv ==
  /\ \A k \in DOMAIN stack : k > 1 => Waits(k)
  /\ loaded # <<>> => stack # <<>> /\ Waits(1)

\* Every file in progress is marked; before the first failure nothing else is, and
\* the outermost call knows that it set its own mark.
MarkInv ==
  /\ InProgress \subseteq resolving
  /\ failures = 0 => resolving \subseteq InProgress
  /\ failures = 0 /\ stack # <<>> => stack[Len(stack)].newly

ResolverInv == TypeOK /\ StackShape /\ WaitInv /\ NoReentry /\ MarkInv

-----------------------------------------------------------------------------
\* What pushing a frame, dropping the innermost one and replacing it make of the
\* stack.
LEMMA PushFrame ==
  ASSUME NEW S, NEW s \in Seq(S), NEW f
  PROVE  /\ <<f>> \o s \in Seq(S \union {f})
         /\ Len(<<f>> \o s) = Len(s) + 1
         /\ (<<f>> \o s)[1] = f
         /\ \A k \in 1 .. Len(s) : (<<f>> \o s)[k + 1] = s[k]
         /\ \A k \in 2 .. Len(s) + 1 : (<<f>> \o s)[k] = s[k - 1]
         /\ <<f>> \o s # <<>>
<1> <<f>> \in Seq(S \union {f}) /\ s \in Seq(S \union {f})
  OBVIOUS
<1> QED OBVIOUS

LEMMA PopFrame ==
  ASSUME NEW S, NEW s \in Seq(S), s # <<>>
  PROVE  /\ Len(s) \in Nat \ {0} /\ Head(s) = s[1]
         /\ Tail(s) \in Seq(S)
         /\ Len(Tail(s)) = Len(s) - 1
         /\ \A k \in 1 .. Len(s) - 1 : Tail(s)[k] = s[k + 1]
OBVIOUS

LEMMA ReplaceFrame ==
  ASSUME NEW S, NEW s \in Seq(S), s # <<>>, NEW f
  PROVE  /\ <<f>> \o Tail(s) \in Seq(S \union {f})
         /\ Len(<<f>> \o Tail(s)) = Len(s)
         /\ (<<f>> \o Tail(s))[1] = f
         /\ \A k \in 2 .. Len(s) : (<<f>> \o Tail(s))[k] = s[k]
         /\ <<f>> \o Tail(s) # <<>>
<1>1. /\ Len(s) \in Nat \ {0} /\ Tail(s) \in Seq(S) /\ Len(Tail(s)) = Len(s) - 1
      /\ \A k \in 1 .. Len(s) - 1 : Tail(s)[k] = s[k + 1]
  BY PopFrame
<1>2. /\ <<f>> \o Tail(s) \in Seq(S \union {f})
      /\ Len(<<f>> \o Tail(s)) = Len(s)
      /\ (<<f>> \o Tail(s))[1] = f
      /\ \A k \in 2 .. Len(s) : (<<f>> \o Tail(s))[k] = Tail(s)[k - 1]
      /\ <<f>> \o Tail(s) # <<>>
  BY <1>1, PushFrame
<1>3. \A k \in 2 .. Len(s) : Tail(s)[k - 1] = s[k]
  BY <1>1
<1> QED BY <1>2, <1>3

-----------------------------------------------------------------------------
LEMMA InitInv == Init => ResolverInv
<1> SUFFICES ASSUME Init PROVE ResolverInv
  OBVIOUS
<1> USE DEF Init, NoOutcome
<1>1. DOMAIN cache = {} /\ DOMAIN stack = {} /\ stack \in Seq({})
  OBVIOUS
<1>2. TypeOK
  BY <1>1 DEF TypeOK, OutcomeKinds
<1> QED BY <1>1, <1>2 DEF ResolverInv, StackShape, WaitInv, NoReentry, MarkInv, InProgress

LEMMA ImportsShape ==
  ASSUME TypeOK, NEW f \in Files
  PROVE  Len(disk[f].imports) \in Nat
BY DiskAssumption DEF TypeOK

LEMMA StartInv ==
  ASSUME ResolverInv, NEW root \in Files, Start(root)
  PROVE  ResolverInv'
<1> DEFINE fr == Frame(root, root \notin resolving, 1, Parsed(root))
<1> USE DEF ResolverInv, Start
<1>1. stack' = <<fr>> /\ DOMAIN stack' = {1} /\ stack' \in Seq({fr}) /\ stack'[1] = fr
      /\ Len(stack') = 1 /\ stack' # <<>>
  OBVIOUS
<1>2. fr.file = root /\ fr.newly = (root \notin resolving) /\ fr.next = 1
  BY DEF Frame
<1> HIDE DEF fr
<1>3. InProgress' = {root} /\ InProgress = {}
  BY <1>1, <1>2 DEF InProgress
<1>4. loaded' = <<>> /\ disk' = disk /\ cache' = cache /\ failures' = failures
  BY DEF TypeOK, WaitInv
<1>5. TypeOK'
  <2>1. outcome'.kind \in OutcomeKinds
    BY DEF NoOutcome, OutcomeKinds
  <2>2. fr.next \in 1 .. Len(disk[fr.file].imports) + 1
    BY <1>2, ImportsShape
  <2> resolving \subseteq Files /\ calls \in Nat
    BY DEF TypeOK
  <2>3. resolving' \subseteq Files /\ calls' \in Nat
    OBVIOUS
  <2>5. disk' \in Disks /\ DOMAIN cache' \subseteq Files /\ failures' \in Nat
    BY <1>4 DEF TypeOK
  <2>4. \A k \in DOMAIN stack' :
          /\ stack'[k].file \in Files /\ stack'[k].newly \in BOOLEAN
          /\ stack'[k].next \in 1 .. Len(disk'[stack'[k].file].imports) + 1
    BY <1>1, <1>2, <1>4, <2>2
  <2> QED BY <1>4, <2>1, <2>3, <2>4, <2>5 DEF TypeOK
<1>6. StackShape' /\ WaitInv' /\ NoReentry'
  <2>1. StackShape'
    BY <1>1 DEF StackShape
  <2>2. WaitInv'
    BY <1>1, <1>4 DEF WaitInv
  <2>3. NoReentry'
    BY <1>1 DEF NoReentry
  <2> QED BY <2>1, <2>2, <2>3
<1>7. MarkInv'
  BY <1>1, <1>2, <1>3, <1>4 DEF MarkInv
<1> QED BY <1>5, <1>6, <1>7

\* An error unwinds the whole stack and may leave one more mark.
LEMMA FailsInv ==
  ASSUME ResolverInv, NEW kind, Fails(kind),
         kind \in OutcomeKinds,
         resolving \subseteq resolving', resolving' \subseteq Files
  PROVE  ResolverInv'
<1>1. stack' = <<>> /\ loaded' = <<>> /\ DOMAIN stack' = {} /\ stack' \in Seq({})
  <2>1. stack' = <<>> /\ loaded' = <<>>
    BY DEF Fails
  <2> QED BY <2>1
<1>2. outcome'.kind = kind /\ failures' = failures + 1
  BY DEF Fails
<1>3. failures' \in Nat /\ failures' # 0
  <2>1. failures \in Nat
    BY DEF ResolverInv, TypeOK
  <2> QED BY <1>2, <2>1
<1>4. disk' \in Disks /\ DOMAIN cache' \subseteq Files /\ calls' \in Nat
  BY DEF ResolverInv, TypeOK, Fails
<1>5. TypeOK'
  BY <1>1, <1>2, <1>3, <1>4 DEF TypeOK
<1>6. StackShape' /\ WaitInv' /\ NoReentry'
  BY <1>1 DEF StackShape, WaitInv, NoReentry
<1>7. MarkInv'
  BY <1>1, <1>3 DEF MarkInv, InProgress
<1> QED BY <1>5, <1>6, <1>7 DEF ResolverInv

LEMMA LoadCachedInv == ResolverInv /\ LoadCached => ResolverInv'
<1> SUFFICES ASSUME ResolverInv, LoadCached PROVE ResolverInv'
  OBVIOUS
<1> USE DEF ResolverInv
<1>1. /\ stack # <<>> /\ Top.next <= Len(Imports)
      /\ UNCHANGED <<disk, outcome, calls, failures, cache, resolving, stack>>
  BY DEF LoadCached, AtImport, Returns
<1>2. Waits(1)
  <2>1. PICK S : stack \in Seq(S)
    BY DEF StackShape
  <2>2. Top = stack[1]
    BY <1>1, <2>1 DEF Top
  <2> QED BY <1>1, <2>2 DEF Waits, Imports
<1>3. TypeOK'
  BY <1>1, <1>2 DEF TypeOK, Waits
<1>4. WaitInv'
  BY <1>1, <1>2 DEF WaitInv, Waits
<1>5. StackShape' /\ NoReentry' /\ MarkInv'
  BY <1>1 DEF StackShape, NoReentry, MarkInv, InProgress
<1> QED BY <1>3, <1>4, <1>5

LEMMA LoadFileInv == ResolverInv /\ LoadFile => ResolverInv'
<1> SUFFICES ASSUME ResolverInv, LoadFile PROVE ResolverInv'
  OBVIOUS
<1> DEFINE file == Current.file
           fr == Frame(file, FALSE, 1, Parsed(file))
<1> USE DEF ResolverInv
<1>1. /\ stack # <<>> /\ loaded = <<>> /\ Top.next <= Len(Imports)
      /\ file \in Files /\ file \notin resolving
      /\ resolving' = resolving \union {file}
      /\ stack' = <<fr>> \o stack
      /\ UNCHANGED <<disk, cache, loaded, outcome, calls, failures>>
  BY DEF LoadFile, AtImport, Fresh
<1>2. fr.file = file /\ fr.newly = FALSE /\ fr.next = 1
  BY DEF Frame
<1> HIDE DEF fr, file
<1>3. PICK S : stack \in Seq(S)
  BY DEF StackShape
<1>4. /\ stack' \in Seq(S \union {fr}) /\ Len(stack') = Len(stack) + 1
      /\ stack'[1] = fr /\ stack' # <<>>
      /\ \A k \in 1 .. Len(stack) : stack'[k + 1] = stack[k]
      /\ \A k \in 2 .. Len(stack) + 1 : stack'[k] = stack[k - 1]
  BY <1>1, <1>3, PushFrame
<1>5. /\ Len(stack) \in Nat \ {0} /\ DOMAIN stack = 1 .. Len(stack)
      /\ DOMAIN stack' = 1 .. Len(stack) + 1 /\ Top = stack[1]
  BY <1>1, <1>3, <1>4 DEF Top
<1>6. Waits(1)
  BY <1>1, <1>5 DEF Waits, Imports
<1>7. TypeOK'
  <2>1. fr.next \in 1 .. Len(disk[fr.file].imports) + 1
    BY <1>1, <1>2, ImportsShape
  <2>2. resolving' \subseteq Files
    BY <1>1 DEF TypeOK
  <2>3. ASSUME NEW k \in 1 .. Len(stack) + 1
        PROVE  /\ stack'[k].file \in Files /\ stack'[k].newly \in BOOLEAN
               /\ stack'[k].next \in 1 .. Len(disk[stack'[k].file].imports) + 1
    <3>1. CASE k = 1
      BY <3>1, <1>1, <1>2, <1>4, <2>1
    <3>2. CASE k # 1
      <4>1. k \in 2 .. Len(stack) + 1 /\ k - 1 \in DOMAIN stack
        BY <3>2, <1>5
      <4>2. stack'[k] = stack[k - 1]
        BY <4>1, <1>4
      <4> QED BY <4>1, <4>2 DEF TypeOK
    <3> QED BY <3>1, <3>2
  <2> QED BY <1>1, <1>5, <2>2, <2>3 DEF TypeOK
<1>8. WaitInv'
  <2>1. ASSUME NEW k \in 1 .. Len(stack) + 1, k > 1
        PROVE  stack'[k].next <= Len(disk[stack'[k].file].imports)
    <3>1. k - 1 \in DOMAIN stack /\ stack'[k] = stack[k - 1]
      BY <2>1, <1>4, <1>5
    <3>2. Waits(k - 1)
      BY <3>1, <1>5, <1>6 DEF WaitInv
    <3> QED BY <3>1, <3>2 DEF Waits
  <2> QED BY <1>1, <1>5, <2>1 DEF WaitInv, Waits
<1>9. ASSUME NEW k \in 2 .. Len(stack) + 1
      PROVE  stack'[k].file \in InProgress /\ stack'[k].file # file
  <2>1. k - 1 \in DOMAIN stack /\ stack'[k] = stack[k - 1]
    BY <1>4, <1>5
  <2> QED BY <2>1, <1>1 DEF InProgress, MarkInv
<1>10. NoReentry'
  <2>1. ASSUME NEW i \in 1 .. Len(stack) + 1, NEW j \in 1 .. Len(stack) + 1,
               stack'[i].file = stack'[j].file
        PROVE  i = j
    <3>1. CASE i = 1 /\ j = 1
      BY <3>1
    <3>2. CASE i = 1 /\ j # 1
      BY <3>2, <2>1, <1>2, <1>4, <1>9
    <3>3. CASE i # 1 /\ j = 1
      BY <3>3, <2>1, <1>2, <1>4, <1>9
    <3>4. CASE i # 1 /\ j # 1
      <4>1. /\ i - 1 \in DOMAIN stack /\ j - 1 \in DOMAIN stack
            /\ stack'[i] = stack[i - 1] /\ stack'[j] = stack[j - 1]
        BY <3>4, <1>4, <1>5
      <4>2. i - 1 = j - 1
        BY <4>1, <2>1 DEF NoReentry
      <4> QED BY <4>2
    <3> QED BY <3>1, <3>2, <3>3, <3>4
  <2> QED BY <2>1, <1>5 DEF NoReentry
<1>11. InProgress' = InProgress \union {file}
  <2>1. \A k \in 1 .. Len(stack) + 1 : stack'[k].file \in InProgress \union {file}
    <3> TAKE k \in 1 .. Len(stack) + 1
    <3>1. CASE k = 1
      BY <3>1, <1>2, <1>4
    <3>2. CASE k # 1
      BY <3>2, <1>5, <1>9
    <3> QED BY <3>1, <3>2
  <2>2. file \in InProgress'
    BY <1>2, <1>4, <1>5 DEF InProgress
  <2>3. ASSUME NEW k \in DOMAIN stack PROVE stack[k].file \in InProgress'
    <3>1. k + 1 \in DOMAIN stack' /\ stack'[k + 1] = stack[k]
      BY <1>4, <1>5
    <3> QED BY <3>1 DEF InProgress
  <2>4. \A x \in InProgress : x \in InProgress'
    BY <2>3 DEF InProgress
  <2>5. \A x \in InProgress' : x \in InProgress \union {file}
    BY <2>1, <1>5 DEF InProgress
  <2> QED BY <2>2, <2>4, <2>5
<1>12. MarkInv'
  <2>1. stack'[Len(stack) + 1] = stack[Len(stack)]
    BY <1>4, <1>5
  <2> QED BY <1>1, <1>4, <1>11, <2>1 DEF MarkInv
<1>13. StackShape'
  BY <1>4 DEF StackShape
<1> QED BY <1>7, <1>8, <1>10, <1>12, <1>13

LEMMA MergeInv == ResolverInv /\ Merge => ResolverInv'
<1> SUFFICES ASSUME ResolverInv, Merge PROVE ResolverInv'
  OBVIOUS
<1> DEFINE fr == Frame(Top.file, Top.newly, Top.next + 1,
                       MergeImport(Top.spec, loaded[1], Current))
<1> USE DEF ResolverInv
<1>1. /\ loaded # <<>> /\ stack # <<>> /\ Waits(1)
      /\ stack' = <<fr>> \o Tail(stack) /\ loaded' = <<>>
      /\ UNCHANGED <<disk, cache, resolving, outcome, calls, failures>>
  BY DEF Merge, WaitInv
<1>2. fr.file = Top.file /\ fr.newly = Top.newly /\ fr.next = Top.next + 1
  BY DEF Frame
<1> HIDE DEF fr
<1>3. PICK S : stack \in Seq(S)
  BY DEF StackShape
<1>4. /\ stack' \in Seq(S \union {fr}) /\ Len(stack') = Len(stack)
      /\ stack'[1] = fr /\ stack' # <<>>
      /\ \A k \in 2 .. Len(stack) : stack'[k] = stack[k]
  BY <1>1, <1>3, ReplaceFrame
<1>5. /\ Len(stack) \in Nat \ {0} /\ DOMAIN stack = 1 .. Len(stack)
      /\ DOMAIN stack' = 1 .. Len(stack) /\ Top = stack[1]
  BY <1>1, <1>3, <1>4 DEF Top
<1>6. ASSUME NEW k \in 1 .. Len(stack)
      PROVE  stack'[k].file = stack[k].file /\ stack'[k].newly = stack[k].newly
  <2>1. CASE k = 1
    BY <2>1, <1>2, <1>4, <1>5
  <2>2. CASE k # 1
    BY <2>2, <1>4
  <2> QED BY <2>1, <2>2
<1>7. TypeOK'
  <2>1. /\ stack[1].file \in Files
        /\ stack[1].next \in 1 .. Len(disk[stack[1].file].imports) + 1
    BY <1>5 DEF TypeOK
  <2>2. fr.next \in 1 .. Len(disk[stack[1].file].imports) + 1
    <3>1. Len(disk[stack[1].file].imports) \in Nat
      BY <2>1, ImportsShape
    <3> QED BY <3>1, <2>1, <1>1, <1>2, <1>5 DEF Waits
  <2>3. ASSUME NEW k \in 1 .. Len(stack)
        PROVE  /\ stack'[k].file \in Files /\ stack'[k].newly \in BOOLEAN
               /\ stack'[k].next \in 1 .. Len(disk[stack'[k].file].imports) + 1
    <3>1. stack[k].file \in Files /\ stack[k].newly \in BOOLEAN
      BY <1>5 DEF TypeOK
    <3>2. CASE k = 1
      BY <3>1, <3>2, <1>4, <1>6, <2>2
    <3>3. CASE k # 1
      BY <3>1, <3>3, <1>4, <1>5 DEF TypeOK
    <3> QED BY <3>2, <3>3
  <2> QED BY <1>1, <1>5, <2>3 DEF TypeOK
<1>8. WaitInv'
  BY <1>1, <1>4, <1>5 DEF WaitInv, Waits
<1>9. NoReentry'
  BY <1>5, <1>6 DEF NoReentry
<1>10. InProgress' = InProgress
  BY <1>5, <1>6 DEF InProgress
<1>11. MarkInv'
  BY <1>1, <1>4, <1>5, <1>6, <1>10 DEF MarkInv
<1>12. StackShape'
  BY <1>4 DEF StackShape
<1> QED BY <1>7, <1>8, <1>9, <1>11, <1>12

LEMMA FinishImportedInv == ResolverInv /\ FinishImported => ResolverInv'
<1> SUFFICES ASSUME ResolverInv, FinishImported PROVE ResolverInv'
  OBVIOUS
<1> USE DEF ResolverInv
<1>1. /\ stack # <<>> /\ Len(stack) > 1 /\ stack' = Tail(stack)
      /\ resolving' = resolving \ {Top.file}
      /\ cache' = Cached(Top.file, Resolved(Top.spec))
      /\ UNCHANGED <<disk, outcome, calls, failures>>
  BY DEF FinishImported, AtEnd, Returns
<1>2. PICK S : stack \in Seq(S)
  BY DEF StackShape
<1>3. /\ stack' \in Seq(S) /\ Len(stack') = Len(stack) - 1 /\ Top = stack[1]
      /\ \A k \in 1 .. Len(stack) - 1 : stack'[k] = stack[k + 1]
  BY <1>1, <1>2, PopFrame DEF Top
<1>4. /\ Len(stack) \in Nat \ {0, 1} /\ DOMAIN stack = 1 .. Len(stack)
      /\ DOMAIN stack' = 1 .. Len(stack) - 1 /\ stack' # <<>>
  <2>1. Len(stack) \in Nat /\ DOMAIN stack = 1 .. Len(stack) /\ Len(stack) > 1
    BY <1>1, <1>2
  <2>2. DOMAIN stack' = 1 .. Len(stack) - 1 /\ Len(stack') # 0
    BY <2>1, <1>3
  <2> QED BY <2>1, <2>2, <1>3
<1>5. ASSUME NEW k \in DOMAIN stack'
      PROVE  k + 1 \in DOMAIN stack /\ k + 1 > 1 /\ stack'[k] = stack[k + 1]
  BY <1>3, <1>4
<1>6. ASSUME NEW k \in DOMAIN stack'
      PROVE  stack'[k].next <= Len(disk[stack'[k].file].imports)
  BY <1>5 DEF WaitInv, Waits
<1>7. Top.file \in Files /\ Top.file = stack[1].file
  BY <1>3, <1>4 DEF TypeOK
<1>8. TypeOK'
  <2>1. DOMAIN cache' \subseteq Files
    <3>1. DOMAIN cache' \subseteq {Top.file} \union DOMAIN cache
      BY <1>1 DEF Cached
    <3> QED BY <3>1, <1>7 DEF TypeOK
  <2>2. resolving' \subseteq Files
    BY <1>1 DEF TypeOK
  <2>3. ASSUME NEW k \in DOMAIN stack'
        PROVE  /\ stack'[k].file \in Files /\ stack'[k].newly \in BOOLEAN
               /\ stack'[k].next \in 1 .. Len(disk[stack'[k].file].imports) + 1
    BY <1>5 DEF TypeOK
  <2>4. stack'[1].next <= Len(disk[stack'[1].file].imports)
    BY <1>4, <1>6
  <2> QED BY <1>1, <1>4, <2>1, <2>2, <2>3, <2>4 DEF TypeOK
<1>9. WaitInv'
  BY <1>1, <1>4, <1>6 DEF WaitInv, Waits
<1>10. NoReentry'
  <2>1. ASSUME NEW i \in DOMAIN stack', NEW j \in DOMAIN stack',
               stack'[i].file = stack'[j].file
        PROVE  i = j
    <3>1. i + 1 = j + 1
      BY <2>1, <1>5 DEF NoReentry
    <3> QED BY <3>1, <1>4
  <2> QED BY <2>1 DEF NoReentry
<1>11. InProgress' = InProgress \ {Top.file}
  <2>1. ASSUME NEW k \in DOMAIN stack' PROVE stack'[k].file \in InProgress \ {Top.file}
    <3>1. k + 1 \in DOMAIN stack /\ 1 \in DOMAIN stack /\ k + 1 # 1
      BY <1>4, <1>5
    <3>2. stack[k + 1].file # stack[1].file
      BY <3>1 DEF NoReentry
    <3> QED BY <1>5, <1>7, <3>1, <3>2 DEF InProgress
  <2>2. ASSUME NEW k \in DOMAIN stack, stack[k].file # Top.file
        PROVE  stack[k].file \in InProgress'
    <3>1. k # 1
      BY <1>7, <2>2
    <3>2. k - 1 \in DOMAIN stack' /\ stack'[k - 1] = stack[k]
      BY <1>3, <1>4, <3>1
    <3> QED BY <3>2 DEF InProgress
  <2>3. \A x \in InProgress' : x \in InProgress \ {Top.file}
    BY <2>1 DEF InProgress
  <2>4. \A x \in InProgress \ {Top.file} : x \in InProgress'
    BY <2>2 DEF InProgress
  <2> QED BY <2>3, <2>4
<1>12. MarkInv'
  <2>1. stack'[Len(stack')] = stack[Len(stack)]
    BY <1>3, <1>4
  <2> QED BY <1>1, <1>11, <2>1 DEF MarkInv
<1>13. StackShape'
  BY <1>3 DEF StackShape
<1> QED BY <1>8, <1>9, <1>10, <1>12, <1>13

LEMMA FinishRootInv == ResolverInv /\ FinishRoot => ResolverInv'
<1> SUFFICES ASSUME ResolverInv, FinishRoot PROVE ResolverInv'
  OBVIOUS
<1> USE DEF ResolverInv
<1>1. /\ stack # <<>> /\ Len(stack) = 1 /\ stack' = <<>> /\ loaded = <<>>
      /\ resolving' = IF Top.newly THEN resolving \ {Top.file} ELSE resolving
      /\ outcome'.kind \in OutcomeKinds
      /\ UNCHANGED <<disk, cache, loaded, calls, failures>>
  BY DEF FinishRoot, AtEnd, OutcomeKinds
<1>2. DOMAIN stack' = {} /\ stack' \in Seq({}) /\ InProgress' = {}
  BY <1>1 DEF InProgress
<1>3. PICK S : stack \in Seq(S)
  BY DEF StackShape
<1>4. DOMAIN stack = {1} /\ Top = stack[1]
  BY <1>1, <1>3 DEF Top
<1>5. InProgress = {Top.file}
  BY <1>4 DEF InProgress
<1>6. MarkInv'
  <2>1. failures = 0 => resolving' = {}
    BY <1>1, <1>4, <1>5 DEF MarkInv
  <2> QED BY <1>1, <1>2, <2>1 DEF MarkInv
<1>7. TypeOK'
  <2>1. resolving' \subseteq Files
    BY <1>1 DEF TypeOK
  <2> QED BY <1>1, <1>2, <2>1 DEF TypeOK
<1>8. StackShape' /\ WaitInv' /\ NoReentry'
  BY <1>1, <1>2 DEF StackShape, WaitInv, NoReentry
<1> QED BY <1>6, <1>7, <1>8

LEMMA LoadErrorInv ==
  ResolverInv /\ (LoadMissing \/ LoadCircular \/ LoadUnparsable \/ MergeMissesItem)
    => ResolverInv'
<1> SUFFICES ASSUME ResolverInv,
                    LoadMissing \/ LoadCircular \/ LoadUnparsable \/ MergeMissesItem
             PROVE  ResolverInv'
  OBVIOUS
<1>1. resolving \subseteq Files
  BY DEF ResolverInv, TypeOK
<1>2. CASE LoadMissing
  BY <1>1, <1>2, FailsInv DEF LoadMissing, OutcomeKinds
<1>3. CASE LoadCircular
  BY <1>1, <1>3, FailsInv DEF LoadCircular, OutcomeKinds
<1>4. CASE LoadUnparsable
  BY <1>1, <1>4, FailsInv DEF LoadUnparsable, Fresh, OutcomeKinds
<1>5. CASE MergeMissesItem
  BY <1>1, <1>5, FailsInv DEF MergeMissesItem, OutcomeKinds
<1> QED BY <1>2, <1>3, <1>4, <1>5

LEMMA StutterInv == ResolverInv /\ UNCHANGED vars => ResolverInv'
<1> SUFFICES ASSUME ResolverInv, UNCHANGED vars PROVE ResolverInv'
  OBVIOUS
<1> USE DEF ResolverInv, vars
<1>1. TypeOK'
  BY DEF TypeOK
<1>2. StackShape' /\ WaitInv' /\ NoReentry' /\ MarkInv'
  BY DEF StackShape, WaitInv, Waits, NoReentry, MarkInv, InProgress
<1> QED BY <1>1, <1>2

LEMMA NextInv == ResolverInv /\ [Next]_vars => ResolverInv'
BY StartInv, LoadErrorInv, LoadCachedInv, LoadFileInv, MergeInv, FinishImportedInv,
   FinishRootInv, StutterInv DEF Next, Step

-----------------------------------------------------------------------------
(***************************************************************************)
(* Rings.  The files in the cache import only files in the cache, without  *)
(* a ring; a frame has all its imports up to the next one in the cache;    *)
(* and the frames are a path of the include graph.                         *)
(***************************************************************************)
Closed(set) == \A f \in set : ImportedBy(f) \subseteq set
Acyclic(set) == \A S \in SUBSET set : S # {} => \E f \in S : ImportedBy(f) \intersect S = {}

FirstImports(k) ==
  {disk[stack[k].file].imports[i].file : i \in 1 .. stack[k].next - 1}

ImportAt(k) == disk[stack[k].file].imports[stack[k].next].file

RingInv ==
  /\ Closed(DOMAIN cache) /\ Acyclic(DOMAIN cache)
  /\ \A k \in DOMAIN stack : FirstImports(k) \subseteq DOMAIN cache
  /\ loaded # <<>> => ImportAt(1) \in DOMAIN cache
  /\ \A k \in DOMAIN stack : k > 1 => ImportAt(k) = stack[k - 1].file
  /\ \A k \in DOMAIN stack : stack[k].file \in Reachable(stack[Len(stack)].file)
  /\ CircularMeansRing

\* A file outside a closed set that imports only files of it adds no ring.
LEMMA AddToClosedAcyclic ==
  ASSUME NEW set, NEW f, Closed(set), Acyclic(set), ImportedBy(f) \subseteq set
  PROVE  Closed(set \union {f}) /\ Acyclic(set \union {f})
<1>1. Closed(set \union {f})
  BY DEF Closed
<1>2. CASE f \in set
  <2>1. set \union {f} = set
    BY <1>2
  <2>2. QED
    BY <2>1
<1>3. CASE f \notin set
  <2>1. ASSUME NEW S \in SUBSET (set \union {f}), S # {}
        PROVE  \E g \in S : ImportedBy(g) \intersect S = {}
    <3>1. CASE S \intersect set = {}
      <4>1. S = {f}
        BY <2>1, <3>1
      <4>2. QED
        BY <1>3, <4>1
    <3>2. CASE S \intersect set # {}
      <4>1. PICK g \in S \intersect set : ImportedBy(g) \intersect (S \intersect set) = {}
        <5>1. S \intersect set \in SUBSET set
          OBVIOUS
        <5>2. QED
          BY <3>2, <5>1 DEF Acyclic
      <4>2. ImportedBy(g) \intersect S = {}
        BY <4>1 DEF Closed
      <4>3. QED
        BY <4>1, <4>2
    <3>3. QED
      BY <3>1, <3>2
  <2>2. Acyclic(set \union {f})
    BY ONLY <2>1 DEF Acyclic
  <2>3. QED
    BY <1>1, <2>2
<1>4. QED
  BY <1>1, <1>2, <1>3

\* What a file imports can be reached where the file can.
LEMMA ImportsAreReachable ==
  ASSUME NEW root \in Files, NEW f \in Reachable(root), NEW g \in ImportedBy(f), g \in Files
  PROVE  g \in Reachable(root)
<1>1. ASSUME NEW S \in SUBSET Files, root \in S,
             \A h \in S : ImportedBy(h) \intersect Files \subseteq S
      PROVE  g \in S
  <2>1. f \in S
    BY <1>1 DEF Reachable
  <2>2. QED
    BY <1>1, <2>1
<1>2. QED
  BY <1>1 DEF Reachable

LEMMA RootIsReachable ==
  ASSUME NEW root \in Files
  PROVE  root \in Reachable(root)
BY DEF Reachable

\* Without a ring around its imports, a file reaches none.
LEMMA ClosedAcyclicRoot ==
  ASSUME NEW root \in Files, NEW set \in SUBSET Files,
         Closed(set), Acyclic(set), ImportedBy(root) \subseteq set
  PROVE  ~Cyclic(root)
<1> DEFINE all == set \union {root}
<1>1. Closed(all) /\ Acyclic(all)
  BY AddToClosedAcyclic
<1>2. Reachable(root) \subseteq all
  <2>1. all \in SUBSET Files /\ root \in all
    OBVIOUS
  <2>2. \A g \in all : ImportedBy(g) \intersect Files \subseteq all
    BY <1>1 DEF Closed
  <2>3. QED
    BY <2>1, <2>2 DEF Reachable
<1> HIDE DEF all
<1>3. QED
  BY <1>1, <1>2 DEF Cyclic, Acyclic

\* The files do not change.
LEMMA SameFiles ==
  ASSUME disk' = disk
  PROVE  /\ \A f : ImportedBy(f)' = ImportedBy(f)
         /\ \A f : Reachable(f)' = Reachable(f)
         /\ \A f : Cyclic(f)' <=> Cyclic(f)
<1>1. \A f : ImportedBy(f)' = ImportedBy(f)
  BY DEF ImportedBy
<1>2. \A f : Reachable(f)' = Reachable(f)
  BY <1>1 DEF Reachable
<1>3. \A f : Cyclic(f)' <=> Cyclic(f)
  BY <1>1, <1>2 DEF Cyclic
<1>4. QED
  BY <1>1, <1>2, <1>3

-----------------------------------------------------------------------------
LEMMA InitRing == Init => RingInv
<1> SUFFICES ASSUME Init PROVE RingInv
  OBVIOUS
<1>1. DOMAIN cache = {} /\ DOMAIN stack = {} /\ loaded = <<>> /\ outcome.kind = "none"
  BY DEF Init, NoOutcome
<1>2. QED
  BY <1>1 DEF RingInv, Closed, Acyclic, CircularMeansRing

\* A result that stays says what it said.
LEMMA SameOutcome ==
  ASSUME CircularMeansRing, UNCHANGED <<disk, outcome, failures>>
  PROVE  CircularMeansRing'
BY SameFiles DEF CircularMeansRing

LEMMA SameCache ==
  ASSUME RingInv, disk' = disk, DOMAIN cache' = DOMAIN cache
  PROVE  Closed(DOMAIN cache)' /\ Acyclic(DOMAIN cache)'
BY SameFiles DEF RingInv, Closed, Acyclic

LEMMA StartRing ==
  ASSUME ResolverInv, RingInv, NEW root \in Files, Start(root)
  PROVE  RingInv'
<1> DEFINE fr == Frame(root, root \notin resolving, 1, Parsed(root))
<1>1. /\ stack' = <<fr>> /\ DOMAIN stack' = {1} /\ stack'[1] = fr /\ Len(stack') = 1
      /\ disk' = disk /\ cache' = cache /\ failures' = failures /\ loaded' = <<>>
      /\ outcome'.kind = "none"
  BY DEF Start, NoOutcome, ResolverInv, WaitInv
<1>2. fr.file = root /\ fr.next = 1
  BY DEF Frame
<1> HIDE DEF fr
<1>3. FirstImports(1)' = {}
  BY <1>1, <1>2 DEF FirstImports
<1>4. Closed(DOMAIN cache)' /\ Acyclic(DOMAIN cache)'
  BY <1>1, SameCache
<1>5. stack'[1].file \in Reachable(stack[Len(stack)].file)'
  BY <1>1, <1>2, SameFiles, RootIsReachable
<1>6. CircularMeansRing'
  BY <1>1 DEF CircularMeansRing
<1>7. QED
  BY <1>1, <1>3, <1>4, <1>5, <1>6 DEF RingInv

\* An error leaves no frame and keeps the cache.
LEMMA FailsRing ==
  ASSUME RingInv, NEW kind, Fails(kind), kind # "ok",
         (kind = "circular" /\ failures' = 1) => Cyclic(Last(stack).file)
  PROVE  RingInv'
<1>1. /\ stack' = <<>> /\ loaded' = <<>> /\ DOMAIN stack' = {}
      /\ outcome'.kind = kind /\ outcome'.root = Last(stack).file
      /\ disk' = disk /\ cache' = cache
  <2>1. stack' = <<>> /\ loaded' = <<>> /\ disk' = disk /\ cache' = cache
    BY DEF Fails
  <2>2. outcome'.kind = kind /\ outcome'.root = Last(stack).file
    BY DEF Fails
  <2>3. QED
    BY <2>1, <2>2
<1>2. Closed(DOMAIN cache)' /\ Acyclic(DOMAIN cache)'
  BY <1>1, SameCache
<1>3. CircularMeansRing'
  BY <1>1, SameFiles DEF CircularMeansRing
<1>4. QED
  BY <1>1, <1>2, <1>3 DEF RingInv

\* Before anything failed the file at which a ring is reported is in progress, and
\* the frames from there to the innermost are a ring.
LEMMA LoadCircularRing ==
  ASSUME ResolverInv, RingInv, LoadCircular
  PROVE  RingInv'
<1>1. /\ stack # <<>> /\ loaded = <<>> /\ Top.next <= Len(Imports)
      /\ Current.file \in resolving /\ Fails("circular")
  BY DEF LoadCircular, AtImport
<1>2. PICK T : stack \in Seq(T)
  BY DEF ResolverInv, StackShape
<1>3. /\ Len(stack) \in Nat \ {0} /\ DOMAIN stack = 1 .. Len(stack) /\ Top = stack[1]
      /\ Last(stack) = stack[Len(stack)]
  BY <1>1, <1>2 DEF Top, Last
<1>4. ASSUME failures' = 1
      PROVE  Cyclic(Last(stack).file)
  <2>1. failures = 0
    BY <1>1, <1>4 DEF Fails, ResolverInv, TypeOK
  <2>2. PICK k \in DOMAIN stack : stack[k].file = Current.file
    BY <1>1, <2>1 DEF ResolverInv, MarkInv, InProgress
  <2> DEFINE S == {stack[j].file : j \in 1 .. k}
  <2>3. S \subseteq Reachable(Last(stack).file) /\ S # {}
    BY <1>3, <2>2 DEF RingInv
  <2>4. ASSUME NEW j \in 1 .. k
        PROVE  ImportedBy(stack[j].file) \intersect S # {}
    <3>1. j \in DOMAIN stack /\ stack[j].file \in Files
      BY <1>3, <2>2 DEF ResolverInv, TypeOK
    <3>2. /\ stack[j].next \in 1 .. Len(disk[stack[j].file].imports)
          /\ DOMAIN disk[stack[j].file].imports = 1 .. Len(disk[stack[j].file].imports)
      <4>1. /\ stack[j].next \in 1 .. Len(disk[stack[j].file].imports) + 1
            /\ Len(disk[stack[j].file].imports) \in Nat
            /\ DOMAIN disk[stack[j].file].imports = 1 .. Len(disk[stack[j].file].imports)
        BY <3>1, DiskAssumption DEF ResolverInv, TypeOK
      <4>2. stack[j].next <= Len(disk[stack[j].file].imports)
        BY <1>1, <1>3, <3>1 DEF ResolverInv, WaitInv, Waits, Imports
      <4>3. QED
        BY <4>1, <4>2
    <3>3. ImportAt(j) \in ImportedBy(stack[j].file)
      BY <3>2 DEF ImportAt, ImportedBy
    <3>4. ImportAt(j) \in S
      <4>1. CASE j = 1
        <5>1. ImportAt(j) = stack[k].file
          BY <1>3, <2>2, <4>1 DEF ImportAt, Current, Imports
        <5>2. QED
          BY <1>3, <2>2, <5>1
      <4>2. CASE j # 1
        <5>1. ImportAt(j) = stack[j - 1].file /\ j - 1 \in 1 .. k
          BY <1>3, <2>2, <3>1, <4>2 DEF RingInv
        <5>2. QED
          BY <5>1
      <4>3. QED
        BY <4>1, <4>2
    <3>5. QED
      BY <3>3, <3>4
  <2>5. \A f \in S : ImportedBy(f) \intersect S # {}
    BY <2>4
  <2> HIDE DEF S
  <2>6. QED
    BY <2>3, <2>5 DEF Cyclic
<1>5. QED
  BY <1>1, <1>4, FailsRing

LEMMA LoadErrorRing ==
  ASSUME ResolverInv, RingInv, LoadMissing \/ LoadUnparsable \/ MergeMissesItem
  PROVE  RingInv'
BY FailsRing DEF LoadMissing, LoadUnparsable, MergeMissesItem

LEMMA LoadCachedRing ==
  ASSUME ResolverInv, RingInv, LoadCached
  PROVE  RingInv'
<1>1. /\ stack # <<>> /\ UNCHANGED <<disk, outcome, failures, cache, stack>>
      /\ Current.file \in DOMAIN cache
  BY DEF LoadCached, AtImport, Returns
<1>2. PICK T : stack \in Seq(T)
  BY DEF ResolverInv, StackShape
<1>3. ImportAt(1) \in DOMAIN cache
  BY <1>1, <1>2 DEF ImportAt, Current, Imports, Top
<1>4. Closed(DOMAIN cache)' /\ Acyclic(DOMAIN cache)'
  BY <1>1, SameCache
<1>5. CircularMeansRing'
  BY <1>1, SameOutcome DEF RingInv
<1>6. ASSUME NEW k \in DOMAIN stack
      PROVE  /\ FirstImports(k)' = FirstImports(k) /\ ImportAt(k)' = ImportAt(k)
  BY <1>1 DEF FirstImports, ImportAt
<1>7. ImportAt(1)' = ImportAt(1)
  BY <1>1 DEF ImportAt
<1>8. QED
  BY <1>1, <1>3, <1>4, <1>5, <1>6, <1>7, SameFiles DEF RingInv

LEMMA LoadFileRing ==
  ASSUME ResolverInv, RingInv, LoadFile
  PROVE  RingInv'
<1> DEFINE file == Current.file
           fr == Frame(file, FALSE, 1, Parsed(file))
<1>1. /\ stack # <<>> /\ loaded = <<>> /\ Top.next <= Len(Imports) /\ file \in Files
      /\ stack' = <<fr>> \o stack
      /\ UNCHANGED <<disk, cache, loaded, outcome, failures>>
  BY DEF LoadFile, AtImport, Fresh
<1>2. fr.file = file /\ fr.next = 1
  BY DEF Frame
<1> HIDE DEF fr
<1>3. PICK T : stack \in Seq(T)
  BY DEF ResolverInv, StackShape
<1>4. /\ stack' \in Seq(T \union {fr}) /\ Len(stack') = Len(stack) + 1
      /\ stack'[1] = fr /\ \A k \in 2 .. Len(stack) + 1 : stack'[k] = stack[k - 1]
  BY <1>1, <1>3, PushFrame
<1>5. /\ Len(stack) \in Nat \ {0} /\ DOMAIN stack = 1 .. Len(stack)
      /\ DOMAIN stack' = 1 .. Len(stack) + 1 /\ Top = stack[1]
      /\ stack'[Len(stack')] = stack[Len(stack)]
  BY <1>1, <1>3, <1>4 DEF Top
<1>6. file = ImportAt(1)
  BY <1>5 DEF ImportAt, Current, Imports
<1>7. Closed(DOMAIN cache)' /\ Acyclic(DOMAIN cache)' /\ CircularMeansRing'
  BY <1>1, SameCache, SameOutcome DEF RingInv
<1>8. ASSUME NEW k \in DOMAIN stack'
      PROVE  /\ (FirstImports(k))' \subseteq DOMAIN cache'
             /\ k > 1 => (ImportAt(k))' = stack'[k - 1].file
             /\ stack'[k].file \in Reachable(stack[Len(stack)].file)'
  <2>1. CASE k = 1
    <3>1. (FirstImports(k))' = {}
      BY <1>2, <1>4, <2>1 DEF FirstImports
    <3>2. stack[1].file \in Reachable(stack[Len(stack)].file)
      BY <1>5 DEF RingInv
    <3>3. file \in ImportedBy(stack[1].file)
      <4>1. stack[1].file \in Files /\ stack[1].next \in 1 .. Len(disk[stack[1].file].imports) + 1
        BY <1>5 DEF ResolverInv, TypeOK
      <4>2. stack[1].next \in DOMAIN disk[stack[1].file].imports
        BY <1>1, <1>5, <4>1, DiskAssumption DEF Imports, ResolverInv, TypeOK
      <4>3. QED
        BY <1>6, <4>2 DEF ImportAt, ImportedBy
    <3>4. file \in Reachable(stack[Len(stack)].file) /\ stack[Len(stack)].file \in Files
      BY <1>1, <1>5, <3>2, <3>3, ImportsAreReachable DEF ResolverInv, TypeOK
    <3>5. QED
      BY <1>1, <1>2, <1>4, <1>5, <2>1, <3>1, <3>4, SameFiles
  <2>2. CASE k # 1
    <3>1. k - 1 \in DOMAIN stack /\ stack'[k] = stack[k - 1] /\ k > 1
      BY <1>4, <1>5, <2>2
    <3>2. (FirstImports(k))' = FirstImports(k - 1) /\ (ImportAt(k))' = ImportAt(k - 1)
      BY <1>1, <3>1 DEF FirstImports, ImportAt
    <3>3. ImportAt(k - 1) = stack'[k - 1].file
      <4>1. CASE k = 2
        BY <1>2, <1>4, <1>6, <4>1
      <4>2. CASE k # 2
        <5>1. k - 1 > 1 /\ k - 1 \in 2 .. Len(stack) + 1 /\ stack'[k - 1] = stack[(k - 1) - 1]
          BY <1>4, <1>5, <3>1, <4>2
        <5>2. QED
          BY <3>1, <5>1 DEF RingInv
      <4>3. QED
        BY <4>1, <4>2
    <3>4. stack[k - 1].file \in Reachable(stack[Len(stack)].file)
      BY <3>1 DEF RingInv
    <3>5. QED
      BY <1>1, <1>5, <3>1, <3>2, <3>3, <3>4, SameFiles DEF RingInv
  <2>3. QED
    BY <2>1, <2>2
<1>9. QED
  BY <1>1, <1>7, <1>8 DEF RingInv

LEMMA OneMore ==
  ASSUME NEW n \in Nat \ {0}, NEW m, m = n + 1
  PROVE  1 .. m - 1 = 1 .. (n - 1) \union {n}
<1>1. \A i \in 1 .. m - 1 : i \in 1 .. (n - 1) \/ i = n
  OBVIOUS
<1>2. n \in 1 .. m - 1 /\ \A i \in 1 .. n - 1 : i \in 1 .. m - 1
  OBVIOUS
<1>3. QED
  BY <1>1, <1>2

LEMMA MergeRing ==
  ASSUME ResolverInv, RingInv, Merge
  PROVE  RingInv'
<1> DEFINE fr == Frame(Top.file, Top.newly, Top.next + 1,
                       MergeImport(Top.spec, loaded[1], Current))
<1>1. /\ loaded # <<>> /\ stack # <<>> /\ stack' = <<fr>> \o Tail(stack) /\ loaded' = <<>>
      /\ UNCHANGED <<disk, cache, outcome, failures>>
  BY DEF Merge, ResolverInv, WaitInv
<1>2. fr.file = Top.file /\ fr.next = Top.next + 1
  BY DEF Frame
<1> HIDE DEF fr
<1>3. PICK T : stack \in Seq(T)
  BY DEF ResolverInv, StackShape
<1>4. /\ stack' \in Seq(T \union {fr}) /\ Len(stack') = Len(stack)
      /\ stack'[1] = fr /\ \A k \in 2 .. Len(stack) : stack'[k] = stack[k]
  BY <1>1, <1>3, ReplaceFrame
<1>5. /\ Len(stack) \in Nat \ {0} /\ DOMAIN stack = 1 .. Len(stack)
      /\ DOMAIN stack' = 1 .. Len(stack) /\ Top = stack[1]
  BY <1>1, <1>3, <1>4 DEF Top
<1>6. ASSUME NEW k \in DOMAIN stack
      PROVE  stack'[k].file = stack[k].file /\ (k # 1 => stack'[k] = stack[k])
  <2>1. CASE k = 1
    BY <1>2, <1>4, <1>5, <2>1
  <2>2. CASE k # 1
    BY <1>4, <1>5, <2>2
  <2>3. QED
    BY <2>1, <2>2
<1>7. Closed(DOMAIN cache)' /\ Acyclic(DOMAIN cache)' /\ CircularMeansRing'
  BY <1>1, SameCache, SameOutcome DEF RingInv
<1>8. ASSUME NEW k \in DOMAIN stack
      PROVE  (FirstImports(k))' \subseteq DOMAIN cache'
  <2>1. CASE k = 1
    <3>1. stack[1].next \in Nat \ {0} /\ stack'[1].next = stack[1].next + 1
      BY <1>2, <1>4, <1>5 DEF ResolverInv, TypeOK
    <3>2. (FirstImports(k))' = FirstImports(1) \union {ImportAt(1)}
      <4>1. 1 .. stack'[1].next - 1 = 1 .. (stack[1].next - 1) \union {stack[1].next}
        BY <3>1, OneMore
      <4>2. stack'[1].file = stack[1].file
        BY <1>5, <1>6
      <4> DEFINE target(i) == disk[stack[1].file].imports[i].file
      <4>3. (FirstImports(k))' = {target(i) : i \in 1 .. stack'[1].next - 1}
        BY <1>1, <2>1, <4>2 DEF FirstImports
      <4>4. FirstImports(1) = {target(i) : i \in 1 .. stack[1].next - 1}
        BY DEF FirstImports
      <4>5. ImportAt(1) = target(stack[1].next)
        BY DEF ImportAt
      <4> HIDE DEF target
      <4>6. QED
        BY <4>1, <4>3, <4>4, <4>5
    <3>3. FirstImports(1) \subseteq DOMAIN cache /\ ImportAt(1) \in DOMAIN cache
      BY <1>1, <2>1 DEF RingInv
    <3>4. QED
      BY <1>1, <2>1, <3>2, <3>3
  <2>2. CASE k # 1
    <3>1. (FirstImports(k))' = FirstImports(k)
      <4>1. stack'[k] = stack[k] /\ disk' = disk
        BY <1>1, <1>6, <2>2
      <4>2. QED
        BY <4>1 DEF FirstImports
    <3>2. QED
      BY <1>1, <3>1 DEF RingInv
  <2>3. QED
    BY <2>1, <2>2
<1>9. ASSUME NEW k \in DOMAIN stack, k > 1
      PROVE  (ImportAt(k))' = stack'[k - 1].file
  <2>1. k # 1 /\ k - 1 \in DOMAIN stack
    BY <1>5, <1>9
  <2>2. (ImportAt(k))' = ImportAt(k)
    BY <1>1, <1>6, <2>1 DEF ImportAt
  <2>3. stack'[k - 1].file = stack[k - 1].file
    BY <1>6, <2>1
  <2>4. QED
    BY <1>9, <2>2, <2>3 DEF RingInv
<1>10. ASSUME NEW k \in DOMAIN stack
       PROVE  stack'[k].file \in Reachable(stack[Len(stack)].file)'
  <2>1. stack'[Len(stack')].file = stack[Len(stack)].file
    BY <1>4, <1>5, <1>6
  <2>2. QED
    BY <1>1, <1>6, <2>1, SameFiles DEF RingInv
<1>11. QED
  BY <1>1, <1>5, <1>7, <1>8, <1>9, <1>10 DEF RingInv

\* At its end a call has all that its file imports in the cache.
LEMMA AtEndFacts ==
  ASSUME ResolverInv, RingInv, AtEnd
  PROVE  /\ Top.file \in Files /\ Top = stack[1] /\ 1 \in DOMAIN stack
         /\ ImportedBy(Top.file) \subseteq DOMAIN cache
<1>1. stack # <<>> /\ Top.next > Len(Imports)
  BY DEF AtEnd
<1>2. PICK T : stack \in Seq(T)
  BY DEF ResolverInv, StackShape
<1>3. Top = stack[1] /\ 1 \in DOMAIN stack
  BY <1>1, <1>2 DEF Top
<1>4. Top.file \in Files /\ Top.next \in 1 .. Len(Imports) + 1
  BY <1>3 DEF ResolverInv, TypeOK, Imports
<1>5. DOMAIN disk[Top.file].imports = 1 .. Top.next - 1
  BY <1>1, <1>4, DiskAssumption DEF ResolverInv, TypeOK, Imports
<1>6. ImportedBy(Top.file) = FirstImports(1)
  BY <1>3, <1>5 DEF ImportedBy, FirstImports
<1>7. QED
  BY <1>3, <1>4, <1>6 DEF RingInv

LEMMA FinishImportedRing ==
  ASSUME ResolverInv, RingInv, FinishImported
  PROVE  RingInv'
<1>1. /\ stack # <<>> /\ Len(stack) > 1 /\ stack' = Tail(stack) /\ AtEnd
      /\ cache' = Cached(Top.file, Resolved(Top.spec))
      /\ UNCHANGED <<disk, outcome, failures>>
  BY DEF FinishImported, AtEnd, Returns
<1>2. PICK T : stack \in Seq(T)
  BY DEF ResolverInv, StackShape
<1>3. /\ stack' \in Seq(T) /\ Len(stack') = Len(stack) - 1 /\ Top = stack[1]
      /\ \A k \in 1 .. Len(stack) - 1 : stack'[k] = stack[k + 1]
  BY <1>1, <1>2, PopFrame DEF Top
<1>4. /\ Len(stack) \in Nat \ {0, 1} /\ DOMAIN stack = 1 .. Len(stack)
      /\ DOMAIN stack' = 1 .. Len(stack) - 1
      /\ stack'[Len(stack')] = stack[Len(stack)]
  <2>1. Len(stack) \in Nat /\ DOMAIN stack = 1 .. Len(stack) /\ Len(stack) > 1
    BY <1>1, <1>2
  <2>2. DOMAIN stack' = 1 .. Len(stack) - 1
    BY <2>1, <1>3
  <2>3. stack'[Len(stack')] = stack[Len(stack)]
    BY <2>1, <1>3
  <2>4. QED
    BY <2>1, <2>2, <2>3
<1>5. DOMAIN cache' = DOMAIN cache \union {Top.file}
  BY <1>1 DEF Cached
<1>6. Closed(DOMAIN cache)' /\ Acyclic(DOMAIN cache)'
  <2>1. Closed(DOMAIN cache \union {Top.file}) /\ Acyclic(DOMAIN cache \union {Top.file})
    BY <1>1, AtEndFacts, AddToClosedAcyclic DEF RingInv
  <2>2. QED
    BY <1>1, <1>5, <2>1, SameFiles DEF Closed, Acyclic
<1>7. ASSUME NEW k \in DOMAIN stack'
      PROVE  /\ (FirstImports(k))' \subseteq DOMAIN cache'
             /\ k > 1 => (ImportAt(k))' = stack'[k - 1].file
             /\ stack'[k].file \in Reachable(stack[Len(stack)].file)'
  <2>1. k + 1 \in DOMAIN stack /\ stack'[k] = stack[k + 1] /\ k \in Nat
    BY <1>3, <1>4
  <2>2. (FirstImports(k))' = FirstImports(k + 1) /\ (ImportAt(k))' = ImportAt(k + 1)
    BY <1>1, <2>1 DEF FirstImports, ImportAt
  <2>3. k > 1 => ImportAt(k + 1) = stack'[k - 1].file
    <3>1. ASSUME k > 1
          PROVE  ImportAt(k + 1) = stack'[k - 1].file
      <4>1. stack'[k - 1] = stack[k] /\ k + 1 > 1 /\ (k + 1) - 1 = k
        BY <1>3, <1>4, <2>1, <3>1
      <4>2. QED
        BY <2>1, <4>1 DEF RingInv
    <3>2. QED
      BY <3>1
  <2>4. QED
    BY <1>1, <1>4, <1>5, <2>1, <2>2, <2>3, SameFiles DEF RingInv
<1>8. (ImportAt(1))' \in DOMAIN cache'
  <2>1. stack'[1] = stack[2] /\ 2 \in DOMAIN stack
    BY <1>3, <1>4
  <2>2. (ImportAt(1))' = ImportAt(2)
    BY <1>1, <2>1 DEF ImportAt
  <2>3. ImportAt(2) = Top.file
    BY <1>3, <2>1 DEF RingInv
  <2>4. QED
    BY <1>5, <2>2, <2>3
<1>9. CircularMeansRing'
  BY <1>1, SameOutcome DEF RingInv
<1>10. QED
  BY <1>6, <1>7, <1>8, <1>9 DEF RingInv

LEMMA FinishRootRing ==
  ASSUME ResolverInv, RingInv, FinishRoot
  PROVE  RingInv'
<1>1. /\ AtEnd /\ stack' = <<>> /\ DOMAIN stack' = {} /\ loaded' = <<>>
      /\ outcome'.kind = "ok" /\ outcome'.root = Top.file
      /\ UNCHANGED <<disk, cache>>
  <2>1. AtEnd /\ stack' = <<>> /\ loaded' = <<>> /\ UNCHANGED <<disk, cache>>
    BY DEF FinishRoot, AtEnd
  <2>2. outcome'.kind = "ok" /\ outcome'.root = Top.file
    BY DEF FinishRoot
  <2>3. QED
    BY <2>1, <2>2
<1>2. ~Cyclic(Top.file)
  BY <1>1, AtEndFacts, ClosedAcyclicRoot DEF RingInv, ResolverInv, TypeOK
<1>3. CircularMeansRing'
  BY <1>1, <1>2, SameFiles DEF CircularMeansRing
<1>4. Closed(DOMAIN cache)' /\ Acyclic(DOMAIN cache)'
  BY <1>1, SameCache
<1>5. QED
  BY <1>1, <1>3, <1>4 DEF RingInv

LEMMA StutterRing ==
  ASSUME ResolverInv, RingInv, UNCHANGED vars
  PROVE  RingInv'
<1>1. UNCHANGED <<disk, cache, stack, loaded, outcome, failures>>
  BY DEF vars
<1>2. Closed(DOMAIN cache)' /\ Acyclic(DOMAIN cache)' /\ CircularMeansRing'
  BY <1>1, SameCache, SameOutcome DEF RingInv
<1>3. \A k : (FirstImports(k))' = FirstImports(k) /\ (ImportAt(k))' = ImportAt(k)
  BY <1>1 DEF FirstImports, ImportAt
<1>4. QED
  BY <1>1, <1>2, <1>3, SameFiles DEF RingInv

LEMMA NextRing ==
  ASSUME ResolverInv, RingInv, [Next]_vars
  PROVE  RingInv'
BY StartRing, LoadCircularRing, LoadErrorRing, LoadCachedRing, LoadFileRing, MergeRing,
   FinishImportedRing, FinishRootRing, StutterRing DEF Next, Step

-----------------------------------------------------------------------------
\* ResolverInv holds in every reachable state.
THEOREM ResolverInvariant == Spec => []ResolverInv
<1>1. Init => ResolverInv
  BY InitInv
<1>2. ResolverInv /\ [Next]_vars => ResolverInv'
  BY NextInv
<1> QED BY <1>1, <1>2, PTL DEF Spec

\* The variables keep their shape: every call in progress is at one of its imports
\* or just past the last, and a loaded file has an import that waits for it.
THEOREM ResolverTypeCorrect == Spec => []TypeOK
<1>1. ResolverInv => TypeOK
  BY DEF ResolverInv
<1> QED BY <1>1, ResolverInvariant, PTL

\* The recursion of resolve_imports enters no file twice at a time, however the
\* files include each other and whatever failed before.
THEOREM RecursionEntersOnce == Spec => []NoReentry
<1>1. ResolverInv => NoReentry
  BY DEF ResolverInv
<1> QED BY <1>1, ResolverInvariant, PTL

\* Until a call fails, "resolving" holds exactly the files in progress.
THEOREM MarksMatchProgress == Spec => []MarksAreInProgress
<1>1. ResolverInv => MarksAreInProgress
  BY DEF ResolverInv, MarkInv, MarksAreInProgress
<1> QED BY <1>1, ResolverInvariant, PTL

\* What the cache holds is closed under imports and has no ring, and the calls in
\* progress are a path of includes from the root.
THEOREM RingInvariant == Spec => [](ResolverInv /\ RingInv)
<1>1. Init => ResolverInv /\ RingInv
  BY InitInv, InitRing
<1>2. (ResolverInv /\ RingInv) /\ [Next]_vars => (ResolverInv /\ RingInv)'
  BY NextInv, NextRing
<1> QED BY <1>1, <1>2, PTL DEF Spec

\* resolve_imports reports a circular dependency only where the files import each
\* other in a ring, and returns a result only where they do not, for any include
\* graph and any series of calls before it; the first half until something fails.
THEOREM CircularErrorsAreRings == Spec => []CircularMeansRing
<1>1. ResolverInv /\ RingInv => CircularMeansRing
  BY DEF RingInv
<1> QED BY <1>1, RingInvariant, PTL
=============================================================================
