--------------------------- MODULE TransportsProofs ---------------------------
(***************************************************************************)
(* Proofs about the parts of the transport libraries below and beside the  *)
(* CSIL-RPC exchange: the calls of the TypeScript client, and sequence     *)
(* numbers and epochs of the datagram transport.  The theorems are about   *)
(* the safety parts of the specifications: CallsSpec and SeqSpec assume no *)
(* fairness.                                                               *)
(***************************************************************************)
EXTENDS MCTransports, StreamFramingProofs, FiniteSetTheorems

CallsSpec == CallsInit /\ [][CallsNext]_callVars

\* A call is at one await or has returned.
CallsApart ==
  /\ Range(sending) \intersect Range(waiters) = {}
  /\ (Range(sending) \union Range(waiters)) \intersect Returned = {}

Made == 1 .. nextId - 1

Taken == {results[c] : c \in Returned} \ {Closed}

\* A frame is in one place, and has been taken by one call.
FramesApart ==
  /\ Taken \subseteq Made
  /\ handling \intersect Range(upstream) = {}
  /\ Range(downstream) \intersect (handling \union Range(upstream)) = {}
  /\ Range(inbox) \intersect (Range(downstream) \union handling \union Range(upstream)) = {}
  /\ Taken \intersect (Range(inbox) \union Range(downstream) \union handling \union Range(upstream)) = {}

Consecutive(queue, n) == \A i \in 1 .. Len(queue) : queue[i] = n + i

\* Calls that have returned, when they do so in the order they were made.
Finished == nextId - 1 - Len(sending) - Len(waiters)
Answered == Finished + Len(inbox) + Len(downstream)
BeingHandled == IF handling = {} THEN 0 ELSE 1

\* Where sends resolve in order and requests are served one after the other, calls and
\* frames move from place to place in the order of the calls.
InStep ==
  inOrder =>
    /\ Finished \in Nat /\ Returned = 1 .. Finished
    /\ Consecutive(waiters, Finished) /\ Consecutive(sending, Finished + Len(waiters))
    /\ Consecutive(inbox, Finished) /\ Consecutive(downstream, Finished + Len(inbox))
    /\ connection = "open" =>
         /\ handling \subseteq {Answered + 1}
         /\ Consecutive(upstream, Answered + BeingHandled)
         /\ Answered + BeingHandled + Len(upstream) = nextId - 1

CallsInv ==
  /\ CallsTypeOK /\ CallsApart /\ FramesApart
  /\ EachResponseOnce /\ OverlappingCallsKeepStep /\ InStep

-----------------------------------------------------------------------------
(***************************************************************************)
(* Queues.                                                                 *)
(***************************************************************************)
LEMMA AppendToQueue ==
  ASSUME NEW S, NEW q \in Seq(S), NEW x \in S
  PROVE  /\ Append(q, x) \in Seq(S) /\ Len(Append(q, x)) = Len(q) + 1
         /\ \A i \in 1 .. Len(q) : Append(q, x)[i] = q[i]
         /\ Append(q, x)[Len(q) + 1] = x
         /\ Range(Append(q, x)) = Range(q) \union {x}
         /\ (IsInjective(q) /\ x \notin Range(q)) => IsInjective(Append(q, x))
<1>1. /\ Append(q, x) \in Seq(S) /\ Len(Append(q, x)) = Len(q) + 1
      /\ \A i \in 1 .. Len(q) : Append(q, x)[i] = q[i]
      /\ Append(q, x)[Len(q) + 1] = x
  OBVIOUS
<1>2. DOMAIN Append(q, x) = 1 .. Len(q) + 1 /\ DOMAIN q = 1 .. Len(q) /\ Len(q) \in Nat
  BY <1>1
<1>3. \A i \in DOMAIN Append(q, x) : i \in DOMAIN q \/ i = Len(q) + 1
  BY <1>2
<1>4. \A i \in DOMAIN q : i \in DOMAIN Append(q, x)
  BY <1>2
<1>5. Len(q) + 1 \in DOMAIN Append(q, x)
  BY <1>2
<1>6. Range(Append(q, x)) = Range(q) \union {x}
  BY <1>1, <1>2, <1>3, <1>4, <1>5 DEF Range
<1>7. ASSUME IsInjective(q), x \notin Range(q)
      PROVE  IsInjective(Append(q, x))
  BY <1>1, <1>2, <1>3, <1>7 DEF IsInjective, Range
<1>8. QED
  BY <1>1, <1>6, <1>7

LEMMA TakeFromQueue ==
  ASSUME NEW S, NEW q \in Seq(S), q # <<>>
  PROVE  /\ Head(q) \in S /\ Head(q) = q[1]
         /\ Tail(q) \in Seq(S) /\ Len(Tail(q)) = Len(q) - 1 /\ Len(q) \in Nat \ {0}
         /\ \A i \in 1 .. Len(q) - 1 : Tail(q)[i] = q[i + 1]
         /\ Range(q) = Range(Tail(q)) \union {Head(q)}
         /\ IsInjective(q) => IsInjective(Tail(q)) /\ Head(q) \notin Range(Tail(q))
<1>1. /\ Head(q) \in S /\ Head(q) = q[1]
      /\ Tail(q) \in Seq(S) /\ Len(Tail(q)) = Len(q) - 1 /\ Len(q) \in Nat \ {0}
      /\ \A i \in 1 .. Len(q) - 1 : Tail(q)[i] = q[i + 1]
  OBVIOUS
<1>2. DOMAIN Tail(q) = 1 .. Len(q) - 1 /\ DOMAIN q = 1 .. Len(q)
  BY <1>1
<1>3. \A i \in DOMAIN Tail(q) : i + 1 \in DOMAIN q /\ i + 1 # 1
  BY <1>1, <1>2
<1>4. \A i \in DOMAIN q : i = 1 \/ (i - 1 \in DOMAIN Tail(q) /\ q[i] = Tail(q)[i - 1])
  BY <1>1, <1>2
<1>5. 1 \in DOMAIN q
  BY <1>1, <1>2
<1>6. Range(q) = Range(Tail(q)) \union {Head(q)}
  <2>1. ASSUME NEW i \in DOMAIN Tail(q)
        PROVE  Tail(q)[i] \in Range(q)
    BY <1>1, <1>2, <1>3 DEF Range
  <2>2. ASSUME NEW i \in DOMAIN q
        PROVE  q[i] \in Range(Tail(q)) \union {Head(q)}
    BY <1>1, <1>4 DEF Range
  <2>3. Head(q) \in Range(q)
    BY <1>1, <1>5 DEF Range
  <2>4. QED
    BY <2>1, <2>2, <2>3, Zenon DEF Range
<1>7. ASSUME IsInjective(q)
      PROVE  IsInjective(Tail(q)) /\ Head(q) \notin Range(Tail(q))
  BY <1>1, <1>2, <1>3, <1>5, <1>7 DEF IsInjective, Range
<1>8. QED
  BY <1>1, <1>6, <1>7

LEMMA RemoveFromQueue ==
  ASSUME NEW S, NEW q \in Seq(S), NEW i \in DOMAIN q
  PROVE  /\ q[i] \in S
         /\ RemoveAt(q, i) \in Seq(S) /\ Len(RemoveAt(q, i)) = Len(q) - 1 /\ Len(q) \in Nat \ {0}
         /\ \A j \in 1 .. Len(q) - 1 : RemoveAt(q, i)[j] = IF j < i THEN q[j] ELSE q[j + 1]
         /\ Range(q) = Range(RemoveAt(q, i)) \union {q[i]}
         /\ IsInjective(q) => IsInjective(RemoveAt(q, i)) /\ q[i] \notin Range(RemoveAt(q, i))
<1> DEFINE r == RemoveAt(q, i)
           before == SubSeq(q, 1, i - 1)
           after == SubSeq(q, i + 1, Len(q))
<1>1. /\ Len(q) \in Nat \ {0} /\ DOMAIN q = 1 .. Len(q) /\ q[i] \in S /\ i \in 1 .. Len(q)
  OBVIOUS
<1>2. before \in Seq(S) /\ Len(before) = i - 1 /\ \A j \in 1 .. i - 1 : before[j] = q[j]
  BY <1>1
<1>3. after \in Seq(S) /\ Len(after) = Len(q) - i /\ \A j \in 1 .. Len(q) - i : after[j] = q[i + j]
  BY <1>1
<1>4. /\ r \in Seq(S) /\ Len(r) = Len(q) - 1
      /\ \A j \in 1 .. Len(q) - 1 : r[j] = IF j < i THEN q[j] ELSE q[j + 1]
  <2>1. r = before \o after
    BY DEF RemoveAt
  <2> HIDE DEF r, before, after
  <2>2. /\ r \in Seq(S) /\ Len(r) = Len(before) + Len(after)
        /\ \A j \in 1 .. Len(before) + Len(after) :
             r[j] = IF j <= Len(before) THEN before[j] ELSE after[j - Len(before)]
    BY <1>2, <1>3, <2>1, ConcatProperties
  <2>3. Len(before) + Len(after) = Len(q) - 1
    BY <1>1, <1>2, <1>3
  <2>4. ASSUME NEW j \in 1 .. Len(q) - 1
        PROVE  r[j] = IF j < i THEN q[j] ELSE q[j + 1]
    <3>1. CASE j < i
      BY <1>1, <1>2, <2>2, <2>3, <3>1
    <3>2. CASE ~(j < i)
      <4>1. j - (i - 1) \in 1 .. Len(q) - i /\ i + (j - (i - 1)) = j + 1 /\ ~(j <= i - 1)
        BY <1>1, <3>2
      <4>2. r[j] = after[j - (i - 1)]
        BY <1>2, <2>2, <2>3, <4>1
      <4>3. QED
        BY <1>3, <3>2, <4>1, <4>2
    <3>3. QED
      BY <3>1, <3>2
  <2>5. QED
    BY <2>2, <2>3, <2>4
<1>5. DOMAIN r = 1 .. Len(q) - 1
  BY <1>4
<1> HIDE DEF r
<1>6. \A j \in DOMAIN r : \E k \in DOMAIN q : k # i /\ r[j] = q[k] /\ k = IF j < i THEN j ELSE j + 1
  BY <1>1, <1>4, <1>5
<1>7. \A k \in DOMAIN q : k = i \/ \E j \in DOMAIN r : r[j] = q[k]
  <2>1. \A k \in DOMAIN q : k < i => k \in DOMAIN r /\ r[k] = q[k]
    BY <1>1, <1>4, <1>5
  <2>2. \A k \in DOMAIN q : k > i => k - 1 \in DOMAIN r /\ r[k - 1] = q[k]
    BY <1>1, <1>4, <1>5
  <2>3. QED
    BY <1>1, <2>1, <2>2
<1>8. Range(q) = Range(r) \union {q[i]}
  BY <1>6, <1>7 DEF Range
<1>9. ASSUME IsInjective(q)
      PROVE  IsInjective(r) /\ q[i] \notin Range(r)
  <2>1. q[i] \notin Range(r)
    BY <1>6, <1>9 DEF IsInjective, Range
  <2>2. ASSUME NEW j \in DOMAIN r, NEW k \in DOMAIN r, r[j] = r[k]
        PROVE  j = k
    BY <1>1, <1>5, <1>6, <1>9, <2>2 DEF IsInjective
  <2>3. QED
    BY <2>1, <2>2 DEF IsInjective
<1>10. QED
  BY <1>1, <1>4, <1>8, <1>9 DEF r

LEMMA ConsecutiveQueue ==
  ASSUME NEW S, NEW q \in Seq(S), NEW n \in Int, Consecutive(q, n)
  PROVE  /\ n + Len(q) + 1 \in S => Consecutive(Append(q, n + Len(q) + 1), n)
         /\ q # <<>> => /\ Head(q) = n + 1 /\ Consecutive(Tail(q), n + 1)
                        /\ 1 \in DOMAIN q /\ q[1] = n + 1 /\ Consecutive(RemoveAt(q, 1), n + 1)
<1>1. n + Len(q) + 1 \in S => Consecutive(Append(q, n + Len(q) + 1), n)
  BY AppendToQueue DEF Consecutive
<1>2. q # <<>> => Head(q) = n + 1 /\ Consecutive(Tail(q), n + 1)
  <2> SUFFICES ASSUME q # <<>>
               PROVE  Head(q) = n + 1 /\ Consecutive(Tail(q), n + 1)
    OBVIOUS
  <2>1. Len(q) \in Nat \ {0} /\ Head(q) = q[1] /\ Len(Tail(q)) = Len(q) - 1
    BY TakeFromQueue
  <2>2. ASSUME NEW i \in 1 .. Len(q) - 1
        PROVE  Tail(q)[i] = n + 1 + i
    BY <2>1, TakeFromQueue DEF Consecutive
  <2>3. QED
    BY <2>1, <2>2 DEF Consecutive
<1>3. q # <<>> => 1 \in DOMAIN q /\ q[1] = n + 1 /\ Consecutive(RemoveAt(q, 1), n + 1)
  <2> SUFFICES ASSUME q # <<>>
               PROVE  1 \in DOMAIN q /\ q[1] = n + 1 /\ Consecutive(RemoveAt(q, 1), n + 1)
    OBVIOUS
  <2>1. Len(q) \in Nat \ {0} /\ 1 \in DOMAIN q
    OBVIOUS
  <2>2. Len(RemoveAt(q, 1)) = Len(q) - 1
    BY <2>1, RemoveFromQueue
  <2>3. ASSUME NEW i \in 1 .. Len(q) - 1
        PROVE  RemoveAt(q, 1)[i] = n + 1 + i
    BY <2>1, RemoveFromQueue DEF Consecutive
  <2>4. QED
    BY <2>1, <2>2, <2>3 DEF Consecutive
<1>4. QED
  BY <1>1, <1>2, <1>3

-----------------------------------------------------------------------------
(***************************************************************************)
(* The calls of the TypeScript client.                                     *)
(***************************************************************************)
LEMMA FiniteCalls ==
  ASSUME NEW n \in Nat, NEW calls, calls \subseteq 1 .. n - 1
  PROVE  IsFiniteSet(calls)
<1>1. IsFiniteSet(1 .. n - 1)
  BY FS_Interval
<1>2. QED
  BY <1>1, FS_Subset

LEMMA CallsInvInit == CallsInit => CallsInv
<1> SUFFICES ASSUME CallsInit
             PROVE  CallsInv
  OBVIOUS
<1> USE DEF CallsInit
<1>1. Returned = {} /\ Range(<<>>) = {} /\ Taken = {}
  BY DEF Returned, Range, Taken
<1>2. CallsTypeOK
  BY <1>1, CallsAssumption DEF CallsTypeOK, IsInjective
<1>3. CallsApart /\ FramesApart
  BY <1>1 DEF CallsApart, FramesApart, Made
<1>4. EachResponseOnce /\ OverlappingCallsKeepStep
  BY <1>1, FS_EmptySet DEF EachResponseOnce, OverlappingCallsKeepStep
<1>5. InStep
  BY <1>1 DEF InStep, Finished, Answered, BeingHandled, Consecutive
<1>6. QED
  BY <1>2, <1>3, <1>4, <1>5 DEF CallsInv

\* The types, queue by queue.
LEMMA QueueTypes ==
  ASSUME CallsTypeOK
  PROVE  /\ nextId \in 1 .. MaxCalls + 1 /\ nextId \in Nat /\ MaxCalls \in Nat /\ Made \subseteq Calls
         /\ sending \in Seq(Made) /\ IsInjective(sending) /\ Range(sending) \subseteq Made
         /\ waiters \in Seq(Made) /\ IsInjective(waiters) /\ Range(waiters) \subseteq Made
         /\ inbox \in Seq(Made) /\ IsInjective(inbox) /\ Range(inbox) \subseteq Made
         /\ upstream \in Seq(Made) /\ IsInjective(upstream) /\ Range(upstream) \subseteq Made
         /\ downstream \in Seq(Made) /\ IsInjective(downstream) /\ Range(downstream) \subseteq Made
         /\ handling \subseteq Made /\ IsFiniteSet(handling) /\ Cardinality(handling) \in Nat
         /\ Returned \subseteq Made /\ IsFiniteSet(Returned) /\ Cardinality(Returned) \in Nat
         /\ results \in [Returned -> Calls \union {Closed}]
<1>1. /\ nextId \in 1 .. MaxCalls + 1 /\ nextId \in Nat /\ MaxCalls \in Nat /\ Made \subseteq Calls
      /\ handling \subseteq Made /\ Returned \subseteq Made
      /\ results \in [Returned -> Calls \union {Closed}]
  BY CallsAssumption DEF CallsTypeOK, Made, Calls
<1>2. /\ sending \in Seq(Made) /\ IsInjective(sending)
      /\ waiters \in Seq(Made) /\ IsInjective(waiters)
      /\ inbox \in Seq(Made) /\ IsInjective(inbox)
      /\ upstream \in Seq(Made) /\ IsInjective(upstream)
      /\ downstream \in Seq(Made) /\ IsInjective(downstream)
  BY DEF CallsTypeOK, Made
<1>3. IsFiniteSet(handling) /\ IsFiniteSet(Returned)
  BY <1>1, FiniteCalls DEF Made
<1>4. QED
  BY <1>1, <1>2, <1>3, RangeOfSeq, FS_CardinalityType

LEMMA CallsTypes ==
  ASSUME nextId' \in 1 .. MaxCalls + 1, connection' \in {"open", "closing", "closed"},
         \A queue \in {sending', waiters', inbox', upstream', downstream'} :
           queue \in Seq(Made') /\ IsInjective(queue),
         handling' \subseteq Made', Returned' \subseteq Made',
         results' \in [Returned' -> Calls \union {Closed}]
  PROVE  CallsTypeOK'
BY DEF CallsTypeOK, Made

LEMMA Lengths ==
  ASSUME CallsTypeOK
  PROVE  /\ Len(sending) \in Nat /\ Len(waiters) \in Nat /\ Len(inbox) \in Nat
         /\ Len(upstream) \in Nat /\ Len(downstream) \in Nat
         /\ nextId \in Nat /\ Finished \in Int /\ Answered \in Int /\ BeingHandled \in 0 .. 1
         /\ nextId = Finished + Len(waiters) + Len(sending) + 1
         /\ Answered = Finished + Len(inbox) + Len(downstream)
<1>1. /\ Len(sending) \in Nat /\ Len(waiters) \in Nat /\ Len(inbox) \in Nat
      /\ Len(upstream) \in Nat /\ Len(downstream) \in Nat /\ nextId \in Nat
  BY QueueTypes
<1>2. QED
  BY <1>1 DEF Finished, Answered, BeingHandled

\* What a call that returns adds to the results.
LEMMA Returning ==
  ASSUME CallsTypeOK, NEW c, c \notin Returned, NEW outcome, Return(c, outcome)
  PROVE  /\ Returned' = Returned \union {c} /\ results' = [d \in Returned' |-> results'[d]]
         /\ results'[c] = outcome /\ \A d \in Returned : results'[d] = results[d]
         /\ Taken' = Taken \union ({outcome} \ {Closed})
         /\ Cardinality(Returned) \in Nat /\ Cardinality(Returned') = Cardinality(Returned) + 1
<1>1. /\ Returned' = Returned \union {c} /\ results' = [d \in Returned' |-> results'[d]]
      /\ results'[c] = outcome /\ \A d \in Returned : results'[d] = results[d]
  BY DEF Return, Returned
<1>2. Taken' = {results'[d] : d \in Returned'} \ {Closed}
  BY DEF Taken
<1>3. Taken' = Taken \union ({outcome} \ {Closed})
  BY <1>1, <1>2 DEF Taken
<1>4. IsFiniteSet(Returned)
  BY QueueTypes
<1>5. QED
  BY <1>1, <1>3, <1>4, FS_CardinalityType, FS_AddElement


\* Call and frames on their way are new ones.
LEMMA CallAwaitsSendStep ==
  ASSUME CallsInv, CallAwaitsSend
  PROVE  CallsInv'
<1> USE DEF CallsInv, CallAwaitsSend
<1>1. /\ nextId \in 1 .. MaxCalls /\ nextId' = nextId + 1 /\ Made \subseteq Made'
      /\ nextId \in Made' /\ nextId \notin Made /\ Returned' = Returned /\ Taken' = Taken
  BY QueueTypes, SMTT(60) DEF Returned, Taken, Made
<1>2. /\ sending \in Seq(Made') /\ waiters \in Seq(Made') /\ inbox \in Seq(Made')
      /\ upstream \in Seq(Made') /\ downstream \in Seq(Made')
  BY <1>1, QueueTypes, SeqMonotonic
<1>3. /\ nextId \notin Range(sending) /\ nextId \notin Range(waiters) /\ nextId \notin Range(inbox)
      /\ nextId \notin Range(upstream) /\ nextId \notin Range(downstream) /\ nextId \notin handling
      /\ nextId \notin Returned /\ nextId \notin Taken
  BY <1>1, QueueTypes DEF FramesApart
<1>4. /\ sending' \in Seq(Made') /\ IsInjective(sending') /\ Len(sending') = Len(sending) + 1
      /\ Range(sending') = Range(sending) \union {nextId}
  BY <1>1, <1>2, <1>3, AppendToQueue, QueueTypes
<1>5. /\ upstream' \in Seq(Made') /\ IsInjective(upstream')
      /\ Range(upstream') \subseteq Range(upstream) \union {nextId}
      /\ connection = "open" => upstream' = Append(upstream, nextId) /\ Len(upstream') = Len(upstream) + 1
  <2>1. CASE connection = "open"
    BY <1>1, <1>2, <1>3, <2>1, AppendToQueue, QueueTypes
  <2>2. CASE connection # "open"
    BY <1>2, <2>2, QueueTypes
  <2>3. QED
    BY <2>1, <2>2
<1>6. CallsTypeOK'
  <2>1. \A queue \in {sending', waiters', inbox', upstream', downstream'} :
          queue \in Seq(Made') /\ IsInjective(queue)
    BY <1>2, <1>4, <1>5, QueueTypes
  <2>2. handling' \subseteq Made' /\ Returned' \subseteq Made'
    BY <1>1, QueueTypes
  <2>3. /\ nextId' \in 1 .. MaxCalls + 1 /\ connection' \in {"open", "closing", "closed"}
        /\ results' \in [Returned' -> Calls \union {Closed}]
    BY <1>1, QueueTypes, SMTT(60) DEF CallsTypeOK
  <2>4. QED
    BY <2>1, <2>2, <2>3, CallsTypes
<1>7. CallsApart'
  BY <1>1, <1>3, <1>4 DEF CallsApart
<1>8. FramesApart'
  BY <1>1, <1>3, <1>5 DEF FramesApart
<1>9. EachResponseOnce'
  <2>1. \A c, d \in Returned' : (c # d /\ results'[c] # Closed) => results'[c] # results'[d]
    BY <1>1 DEF EachResponseOnce
  <2>2. waiters' = <<>> \/ inbox' = <<>>
    BY DEF EachResponseOnce
  <2>3. connection' = "open" =>
          Cardinality(Returned') + Len(inbox') + Len(downstream') + Len(upstream') + Cardinality(handling')
            = nextId' - 1
    <3>1. /\ connection = "open" =>
              Cardinality(Returned) + Len(inbox) + Len(downstream) + Len(upstream) + Cardinality(handling)
                = nextId - 1
          /\ UNCHANGED <<Returned, inbox, downstream, handling, connection>>
      BY <1>1 DEF EachResponseOnce
    <3>2. Cardinality(Returned) \in Nat /\ Cardinality(handling) \in Nat
      BY QueueTypes
    <3>3. Len(inbox) \in Nat /\ Len(downstream) \in Nat /\ Len(upstream) \in Nat /\ nextId \in Nat
      BY Lengths
    <3>4. QED
      BY <1>1, <1>5, <3>1, <3>2, <3>3, SMTT(60)
  <2>4. QED
    BY <2>1, <2>2, <2>3 DEF EachResponseOnce
<1>10. OverlappingCallsKeepStep'
  BY <1>1 DEF OverlappingCallsKeepStep
<1>11. InStep'
  <2> SUFFICES ASSUME inOrder
               PROVE  InStep'
    BY DEF InStep
  <2>1. Finished' = Finished /\ Answered' = Answered /\ BeingHandled' = BeingHandled
    BY <1>1, <1>4, QueueTypes DEF Finished, Answered, BeingHandled
  <2>2. /\ Finished \in Nat /\ Consecutive(sending, Finished + Len(waiters))
        /\ connection = "open" => /\ Consecutive(upstream, Answered + BeingHandled)
                                  /\ Answered + BeingHandled + Len(upstream) = nextId - 1
    BY DEF InStep
  <2>3. Finished + Len(waiters) \in Int /\ Finished + Len(waiters) + Len(sending) + 1 = nextId
    BY Lengths
  <2>4. Consecutive(sending', Finished + Len(waiters))
    BY <1>1, <1>2, <2>2, <2>3, ConsecutiveQueue
  <2>5. ASSUME connection = "open"
        PROVE  /\ Consecutive(upstream', Answered + BeingHandled)
               /\ Answered + BeingHandled + Len(upstream') = nextId
    <3>1. Answered + BeingHandled \in Int /\ Answered + BeingHandled + Len(upstream) + 1 = nextId
      BY <2>2, <2>5, Lengths
    <3>2. QED
      BY <1>1, <1>2, <1>5, <2>2, <2>5, <3>1, ConsecutiveQueue
  <2>6. QED
    BY <1>1, <2>1, <2>4, <2>5 DEF InStep
<1>12. QED
  BY <1>6, <1>7, <1>8, <1>9, <1>10, <1>11

\* The call that asks takes the frame that has waited longest, or waits.
LEMMA CallAwaitsReceiveStep ==
  ASSUME CallsInv, CallAwaitsReceive
  PROVE  CallsInv'
<1> USE DEF CallsInv
<1>1. PICK i \in DOMAIN sending :
        /\ inOrder => i = 1
        /\ sending' = RemoveAt(sending, i)
        /\ IF inbox # <<>>
           THEN Return(sending[i], Head(inbox)) /\ inbox' = Tail(inbox) /\ UNCHANGED waiters
           ELSE waiters' = Append(waiters, sending[i]) /\ UNCHANGED <<results, inbox>>
  BY DEF CallAwaitsReceive
<1>2. /\ inOrder' = inOrder /\ nextId' = nextId /\ upstream' = upstream
      /\ downstream' = downstream /\ handling' = handling /\ connection' = connection /\ Made' = Made
  BY DEF CallAwaitsReceive, Made
<1>0. /\ sending \in Seq(Made) /\ IsInjective(sending) /\ DOMAIN sending = 1 .. Len(sending)
      /\ inbox \in Seq(Made) /\ IsInjective(inbox)
      /\ waiters \in Seq(Made) /\ IsInjective(waiters)
  BY QueueTypes, LenProperties
<1>3. /\ sending[i] \in Made /\ sending[i] \in Range(sending)
      /\ sending' \in Seq(Made) /\ IsInjective(sending') /\ Len(sending') = Len(sending) - 1
      /\ Range(sending) = Range(sending') \union {sending[i]} /\ sending[i] \notin Range(sending')
  <2>1. sending[i] \in Range(sending)
    BY DEF Range
  <2>2. QED
    BY <1>1, <1>0, <2>1, RemoveFromQueue
<1>4. sending[i] \notin Returned /\ sending[i] \notin Range(waiters)
  BY <1>3 DEF CallsApart
<1>5. inOrder => /\ sending[i] = Finished + Len(waiters) + 1
                 /\ Consecutive(sending', Finished + Len(waiters) + 1)
  <2>1. Finished + Len(waiters) \in Int
    BY Lengths
  <2>2. inOrder => Consecutive(sending, Finished + Len(waiters)) /\ i = 1
    BY <1>1 DEF InStep
  <2>3. sending # <<>>
    OBVIOUS
  <2>4. QED
    BY <1>1, <1>0, <2>1, <2>2, <2>3, ConsecutiveQueue
<1>6. CASE inbox # <<>>
  <2>1. Return(sending[i], Head(inbox)) /\ inbox' = Tail(inbox) /\ waiters' = waiters /\ waiters = <<>>
    BY <1>1, <1>6 DEF EachResponseOnce
  <2>2. /\ Head(inbox) \in Made /\ inbox' \in Seq(Made) /\ IsInjective(inbox')
        /\ Len(inbox') = Len(inbox) - 1 /\ Head(inbox) \notin Range(inbox')
        /\ Range(inbox) = Range(inbox') \union {Head(inbox)}
    BY <1>6, <1>0, <2>1, TakeFromQueue
  <2>3. /\ Returned' = Returned \union {sending[i]} /\ results' = [d \in Returned' |-> results'[d]]
        /\ results'[sending[i]] = Head(inbox) /\ \A d \in Returned : results'[d] = results[d]
        /\ Taken' = Taken \union ({Head(inbox)} \ {Closed})
        /\ Cardinality(Returned) \in Nat /\ Cardinality(Returned') = Cardinality(Returned) + 1
    BY <1>4, <2>1, Returning
  <2>4. Head(inbox) \in Calls /\ Head(inbox) # Closed
    BY <2>2, QueueTypes, CallsAssumption DEF Calls
  <2>5. CallsTypeOK'
    <3>1. \A queue \in {sending', waiters', inbox', upstream', downstream'} :
            queue \in Seq(Made) /\ IsInjective(queue)
      BY <1>2, <1>3, <2>1, <2>2, QueueTypes
    <3>2. results' \in [Returned' -> Calls \union {Closed}] /\ Returned' \subseteq Made
      <4>1. \A c \in Returned' : results'[c] \in Calls \union {Closed}
        BY <2>3, <2>4, QueueTypes
      <4>2. Returned' \subseteq Made
        BY <1>3, <2>3, QueueTypes
      <4>3. QED
        BY <2>3, <4>1, <4>2
    <3>3. QED
      BY <1>2, <3>1, <3>2, QueueTypes, CallsTypes DEF CallsTypeOK
  <2>6. CallsApart'
    BY <1>3, <1>4, <2>1, <2>3, Zenon DEF CallsApart
  <2>7. FramesApart'
    <3>1. Taken' = Taken \union {Head(inbox)}
      BY <2>3, <2>4
    <3>2. QED
      BY <1>2, <2>2, <3>1 DEF FramesApart
  <2>8. EachResponseOnce'
    <3>1. \A c \in Returned : results[c] # Head(inbox)
      BY <2>2, <2>4 DEF FramesApart, Taken
    <3>2. \A c, d \in Returned' : (c # d /\ results'[c] # Closed) => results'[c] # results'[d]
      BY <2>3, <3>1 DEF EachResponseOnce
    <3>3. connection' = "open" =>
            Cardinality(Returned') + Len(inbox') + Len(downstream') + Len(upstream') + Cardinality(handling')
              = nextId' - 1
      <4>1. connection = "open" =>
              Cardinality(Returned) + Len(inbox) + Len(downstream) + Len(upstream) + Cardinality(handling)
                = nextId - 1
        BY DEF EachResponseOnce
      <4>2. Cardinality(handling) \in Nat
        BY QueueTypes
      <4>3. QED
        BY <1>2, <2>2, <2>3, <4>1, <4>2, Lengths
    <3>4. QED
      BY <2>1, <3>2, <3>3 DEF EachResponseOnce
  <2>9. inOrder => Head(inbox) = Finished + 1 /\ sending[i] = Finished + 1 /\ Consecutive(inbox', Finished + 1)
    <3>1. Finished \in Int
      BY Lengths
    <3>2. inOrder => Consecutive(inbox, Finished)
      BY DEF InStep
    <3>3. QED
      BY <1>5, <1>6, <1>0, <2>1, <3>1, <3>2, ConsecutiveQueue
  <2>10. OverlappingCallsKeepStep'
    BY <1>2, <2>3, <2>9 DEF OverlappingCallsKeepStep
  <2>11. InStep'
    <3> SUFFICES ASSUME inOrder
                 PROVE  InStep'
      BY <1>2 DEF InStep
    <3>1. /\ Finished' = Finished + 1 /\ Answered' = Answered /\ BeingHandled' = BeingHandled
          /\ Finished' + Len(waiters') = Finished + Len(waiters) + 1
          /\ Finished' + Len(inbox') = Finished + Len(inbox)
      <4>1. Finished' = Finished + 1
        <5>1. Len(sending') = Len(sending) - 1 /\ Len(waiters') = Len(waiters) /\ nextId' = nextId
          BY <1>2, <1>3, <2>1
        <5>2. Len(sending) \in Nat /\ Len(waiters) \in Nat /\ nextId \in Nat
          BY Lengths
        <5>3. QED
          BY <5>1, <5>2 DEF Finished
      <4>2. BeingHandled' = BeingHandled
        BY <1>2 DEF BeingHandled
      <4>3. Answered' = Answered
        BY <1>2, <2>2, <4>1, Lengths DEF Answered
      <4>4. QED
        <5>1. Len(inbox') = Len(inbox) - 1 /\ Len(waiters') = Len(waiters)
          BY <2>1, <2>2
        <5>2. Len(inbox) \in Nat /\ Len(waiters) \in Nat /\ Finished \in Int
          BY Lengths
        <5>3. QED
          BY <4>1, <4>2, <4>3, <5>1, <5>2
    <3>2. /\ Finished \in Nat /\ Returned = 1 .. Finished
          /\ Consecutive(downstream, Finished + Len(inbox))
      BY DEF InStep
    <3>3. Finished' \in Nat /\ Returned' = 1 .. Finished'
      <4>1. Returned' = (1 .. Finished) \union {Finished + 1}
        BY <2>3, <2>9, <3>2
      <4>2. QED
        BY <3>1, <3>2, <4>1
    <3>4. Consecutive(waiters', Finished')
      BY <2>1 DEF Consecutive
    <3>5. connection' = "open" =>
            /\ handling' \subseteq {Answered' + 1}
            /\ Consecutive(upstream', Answered' + BeingHandled')
            /\ Answered' + BeingHandled' + Len(upstream') = nextId' - 1
      BY <1>2, <3>1 DEF InStep
    <3>6. QED
      BY <1>2, <1>5, <2>9, <3>1, <3>2, <3>3, <3>4, <3>5 DEF InStep
  <2>12. QED
    BY <2>5, <2>6, <2>7, <2>8, <2>10, <2>11
<1>7. CASE inbox = <<>>
  <2>1. waiters' = Append(waiters, sending[i]) /\ results' = results /\ inbox' = inbox
    BY <1>1, <1>7
  <2>2. /\ waiters' \in Seq(Made) /\ IsInjective(waiters') /\ Len(waiters') = Len(waiters) + 1
        /\ Range(waiters') = Range(waiters) \union {sending[i]}
    BY <1>3, <1>4, <1>0, <2>1, AppendToQueue
  <2>3. Returned' = Returned /\ Taken' = Taken
    BY <2>1 DEF Returned, Taken
  <2>4. CallsTypeOK'
    <3>1. \A queue \in {sending', waiters', inbox', upstream', downstream'} :
            queue \in Seq(Made) /\ IsInjective(queue)
      BY <1>2, <1>3, <2>1, <2>2, QueueTypes
    <3>2. QED
      BY <1>2, <2>1, <2>3, <3>1, QueueTypes, CallsTypes DEF CallsTypeOK
  <2>5. CallsApart'
    BY <1>3, <1>4, <2>2, <2>3, Zenon DEF CallsApart
  <2>6. FramesApart'
    BY <1>2, <2>1, <2>3 DEF FramesApart
  <2>7. EachResponseOnce'
    BY <1>2, <1>7, <2>1, <2>3 DEF EachResponseOnce
  <2>8. OverlappingCallsKeepStep'
    BY <1>2, <2>1, <2>3 DEF OverlappingCallsKeepStep
  <2>9. InStep'
    <3> SUFFICES ASSUME inOrder
                 PROVE  InStep'
      BY <1>2 DEF InStep
    <3>1. Finished' = Finished /\ Len(waiters') = Len(waiters) + 1
      <4>1. Len(sending') = Len(sending) - 1 /\ Len(waiters') = Len(waiters) + 1 /\ nextId' = nextId
        BY <1>2, <1>3, <2>2
      <4>2. Len(sending) \in Nat /\ Len(waiters) \in Nat /\ nextId \in Nat
        BY Lengths
      <4>3. QED
        BY <4>1, <4>2 DEF Finished
    <3>2. Answered' = Answered /\ BeingHandled' = BeingHandled
      BY <1>2, <2>1, <3>1 DEF Answered, BeingHandled
    <3>3. Consecutive(waiters, Finished) /\ Finished \in Nat
      BY DEF InStep
    <3>4. Consecutive(waiters', Finished')
      BY <1>3, <1>5, <1>0, <2>1, <3>1, <3>3, ConsecutiveQueue
    <3>5. Consecutive(sending', Finished' + Len(waiters'))
      <4>1. Finished' + Len(waiters') = Finished + Len(waiters) + 1
        BY <3>1, Lengths
      <4>2. QED
        BY <1>5, <4>1
    <3>6. QED
      BY <1>2, <2>1, <2>3, <3>1, <3>2, <3>4, <3>5 DEF InStep
  <2>10. QED
    BY <2>4, <2>5, <2>6, <2>7, <2>8, <2>9
<1>8. QED
  BY <1>6, <1>7

\* The first call that waits takes the frame that arrives, or it goes to the inbox.
LEMMA DeliverFrameStep ==
  ASSUME CallsInv, DeliverFrame
  PROVE  CallsInv'
<1> USE DEF CallsInv
<1> DEFINE frame == Head(downstream)
           c == Head(waiters)
<1>1. /\ inOrder' = inOrder /\ nextId' = nextId /\ sending' = sending /\ upstream' = upstream
      /\ handling' = handling /\ connection' = connection /\ Made' = Made
      /\ downstream # <<>> /\ downstream' = Tail(downstream)
      /\ IF waiters # <<>>
         THEN Return(c, frame) /\ waiters' = Tail(waiters) /\ inbox' = inbox
         ELSE inbox' = Append(inbox, frame) /\ results' = results /\ waiters' = waiters
  BY DEF DeliverFrame, Made
<1>2. /\ frame \in Made /\ downstream' \in Seq(Made) /\ IsInjective(downstream')
      /\ Len(downstream') = Len(downstream) - 1 /\ Range(downstream) = Range(downstream') \union {frame}
      /\ frame \notin Range(downstream')
  BY <1>1, QueueTypes, TakeFromQueue
<1>3. frame \in Calls /\ frame # Closed
  BY <1>2, QueueTypes, CallsAssumption DEF Calls
<1>4. inOrder => /\ frame = Finished + Len(inbox) + 1
                 /\ Consecutive(downstream', Finished + Len(inbox) + 1)
  <2>1. Finished + Len(inbox) \in Int
    BY Lengths
  <2>2. inOrder => Consecutive(downstream, Finished + Len(inbox))
    BY DEF InStep
  <2>3. downstream \in Seq(Made) /\ downstream # <<>> /\ downstream' = Tail(downstream)
    BY <1>1, QueueTypes
  <2> DEFINE n == Finished + Len(inbox)
  <2>4. n \in Int /\ (inOrder => Consecutive(downstream, n))
    BY <2>1, <2>2
  <2> HIDE DEF n
  <2>5. inOrder => Head(downstream) = n + 1 /\ Consecutive(Tail(downstream), n + 1)
    BY <2>3, <2>4, ConsecutiveQueue
  <2>6. QED
    BY <2>3, <2>5 DEF n
<1> HIDE DEF frame, c
<1>5. CASE waiters # <<>>
  <2>1. /\ Return(c, frame) /\ waiters' = Tail(waiters) /\ inbox' = inbox /\ inbox = <<>>
    BY <1>1, <1>5 DEF EachResponseOnce
  <2>2. /\ c \in Made /\ waiters' \in Seq(Made) /\ IsInjective(waiters')
        /\ Len(waiters') = Len(waiters) - 1 /\ c \notin Range(waiters')
        /\ Range(waiters) = Range(waiters') \union {c}
    BY <1>5, <2>1, QueueTypes, TakeFromQueue DEF c
  <2>3. c \notin Returned /\ c \notin Range(sending)
    BY <2>2 DEF CallsApart
  <2>4. /\ Returned' = Returned \union {c} /\ results' = [d \in Returned' |-> results'[d]]
        /\ results'[c] = frame /\ \A d \in Returned : results'[d] = results[d]
        /\ Taken' = Taken \union ({frame} \ {Closed})
        /\ Cardinality(Returned) \in Nat /\ Cardinality(Returned') = Cardinality(Returned) + 1
    BY <2>1, <2>3, Returning
  <2>5. CallsTypeOK'
    <3>1. \A queue \in {sending', waiters', inbox', upstream', downstream'} :
            queue \in Seq(Made) /\ IsInjective(queue)
      BY <1>1, <1>2, <2>1, <2>2, QueueTypes
    <3>2. results' \in [Returned' -> Calls \union {Closed}] /\ Returned' \subseteq Made
      <4>1. \A d \in Returned' : results'[d] \in Calls \union {Closed}
        BY <1>3, <2>4, QueueTypes
      <4>2. Returned' \subseteq Made
        BY <2>2, <2>4, QueueTypes
      <4>3. QED
        BY <2>4, <4>1, <4>2
    <3>3. QED
      BY <1>1, <3>1, <3>2, QueueTypes, CallsTypes DEF CallsTypeOK
  <2>6. CallsApart'
    BY <1>1, <2>2, <2>3, <2>4, Zenon DEF CallsApart
  <2>7. FramesApart'
    <3>1. Taken' = Taken \union {frame}
      BY <1>3, <2>4
    <3>2. QED
      BY <1>1, <1>2, <2>1, <3>1 DEF FramesApart
  <2>8. EachResponseOnce'
    <3>1. \A d \in Returned : results[d] # frame
      BY <1>2, <1>3 DEF FramesApart, Taken
    <3>2. \A d, e \in Returned' : (d # e /\ results'[d] # Closed) => results'[d] # results'[e]
      BY <2>4, <3>1 DEF EachResponseOnce
    <3>3. connection' = "open" =>
            Cardinality(Returned') + Len(inbox') + Len(downstream') + Len(upstream') + Cardinality(handling')
              = nextId' - 1
      <4>1. connection = "open" =>
              Cardinality(Returned) + Len(inbox) + Len(downstream) + Len(upstream) + Cardinality(handling)
                = nextId - 1
        BY DEF EachResponseOnce
      <4>2. Cardinality(handling) \in Nat
        BY QueueTypes
      <4>3. QED
        BY <1>1, <1>2, <2>1, <2>4, <4>1, <4>2, Lengths
    <3>4. QED
      BY <2>1, <3>2, <3>3 DEF EachResponseOnce
  <2>9. inOrder => frame = Finished + 1 /\ c = Finished + 1 /\ Consecutive(waiters', Finished + 1)
    <3>1. Finished \in Int /\ Len(inbox) = 0
      BY <2>1, Lengths
    <3>2. inOrder => Consecutive(waiters, Finished)
      BY DEF InStep
    <3>3. inOrder => c = Finished + 1 /\ Consecutive(waiters', Finished + 1)
      BY <1>5, <2>1, <3>1, <3>2, QueueTypes, ConsecutiveQueue DEF c
    <3>4. QED
      BY <1>4, <3>1, <3>3
  <2>10. OverlappingCallsKeepStep'
    BY <1>1, <2>4, <2>9 DEF OverlappingCallsKeepStep
  <2>11. InStep'
    <3> SUFFICES ASSUME inOrder
                 PROVE  InStep'
      BY <1>1 DEF InStep
    <3>1. Finished' = Finished + 1 /\ Finished \in Int
      <4>1. Len(sending') = Len(sending) /\ Len(waiters') = Len(waiters) - 1 /\ nextId' = nextId
        BY <1>1, <2>2
      <4>2. Len(sending) \in Nat /\ Len(waiters) \in Nat /\ nextId \in Nat
        BY Lengths
      <4>3. QED
        BY <4>1, <4>2 DEF Finished
    <3>2. Answered' = Answered /\ BeingHandled' = BeingHandled
      <4>1. Len(inbox') = Len(inbox) /\ Len(downstream') = Len(downstream) - 1
        BY <1>2, <2>1
      <4>2. Len(inbox) \in Nat /\ Len(downstream) \in Nat
        BY Lengths
      <4>3. QED
        BY <1>1, <3>1, <4>1, <4>2 DEF Answered, BeingHandled
    <3>3. /\ Finished' + Len(waiters') = Finished + Len(waiters)
          /\ Finished' + Len(inbox') = Finished + Len(inbox) + 1
      BY <2>1, <2>2, <3>1, Lengths
    <3>4. /\ Finished \in Nat /\ Returned = 1 .. Finished
          /\ Consecutive(sending, Finished + Len(waiters))
      BY DEF InStep
    <3>5. Finished' \in Nat /\ Returned' = 1 .. Finished'
      <4>1. Returned' = (1 .. Finished) \union {Finished + 1}
        BY <2>4, <2>9, <3>4
      <4>2. QED
        BY <3>1, <3>4, <4>1
    <3>6. Consecutive(inbox', Finished')
      BY <2>1 DEF Consecutive
    <3>7. connection' = "open" =>
            /\ handling' \subseteq {Answered' + 1}
            /\ Consecutive(upstream', Answered' + BeingHandled')
            /\ Answered' + BeingHandled' + Len(upstream') = nextId' - 1
      BY <1>1, <3>2 DEF InStep
    <3>8. QED
      BY <1>1, <1>4, <2>9, <3>1, <3>3, <3>4, <3>5, <3>6, <3>7 DEF InStep
  <2>12. QED
    BY <2>5, <2>6, <2>7, <2>8, <2>10, <2>11
<1>6. CASE waiters = <<>>
  <2>1. inbox' = Append(inbox, frame) /\ results' = results /\ waiters' = waiters
    BY <1>1, <1>6
  <2>2. frame \notin Range(inbox)
    BY <1>2 DEF FramesApart
  <2>3. /\ inbox' \in Seq(Made) /\ IsInjective(inbox') /\ Len(inbox') = Len(inbox) + 1
        /\ Range(inbox') = Range(inbox) \union {frame}
    BY <1>2, <2>1, <2>2, QueueTypes, AppendToQueue
  <2>4. Returned' = Returned /\ Taken' = Taken
    BY <2>1 DEF Returned, Taken
  <2>5. CallsTypeOK'
    <3>1. \A queue \in {sending', waiters', inbox', upstream', downstream'} :
            queue \in Seq(Made) /\ IsInjective(queue)
      BY <1>1, <1>2, <2>1, <2>3, QueueTypes
    <3>2. QED
      BY <1>1, <2>1, <2>4, <3>1, QueueTypes, CallsTypes DEF CallsTypeOK
  <2>6. CallsApart'
    BY <1>1, <2>1, <2>4 DEF CallsApart
  <2>7. FramesApart'
    BY <1>1, <1>2, <2>3, <2>4, ZenonT(60) DEF FramesApart
  <2>8. EachResponseOnce'
    <3>1. connection' = "open" =>
            Cardinality(Returned') + Len(inbox') + Len(downstream') + Len(upstream') + Cardinality(handling')
              = nextId' - 1
      <4>1. connection = "open" =>
              Cardinality(Returned) + Len(inbox) + Len(downstream) + Len(upstream) + Cardinality(handling)
                = nextId - 1
        BY DEF EachResponseOnce
      <4>2. Cardinality(handling) \in Nat /\ Cardinality(Returned) \in Nat
        BY QueueTypes
      <4>3. QED
        BY <1>1, <1>2, <2>3, <2>4, <4>1, <4>2, Lengths
    <3>2. QED
      BY <1>6, <2>1, <2>4, <3>1 DEF EachResponseOnce
  <2>9. OverlappingCallsKeepStep'
    BY <1>1, <2>1, <2>4 DEF OverlappingCallsKeepStep
  <2>10. InStep'
    <3> SUFFICES ASSUME inOrder
                 PROVE  InStep'
      BY <1>1 DEF InStep
    <3>1. Finished' = Finished /\ Finished \in Int
      BY <1>1, <2>1, Lengths DEF Finished
    <3>2. Answered' = Answered /\ BeingHandled' = BeingHandled
      <4>1. Len(inbox') = Len(inbox) + 1 /\ Len(downstream') = Len(downstream) - 1
        BY <1>2, <2>3
      <4>2. Len(inbox) \in Nat /\ Len(downstream) \in Nat
        BY Lengths
      <4>3. QED
        BY <1>1, <3>1, <4>1, <4>2 DEF Answered, BeingHandled
    <3>3. Consecutive(inbox', Finished)
      <4>1. Consecutive(inbox, Finished)
        BY DEF InStep
      <4>2. QED
        BY <1>2, <1>4, <2>1, <3>1, <4>1, QueueTypes, ConsecutiveQueue
    <3>4. Consecutive(downstream', Finished + Len(inbox'))
      <4>1. Finished + Len(inbox') = Finished + Len(inbox) + 1
        BY <2>3, Lengths
      <4>2. QED
        BY <1>4, <4>1
    <3>5. QED
      BY <1>1, <2>1, <2>4, <3>1, <3>2, <3>3, <3>4 DEF InStep
  <2>11. QED
    BY <2>5, <2>6, <2>7, <2>8, <2>9, <2>10
<1>7. QED
  BY <1>5, <1>6

\* The end of the connection reaches one call that waits, and then there are no frames.
LEMMA DeliverCloseStep ==
  ASSUME CallsInv, DeliverClose
  PROVE  CallsInv'
<1> USE DEF CallsInv
<1> DEFINE c == Head(waiters)
<1>1. /\ inOrder' = inOrder /\ nextId' = nextId /\ sending' = sending /\ inbox' = inbox
      /\ upstream' = upstream /\ downstream' = downstream /\ handling' = handling /\ Made' = Made
      /\ downstream = <<>> /\ connection' = "closed"
      /\ IF waiters # <<>>
         THEN Return(c, Closed) /\ waiters' = Tail(waiters)
         ELSE results' = results /\ waiters' = waiters
  BY DEF DeliverClose, Made
<1> HIDE DEF c
<1>2. CASE waiters # <<>>
  <2>1. Return(c, Closed) /\ waiters' = Tail(waiters) /\ inbox = <<>>
    BY <1>1, <1>2 DEF EachResponseOnce
  <2>2. /\ c \in Made /\ waiters' \in Seq(Made) /\ IsInjective(waiters')
        /\ Len(waiters') = Len(waiters) - 1 /\ c \notin Range(waiters')
        /\ Range(waiters) = Range(waiters') \union {c}
    BY <1>2, <2>1, QueueTypes, TakeFromQueue DEF c
  <2>3. c \notin Returned /\ c \notin Range(sending)
    BY <2>2 DEF CallsApart
  <2>4. /\ Returned' = Returned \union {c} /\ results' = [d \in Returned' |-> results'[d]]
        /\ results'[c] = Closed /\ \A d \in Returned : results'[d] = results[d]
        /\ Taken' = Taken
    BY <2>1, <2>3, Returning, ZenonT(60)
  <2>5. CallsTypeOK'
    <3>1. \A queue \in {sending', waiters', inbox', upstream', downstream'} :
            queue \in Seq(Made) /\ IsInjective(queue)
      BY <1>1, <2>2, QueueTypes
    <3>2. results' \in [Returned' -> Calls \union {Closed}] /\ Returned' \subseteq Made
      <4>1. \A d \in Returned' : results'[d] \in Calls \union {Closed}
        BY <2>4, QueueTypes
      <4>2. Returned' \subseteq Made
        BY <2>2, <2>4, QueueTypes
      <4>3. QED
        BY <2>4, <4>1, <4>2
    <3>3. QED
      BY <1>1, <3>1, <3>2, QueueTypes, CallsTypes
  <2>6. CallsApart'
    BY <1>1, <2>2, <2>3, <2>4, Zenon DEF CallsApart
  <2>7. FramesApart'
    BY <1>1, <2>4 DEF FramesApart
  <2>8. EachResponseOnce'
    <3>1. \A d \in Returned : results[d] # Closed => results[d] \in Taken
      BY DEF Taken
    <3>2. \A d, e \in Returned' : (d # e /\ results'[d] # Closed) => results'[d] # results'[e]
      BY <2>4 DEF EachResponseOnce
    <3>3. QED
      BY <1>1, <2>1, <3>2 DEF EachResponseOnce
  <2>9. OverlappingCallsKeepStep'
    BY <1>1, <2>4 DEF OverlappingCallsKeepStep
  <2>10. InStep'
    <3> SUFFICES ASSUME inOrder
                 PROVE  InStep'
      BY <1>1 DEF InStep
    <3>1. Finished' = Finished + 1 /\ Finished \in Int
      <4>1. Len(sending') = Len(sending) /\ Len(waiters') = Len(waiters) - 1 /\ nextId' = nextId
        BY <1>1, <2>2
      <4>2. Len(sending) \in Nat /\ Len(waiters) \in Nat /\ nextId \in Nat
        BY Lengths
      <4>3. QED
        BY <4>1, <4>2 DEF Finished
    <3>2. Finished' + Len(waiters') = Finished + Len(waiters)
      BY <2>2, <3>1, Lengths
    <3>3. /\ Finished \in Nat /\ Returned = 1 .. Finished
          /\ Consecutive(sending, Finished + Len(waiters)) /\ Consecutive(waiters, Finished)
      BY DEF InStep
    <3>4. c = Finished + 1 /\ Consecutive(waiters', Finished + 1)
      BY <1>2, <2>1, <3>1, <3>3, QueueTypes, ConsecutiveQueue DEF c
    <3>5. Finished' \in Nat /\ Returned' = 1 .. Finished'
      <4>1. Returned' = (1 .. Finished) \union {Finished + 1}
        BY <2>4, <3>3, <3>4
      <4>2. QED
        BY <3>1, <3>3, <4>1
    <3>6. Consecutive(inbox', Finished') /\ Consecutive(downstream', Finished' + Len(inbox'))
      BY <1>1, <2>1 DEF Consecutive
    <3>7. QED
      BY <1>1, <3>1, <3>2, <3>3, <3>4, <3>5, <3>6 DEF InStep
  <2>11. QED
    BY <2>5, <2>6, <2>7, <2>8, <2>9, <2>10
<1>3. CASE waiters = <<>>
  <2>1. /\ results' = results /\ waiters' = waiters /\ Returned' = Returned /\ Taken' = Taken
        /\ Finished' = Finished /\ connection' # "open"
    BY <1>1, <1>3 DEF Returned, Taken, Finished
  <2>2. CallsTypeOK'
    <3>1. \A queue \in {sending', waiters', inbox', upstream', downstream'} :
            queue \in Seq(Made) /\ IsInjective(queue)
      BY <1>1, <2>1, QueueTypes
    <3>2. QED
      BY <1>1, <2>1, <3>1, QueueTypes, CallsTypes
  <2>3. CallsApart' /\ FramesApart'
    BY <1>1, <2>1 DEF CallsApart, FramesApart
  <2>4. EachResponseOnce' /\ OverlappingCallsKeepStep'
    BY <1>1, <2>1 DEF EachResponseOnce, OverlappingCallsKeepStep
  <2>5. InStep'
    BY <1>1, <2>1 DEF InStep
  <2>6. QED
    BY <2>2, <2>3, <2>4, <2>5
<1>4. QED
  BY <1>2, <1>3

LEMMA ServeOneReceivesStep ==
  ASSUME CallsInv, ServeOneReceives
  PROVE  CallsInv'
<1> USE DEF CallsInv
<1> DEFINE frame == Head(upstream)
<1>1. /\ inOrder' = inOrder /\ nextId' = nextId /\ sending' = sending /\ waiters' = waiters
      /\ inbox' = inbox /\ results' = results /\ downstream' = downstream /\ Made' = Made
      /\ connection = "open" /\ connection' = connection /\ upstream # <<>> /\ upstream' = Tail(upstream)
      /\ handling' = handling \union {frame} /\ (inOrder => handling = {})
      /\ Returned' = Returned /\ Taken' = Taken /\ Finished' = Finished
  BY DEF ServeOneReceives, Made, Returned, Taken, Finished
<1>2. /\ frame \in Made /\ upstream' \in Seq(Made) /\ IsInjective(upstream')
      /\ Len(upstream') = Len(upstream) - 1 /\ Range(upstream) = Range(upstream') \union {frame}
      /\ frame \notin Range(upstream')
  BY <1>1, QueueTypes, TakeFromQueue
<1> HIDE DEF frame
<1>3. frame \notin handling /\ Cardinality(handling') = Cardinality(handling) + 1
  <2>1. frame \notin handling
    BY <1>2 DEF FramesApart
  <2>2. QED
    BY <1>1, <2>1, QueueTypes, FS_AddElement
<1>4. CallsTypeOK'
  <2>1. \A queue \in {sending', waiters', inbox', upstream', downstream'} :
          queue \in Seq(Made) /\ IsInjective(queue)
    BY <1>1, <1>2, QueueTypes
  <2>2. handling' \subseteq Made
    BY <1>1, <1>2, QueueTypes
  <2>3. QED
    BY <1>1, <2>1, <2>2, QueueTypes, CallsTypes
<1>5. CallsApart'
  BY <1>1 DEF CallsApart
<1>6. FramesApart'
  BY <1>1, <1>2, <1>3, Zenon DEF FramesApart
<1>7. EachResponseOnce'
  <2>1. Cardinality(Returned) + Len(inbox) + Len(downstream) + Len(upstream) + Cardinality(handling)
          = nextId - 1
    BY <1>1 DEF EachResponseOnce
  <2>2. /\ Cardinality(Returned) \in Nat /\ Cardinality(handling) \in Nat /\ nextId \in Nat
        /\ Len(inbox) \in Nat /\ Len(downstream) \in Nat /\ Len(upstream) \in Nat
    BY QueueTypes, Lengths
  <2>3. Cardinality(Returned') + Len(inbox') + Len(downstream') + Len(upstream') + Cardinality(handling')
          = nextId' - 1
    BY <1>1, <1>2, <1>3, <2>1, <2>2
  <2>4. QED
    BY <1>1, <2>3 DEF EachResponseOnce
<1>8. OverlappingCallsKeepStep'
  BY <1>1 DEF OverlappingCallsKeepStep
<1>9. InStep'
  <2> SUFFICES ASSUME inOrder
               PROVE  InStep'
    BY <1>1 DEF InStep
  <2>1. /\ Answered' = Answered /\ Answered \in Int /\ handling = {} /\ BeingHandled = 0
        /\ handling' = {frame} /\ BeingHandled' = 1
    BY <1>1, Lengths DEF Answered, BeingHandled
  <2>2. Consecutive(upstream, Answered) /\ Answered + Len(upstream) = nextId - 1
    BY <1>1, <2>1, Lengths DEF InStep
  <2>3. frame = Answered + 1 /\ Consecutive(upstream', Answered + 1)
    BY <1>1, <2>1, <2>2, QueueTypes, ConsecutiveQueue DEF frame
  <2>4. Answered + 1 + Len(upstream') = nextId - 1
    BY <1>2, <2>1, <2>2, Lengths
  <2>5. QED
    BY <1>1, <2>1, <2>3, <2>4 DEF InStep
<1>10. QED
  BY <1>4, <1>5, <1>6, <1>7, <1>8, <1>9

LEMMA ServeOneRepliesStep ==
  ASSUME CallsInv, ServeOneReplies
  PROVE  CallsInv'
<1> USE DEF CallsInv
<1>1. PICK c \in handling : handling' = handling \ {c} /\ downstream' = Append(downstream, c)
  BY DEF ServeOneReplies
<1>2. /\ inOrder' = inOrder /\ nextId' = nextId /\ sending' = sending /\ waiters' = waiters
      /\ inbox' = inbox /\ results' = results /\ upstream' = upstream /\ Made' = Made
      /\ connection = "open" /\ connection' = connection
      /\ Returned' = Returned /\ Taken' = Taken /\ Finished' = Finished
  BY DEF ServeOneReplies, Made, Returned, Taken, Finished
<1>3. c \in Made /\ c \notin Range(downstream)
  BY QueueTypes DEF FramesApart
<1>4. /\ downstream' \in Seq(Made) /\ IsInjective(downstream') /\ Len(downstream') = Len(downstream) + 1
      /\ Range(downstream') = Range(downstream) \union {c}
  BY <1>1, <1>3, QueueTypes, AppendToQueue
<1>5. Cardinality(handling') = Cardinality(handling) - 1
  BY <1>1, QueueTypes, FS_RemoveElement
<1>6. CallsTypeOK'
  <2>1. \A queue \in {sending', waiters', inbox', upstream', downstream'} :
          queue \in Seq(Made) /\ IsInjective(queue)
    BY <1>2, <1>4, QueueTypes
  <2>2. handling' \subseteq Made
    BY <1>1, QueueTypes
  <2>3. QED
    BY <1>2, <2>1, <2>2, QueueTypes, CallsTypes
<1>7. CallsApart'
  BY <1>2 DEF CallsApart
<1>8. FramesApart'
  BY <1>1, <1>2, <1>4 DEF FramesApart
<1>9. EachResponseOnce'
  <2>1. Cardinality(Returned) + Len(inbox) + Len(downstream) + Len(upstream) + Cardinality(handling)
          = nextId - 1
    BY <1>2 DEF EachResponseOnce
  <2>2. /\ Cardinality(Returned) \in Nat /\ Cardinality(handling) \in Nat /\ nextId \in Nat
        /\ Len(inbox) \in Nat /\ Len(downstream) \in Nat /\ Len(upstream) \in Nat
    BY QueueTypes, Lengths
  <2>3. Cardinality(Returned') + Len(inbox') + Len(downstream') + Len(upstream') + Cardinality(handling')
          = nextId' - 1
    BY <1>2, <1>4, <1>5, <2>1, <2>2
  <2>4. QED
    BY <1>2, <2>3 DEF EachResponseOnce
<1>10. OverlappingCallsKeepStep'
  BY <1>2 DEF OverlappingCallsKeepStep
<1>11. InStep'
  <2> SUFFICES ASSUME inOrder
               PROVE  InStep'
    BY <1>2 DEF InStep
  <2>1. handling = {Answered + 1} /\ c = Answered + 1 /\ handling' = {}
    BY <1>1, <1>2 DEF InStep
  <2>2. /\ Answered \in Int /\ Answered' = Answered + 1 /\ BeingHandled = 1 /\ BeingHandled' = 0
        /\ Answered' + BeingHandled' = Answered + BeingHandled
    <3>1. Len(inbox) \in Nat /\ Len(downstream) \in Nat /\ Finished \in Int
      BY Lengths
    <3>2. QED
      BY <1>2, <1>4, <2>1, <3>1 DEF Answered, BeingHandled
  <2>3. Consecutive(downstream', Finished + Len(inbox))
    <3>1. Consecutive(downstream, Finished + Len(inbox))
      BY DEF InStep
    <3>2. Finished + Len(inbox) \in Int /\ c = Finished + Len(inbox) + Len(downstream) + 1
      BY <2>1, Lengths DEF Answered
    <3>3. QED
      BY <1>1, <1>3, <3>1, <3>2, QueueTypes, ConsecutiveQueue
  <2>4. /\ Consecutive(upstream, Answered + BeingHandled)
        /\ Answered + BeingHandled + Len(upstream) = nextId - 1
    BY <1>2 DEF InStep
  <2>5. QED
    BY <1>2, <2>1, <2>2, <2>3, <2>4 DEF InStep
<1>12. QED
  BY <1>6, <1>7, <1>8, <1>9, <1>10, <1>11

LEMMA ConnectionEndsStep ==
  ASSUME CallsInv, ConnectionEnds
  PROVE  CallsInv'
<1> USE DEF CallsInv
<1>1. /\ inOrder' = inOrder /\ nextId' = nextId /\ sending' = sending /\ waiters' = waiters
      /\ inbox' = inbox /\ results' = results /\ downstream' = downstream /\ Made' = Made
      /\ connection' = "closing" /\ connection' # "open" /\ upstream' = <<>> /\ handling' = {}
      /\ Returned' = Returned /\ Taken' = Taken /\ Finished' = Finished
  BY DEF ConnectionEnds, Made, Returned, Taken, Finished
<1>2. upstream' \in Seq(Made) /\ IsInjective(upstream') /\ Range(upstream') = {}
  BY <1>1 DEF IsInjective, Range
<1>3. CallsTypeOK'
  <2>1. \A queue \in {sending', waiters', inbox', upstream', downstream'} :
          queue \in Seq(Made) /\ IsInjective(queue)
    BY <1>1, <1>2, QueueTypes
  <2>2. QED
    BY <1>1, <2>1, QueueTypes, CallsTypes
<1>4. CallsApart' /\ FramesApart'
  BY <1>1, <1>2 DEF CallsApart, FramesApart
<1>5. EachResponseOnce' /\ OverlappingCallsKeepStep'
  BY <1>1 DEF EachResponseOnce, OverlappingCallsKeepStep
<1>6. InStep'
  BY <1>1 DEF InStep
<1>7. QED
  BY <1>3, <1>4, <1>5, <1>6

LEMMA CallsInvStep == CallsInv /\ [CallsNext]_callVars => CallsInv'
<1> SUFFICES ASSUME CallsInv, [CallsNext]_callVars
             PROVE  CallsInv'
  OBVIOUS
<1>1. CASE UNCHANGED callVars
  <2>1. /\ inOrder' = inOrder /\ nextId' = nextId /\ sending' = sending /\ waiters' = waiters
        /\ inbox' = inbox /\ results' = results /\ upstream' = upstream /\ downstream' = downstream
        /\ handling' = handling /\ connection' = connection
    BY <1>1 DEF callVars
  <2>2. Returned' = Returned /\ Made' = Made /\ Finished' = Finished
    BY <2>1 DEF Returned, Made, Finished
  <2>3. Taken' = Taken /\ Answered' = Answered /\ BeingHandled' = BeingHandled
    BY <2>1, <2>2 DEF Taken, Answered, BeingHandled
  <2>4. CallsTypeOK' /\ CallsApart' /\ FramesApart'
    BY <2>1, <2>2, <2>3 DEF CallsInv, CallsTypeOK, CallsApart, FramesApart
  <2>5. EachResponseOnce' /\ OverlappingCallsKeepStep' /\ InStep'
    BY <2>1, <2>2, <2>3 DEF CallsInv, EachResponseOnce, OverlappingCallsKeepStep, InStep
  <2>6. QED
    BY <2>4, <2>5 DEF CallsInv
<1>2. QED
  BY <1>1, CallAwaitsSendStep, CallAwaitsReceiveStep, DeliverFrameStep, DeliverCloseStep,
     ServeOneReceivesStep, ServeOneRepliesStep, ConnectionEndsStep DEF CallsNext

(* Calls and frames of the TypeScript client (rpc.ts:221-222 and the carrier *)
(* of carrier.ts) are each in one place, however many calls overlap.         *)
THEOREM CallsInvariant == CallsSpec => []CallsInv
BY CallsInvInit, CallsInvStep, PTL DEF CallsSpec

(* With sends that resolve in order and a host that serves one request at a  *)
(* time, any number of overlapping calls each get their own response.        *)
THEOREM CallsKeepStep == CallsSpec => []OverlappingCallsKeepStep
<1>1. CallsInv => OverlappingCallsKeepStep
  BY DEF CallsInv
<1>2. QED
  BY <1>1, CallsInvariant, PTL

(* In any order, no frame is taken twice and none is lost while the          *)
(* connection is open.                                                       *)
THEOREM ResponsesTakenOnce == CallsSpec => []EachResponseOnce
<1>1. CallsInv => EachResponseOnce
  BY DEF CallsInv
<1>2. QED
  BY <1>1, CallsInvariant, PTL

-----------------------------------------------------------------------------
(***************************************************************************)
(* Sequence numbers and epochs of the datagram transport (SeqChannel).     *)
(***************************************************************************)
SeqNumbers == 0 .. SeqSpace - 1
Epochs == (0 .. EpochSpace - 1) \union {NoEpoch}

EpochOfLife(life) == IF tracksRestarts THEN life % EpochSpace ELSE NoEpoch

\* What a sender puts into a datagram.
Datagram == [place : Nat, seq : SeqNumbers, epoch : Epochs, life : Nat]

Genuine(datagrams) ==
  /\ datagrams \subseteq Datagram
  /\ \A d \in datagrams :
       d.seq = d.place % SeqSpace /\ d.epoch = EpochOfLife(d.life) /\ d.life <= restarts

\* Each arrival has been sent, or is one that the network repeated.
NetworkInv ==
  /\ tracksRestarts \in BOOLEAN /\ Genuine(network) /\ IsFiniteSet(network)
  /\ arrivals + Cardinality(network) <= count + repeats

RunInv ==
  /\ run \in [seen : SUBSET Datagram, base : SeqNumbers \union {None}, gaps : Nat, late : Nat]
  /\ \A d \in run.seen : d.seq = d.place % SeqSpace
  /\ run.base = None <=> lastSeq = None
  /\ run.base = None => run.gaps = 0 /\ run.late = 0
  /\ run.base # None => run.base <= lastSeq

\* The last sequence number is that of the newest datagram, where they can be compared.
NewestInv ==
  Comparable(run.seen) =>
    IF lastSeq = None THEN \A d \in run.seen : d.place = 0
    ELSE /\ \E d \in run.seen : d.place = lastSeq
         /\ \A d \in run.seen : d.place <= lastSeq

\* The next datagram of the newest life will be taken for a restart.
OutOfDate == IF lastEpoch \in {NoEpoch, EpochOfLife(lives.newest)} THEN 0 ELSE 1

LivesInv ==
  /\ lives \in [newest : Nat, stale : Nat, reported : Nat]
  /\ lives.reported + OutOfDate <= lives.newest + 2 * lives.stale

SeqInv == SeqTypeOK /\ NetworkInv /\ RunInv /\ NewestInv /\ GapsCountLosses /\ LivesInv

\* What GapsCountLosses counts.
Missing == {p \in run.base .. lastSeq : p # 0 /\ \A d \in run.seen : d.place # p}

-----------------------------------------------------------------------------
(***************************************************************************)
(* The channel and its tracker.                                            *)
(***************************************************************************)
LEMMA Modulo ==
  ASSUME NEW n \in Nat, NEW m \in Nat \ {0}
  PROVE  n % m \in 0 .. m - 1 /\ (n < m => n % m = n)
OBVIOUS

LEMMA SeqConstants == 
  /\ SeqSpace \in Nat \ {0, 1} /\ EpochSpace \in Nat \ {0, 1}
  /\ NoEpoch \notin Nat /\ None \notin Nat
  /\ MaxDatagrams \in Nat /\ MaxRestarts \in Nat /\ MaxRepeats \in Nat
BY SeqAssumption DEF SeqAssumption

LEMMA SeqInvInit == SeqInit => SeqInv
<1> SUFFICES ASSUME SeqInit
             PROVE  SeqInv
  OBVIOUS
<1> USE SeqConstants DEF SeqInit
<1>1. SeqTypeOK
  BY DEF SeqTypeOK
<1>2. NetworkInv
  BY FS_EmptySet DEF NetworkInv, Genuine
<1>3. RunInv
  BY DEF RunInv, NewRun
<1>4. NewestInv /\ GapsCountLosses
  BY DEF NewestInv, GapsCountLosses, NewRun
<1>5. LivesInv
  BY DEF LivesInv, OutOfDate
<1>6. QED
  BY <1>1, <1>2, <1>3, <1>4, <1>5 DEF SeqInv

\* What the tracker has is not touched by the sender and the network.
LEMMA TrackerUntouched ==
  ASSUME SeqInv, UNCHANGED trackerState, tracksRestarts' = tracksRestarts
  PROVE  RunInv' /\ NewestInv' /\ GapsCountLosses' /\ LivesInv'
<1>1. /\ lastSeq' = lastSeq /\ lastEpoch' = lastEpoch /\ event' = event /\ arrivals' = arrivals
      /\ latest' = latest /\ run' = run /\ lives' = lives
  BY DEF trackerState
<1>2. RunInv' /\ NewestInv' /\ GapsCountLosses'
  BY <1>1 DEF SeqInv, RunInv, NewestInv, GapsCountLosses
<1>3. LivesInv'
  BY <1>1 DEF SeqInv, LivesInv, OutOfDate, EpochOfLife
<1>4. QED
  BY <1>2, <1>3

LEMMA SendStep ==
  ASSUME SeqInv, NEW p \in {0, place + 1}, Send(p), place' \in {place, place + 1}
  PROVE  SeqInv'
<1> USE SeqConstants DEF SeqInv
<1> DEFINE d == [place |-> p, seq |-> p % SeqSpace, epoch |-> Epoch, life |-> restarts]
<1>1. /\ count < MaxDatagrams /\ count' = count + 1 /\ network' = network \union {d}
      /\ tracksRestarts' = tracksRestarts /\ restarts' = restarts /\ repeats' = repeats
      /\ UNCHANGED trackerState
  BY DEF Send
<1>2. /\ lastSeq' = lastSeq /\ lastEpoch' = lastEpoch /\ event' = event /\ arrivals' = arrivals
      /\ lives' = lives
  BY <1>1 DEF trackerState
<1>3. /\ count \in Nat /\ place \in Nat /\ p \in Nat /\ restarts \in Nat /\ arrivals \in Nat
      /\ repeats \in Nat /\ Cardinality(network) \in Nat
  BY FS_CardinalityType DEF SeqTypeOK, NetworkInv
<1>4. SeqTypeOK'
  BY <1>1, <1>2, <1>3 DEF SeqTypeOK
<1>5. NetworkInv'
  <2>1. Epoch = EpochOfLife(restarts) /\ Epoch \in Epochs
    BY <1>3, Modulo DEF Epoch, EpochOfLife, Epochs
  <2>2. d \in Datagram /\ d.seq = d.place % SeqSpace /\ d.epoch = EpochOfLife(d.life) /\ d.life <= restarts
    BY <1>3, <2>1, Modulo DEF Datagram, SeqNumbers
  <2> HIDE DEF d
  <2>3. Genuine(network \union {d})
    BY <2>2 DEF NetworkInv, Genuine
  <2>4. Genuine(network)'
    BY <1>1, <2>3 DEF Genuine, EpochOfLife
  <2>5. IsFiniteSet(network') /\ Cardinality(network') \in Nat /\ Cardinality(network') <= Cardinality(network) + 1
    BY <1>1, <1>3, FS_AddElement DEF NetworkInv
  <2>6. QED
    BY <1>1, <1>2, <1>3, <2>4, <2>5 DEF NetworkInv
<1>6. QED
  BY <1>1, <1>4, <1>5, TrackerUntouched

LEMMA SenderRestartsStep == SeqInv /\ SenderRestarts => SeqInv'
<1> SUFFICES ASSUME SeqInv, SenderRestarts
             PROVE  SeqInv'
  OBVIOUS
<1> USE SeqConstants DEF SeqInv
<1>1. /\ restarts < MaxRestarts /\ restarts' = restarts + 1 /\ place' = 0
      /\ tracksRestarts' = tracksRestarts /\ count' = count /\ network' = network /\ repeats' = repeats
      /\ UNCHANGED trackerState
  BY DEF SenderRestarts
<1>2. /\ lastSeq' = lastSeq /\ lastEpoch' = lastEpoch /\ event' = event /\ arrivals' = arrivals
      /\ lives' = lives
  BY <1>1 DEF trackerState
<1>3. SeqTypeOK'
  BY <1>1, <1>2 DEF SeqTypeOK
<1>4. NetworkInv'
  BY <1>1, <1>2 DEF NetworkInv, Genuine, EpochOfLife, SeqTypeOK, Datagram
<1>5. QED
  BY <1>1, <1>3, <1>4, TrackerUntouched

LEMMA LoseStep == SeqInv /\ Lose => SeqInv'
<1> SUFFICES ASSUME SeqInv, Lose
             PROVE  SeqInv'
  OBVIOUS
<1> USE SeqConstants DEF SeqInv
<1>1. PICK d \in network : network' = network \ {d}
  BY DEF Lose
<1>2. /\ restarts' = restarts /\ place' = place /\ repeats' = repeats
      /\ tracksRestarts' = tracksRestarts /\ count' = count /\ UNCHANGED trackerState
  BY DEF Lose, senderState
<1>3. /\ lastSeq' = lastSeq /\ lastEpoch' = lastEpoch /\ event' = event /\ arrivals' = arrivals
      /\ lives' = lives
  BY <1>2 DEF trackerState
<1>4. SeqTypeOK'
  BY <1>2, <1>3 DEF SeqTypeOK
<1>5. NetworkInv'
  <2>1. Genuine(network)'
    BY <1>1, <1>2 DEF NetworkInv, Genuine, EpochOfLife
  <2>2. IsFiniteSet(network') /\ Cardinality(network') = Cardinality(network) - 1 /\ Cardinality(network) \in Nat
    BY <1>1, FS_RemoveElement, FS_CardinalityType DEF NetworkInv
  <2>3. QED
    BY <1>2, <1>3, <2>1, <2>2 DEF NetworkInv, SeqTypeOK
<1>6. QED
  BY <1>2, <1>4, <1>5, TrackerUntouched

\* Where the datagrams that came can be compared, their numbers are their places.
LEMMA ComparablePlaces ==
  ASSUME SeqInv, NEW d \in network
  PROVE  /\ d \in Datagram /\ d.seq \in SeqNumbers /\ d.place \in Nat
         /\ \A e \in run.seen : e \in Datagram /\ e.place \in Nat /\ e.seq = e.place % SeqSpace
         /\ Comparable(run.seen \union {d}) => Comparable(run.seen) /\ d.seq = d.place
         /\ Comparable({d}) => d.seq = d.place
<1> USE SeqConstants DEF SeqInv
<1>1. d \in Datagram /\ d.seq = d.place % SeqSpace
  BY DEF NetworkInv, Genuine
<1>2. d.seq \in SeqNumbers /\ d.place \in Nat
  BY <1>1 DEF Datagram
<1>3. \A e \in run.seen : e \in Datagram /\ e.place \in Nat /\ e.seq = e.place % SeqSpace
  BY DEF RunInv, Datagram
<1>4. Comparable(run.seen \union {d}) => Comparable(run.seen) /\ d.seq = d.place
  BY <1>1, <1>2, Modulo DEF Comparable
<1>5. Comparable({d}) => d.seq = d.place
  BY <1>1, <1>2, Modulo DEF Comparable
<1>6. QED
  BY <1>1, <1>2, <1>3, <1>4, <1>5

LEMMA RestartedStep ==
  ASSUME SeqInv, NEW d \in network, Restarted(d)
  PROVE  /\ RunInv' /\ NewestInv' /\ GapsCountLosses'
         /\ lastSeq' \in SeqNumbers /\ event' = [kind |-> "restart", gap |-> 0]
<1> USE SeqConstants
<1>1. /\ lastSeq' = d.seq /\ event' = [kind |-> "restart", gap |-> 0]
      /\ run' = [seen |-> {d}, base |-> d.seq, gaps |-> 0, late |-> 0]
  BY DEF Restarted, NewRun
<1>2. /\ d \in Datagram /\ d.seq \in SeqNumbers /\ d.place \in Nat /\ d.seq = d.place % SeqSpace
      /\ Comparable({d}) => d.seq = d.place
  BY ComparablePlaces DEF SeqInv, NetworkInv, Genuine
<1>3. RunInv'
  BY <1>1, <1>2 DEF RunInv, SeqNumbers
<1>4. NewestInv'
  BY <1>1, <1>2 DEF NewestInv, SeqNumbers
<1>5. GapsCountLosses'
  <2> SUFFICES ASSUME Comparable({d})
               PROVE  Cardinality(Missing') <= run'.gaps /\ run'.gaps <= Cardinality(Missing') + run'.late
    BY <1>1 DEF GapsCountLosses, Missing
  <2>1. Missing' = {}
    BY <1>1, <1>2 DEF Missing, SeqNumbers
  <2>2. QED
    BY <1>1, <2>1, FS_EmptySet
<1>6. QED
  BY <1>1, <1>2, <1>3, <1>4, <1>5

LEMMA UnsequencedStep ==
  ASSUME SeqInv, NEW d \in network, Unsequenced(d)
  PROVE  /\ RunInv' /\ NewestInv' /\ GapsCountLosses'
         /\ lastSeq' \in SeqNumbers \union {None} /\ event' = [kind |-> "advanced", gap |-> 0]
<1> USE SeqConstants
<1>0. run \in [seen : SUBSET Datagram, base : SeqNumbers \union {None}, gaps : Nat, late : Nat]
  BY DEF SeqInv, RunInv
<1>1. /\ d.seq = 0 /\ lastSeq' = lastSeq /\ event' = [kind |-> "advanced", gap |-> 0]
      /\ run' = [seen |-> run.seen \union {d}, base |-> run.base, gaps |-> run.gaps, late |-> run.late]
  BY <1>0 DEF Unsequenced
<1>2. /\ d \in Datagram /\ d.seq \in SeqNumbers /\ d.place \in Nat /\ d.seq = d.place % SeqSpace
      /\ Comparable(run.seen \union {d}) => Comparable(run.seen) /\ d.seq = d.place
  BY ComparablePlaces DEF SeqInv, NetworkInv, Genuine
<1>3. RunInv'
  BY <1>1, <1>2 DEF SeqInv, RunInv
<1>4. lastSeq \in SeqNumbers \union {None}
  BY DEF SeqInv, SeqTypeOK, SeqNumbers
<1>5. NewestInv'
  BY <1>1, <1>2, <1>4 DEF SeqInv, NewestInv, SeqNumbers
<1>6. GapsCountLosses'
  <2> SUFFICES ASSUME run.base # None, Comparable(run.seen \union {d})
               PROVE  Cardinality(Missing') <= run'.gaps /\ run'.gaps <= Cardinality(Missing') + run'.late
    BY <1>1 DEF GapsCountLosses, Missing
  <2>1. Missing' = Missing
    BY <1>1, <1>2 DEF Missing
  <2>2. Cardinality(Missing) <= run.gaps /\ run.gaps <= Cardinality(Missing) + run.late
    BY <1>2 DEF SeqInv, GapsCountLosses, Missing
  <2>3. QED
    BY <1>1, <2>1, <2>2
<1>7. QED
  BY <1>1, <1>3, <1>4, <1>5, <1>6

LEMMA FirstStep ==
  ASSUME SeqInv, NEW d \in network, First(d)
  PROVE  /\ RunInv' /\ NewestInv' /\ GapsCountLosses'
         /\ lastSeq' \in SeqNumbers /\ event' = [kind |-> "first", gap |-> 0]
<1> USE SeqConstants
<1>0. /\ run \in [seen : SUBSET Datagram, base : SeqNumbers \union {None}, gaps : Nat, late : Nat]
      /\ lastSeq = None /\ run.gaps = 0 /\ run.late = 0
  BY DEF SeqInv, RunInv, First
<1>1. /\ d.seq # 0 /\ lastSeq' = d.seq /\ event' = [kind |-> "first", gap |-> 0]
      /\ run' = [seen |-> run.seen \union {d}, base |-> d.seq, gaps |-> 0, late |-> 0]
  BY <1>0 DEF First
<1>2. /\ d \in Datagram /\ d.seq \in SeqNumbers /\ d.place \in Nat /\ d.seq = d.place % SeqSpace
      /\ Comparable(run.seen \union {d}) => Comparable(run.seen) /\ d.seq = d.place
  BY ComparablePlaces DEF SeqInv, NetworkInv, Genuine
<1>3. RunInv'
  BY <1>0, <1>1, <1>2 DEF SeqInv, RunInv, SeqNumbers
<1>4. NewestInv'
  BY <1>0, <1>1, <1>2 DEF SeqInv, NewestInv, SeqNumbers
<1>5. GapsCountLosses'
  <2> SUFFICES ASSUME Comparable(run.seen \union {d})
               PROVE  Cardinality(Missing') <= run'.gaps /\ run'.gaps <= Cardinality(Missing') + run'.late
    BY <1>1 DEF GapsCountLosses, Missing
  <2>1. Missing' = {}
    BY <1>1, <1>2 DEF Missing, SeqNumbers
  <2>2. QED
    BY <1>1, <2>1, FS_EmptySet
<1>6. QED
  BY <1>1, <1>2, <1>3, <1>4, <1>5

LEMMA AdvancedStep ==
  ASSUME SeqInv, NEW d \in network, Advanced(d)
  PROVE  /\ RunInv' /\ NewestInv' /\ GapsCountLosses'
         /\ lastSeq' \in SeqNumbers /\ event'.kind = "advanced" /\ event'.gap \in 0 .. SeqSpace - 2
<1> USE SeqConstants
<1>0. /\ run \in [seen : SUBSET Datagram, base : SeqNumbers \union {None}, gaps : Nat, late : Nat]
      /\ lastSeq \in SeqNumbers /\ run.base \in SeqNumbers /\ run.base <= lastSeq
  BY DEF SeqInv, RunInv, Advanced, SeqTypeOK, SeqNumbers
<1> DEFINE gap == d.seq - lastSeq - 1
<1>1. /\ d.seq > lastSeq /\ lastSeq' = d.seq /\ event' = [kind |-> "advanced", gap |-> gap]
      /\ run' = [seen |-> run.seen \union {d}, base |-> run.base, gaps |-> run.gaps + gap, late |-> run.late]
  BY <1>0 DEF Advanced
<1>2. /\ d \in Datagram /\ d.seq \in SeqNumbers /\ d.place \in Nat /\ d.seq = d.place % SeqSpace
      /\ Comparable(run.seen \union {d}) => Comparable(run.seen) /\ d.seq = d.place
  BY ComparablePlaces DEF SeqInv, NetworkInv, Genuine
<1>3. gap \in 0 .. SeqSpace - 2
  BY <1>0, <1>1, <1>2 DEF SeqNumbers
<1>4. RunInv'
  BY <1>0, <1>1, <1>2, <1>3 DEF SeqInv, RunInv, SeqNumbers
<1>5. ASSUME Comparable(run.seen \union {d})
      PROVE  \A e \in run.seen : e.place \in Nat /\ e.place <= lastSeq
  <2>1. \A e \in run.seen : e.place \in Nat
    BY ComparablePlaces
  <2>2. Comparable(run.seen) /\ lastSeq # None
    BY <1>0, <1>2, <1>5 DEF SeqNumbers
  <2>3. \A e \in run.seen : e.place <= lastSeq
    BY <2>2 DEF SeqInv, NewestInv
  <2>4. QED
    BY <2>1, <2>3
<1>6. NewestInv'
  BY <1>0, <1>1, <1>2, <1>5 DEF NewestInv, SeqNumbers
<1>7. GapsCountLosses'
  <2> SUFFICES ASSUME Comparable(run.seen \union {d})
               PROVE  Cardinality(Missing') <= run'.gaps /\ run'.gaps <= Cardinality(Missing') + run'.late
    BY <1>1 DEF GapsCountLosses, Missing
  <2> DEFINE skipped == lastSeq + 1 .. d.seq - 1
  <2>1. /\ Missing' = Missing \union skipped /\ Missing \intersect skipped = {}
    <3>1. ASSUME NEW q \in skipped
          PROVE  q \in Missing' /\ q \notin Missing
      BY <1>0, <1>1, <1>2, <1>5 DEF Missing, SeqNumbers
    <3>2. ASSUME NEW q \in Missing
          PROVE  q \in Missing'
      BY <1>0, <1>1, <1>2 DEF Missing, SeqNumbers
    <3>3. ASSUME NEW q \in Missing', q \notin Missing
          PROVE  q \in skipped
      BY <1>0, <1>1, <1>2, <3>3 DEF Missing, SeqNumbers
    <3>4. QED
      BY <3>1, <3>2, <3>3
  <2>2. /\ IsFiniteSet(Missing) /\ Cardinality(Missing) \in Nat
    <3>1. IsFiniteSet(run.base .. lastSeq)
      BY <1>0, FS_Interval DEF SeqNumbers
    <3>2. QED
      BY <3>1, FS_Subset, FS_CardinalityType DEF Missing
  <2>3. IsFiniteSet(skipped) /\ Cardinality(skipped) = gap
    <3>1. /\ lastSeq + 1 \in Int /\ d.seq - 1 \in Int /\ gap \in Nat
          /\ (d.seq - 1) - (lastSeq + 1) + 1 = gap /\ (lastSeq + 1 > d.seq - 1 => gap = 0)
      BY <1>0, <1>1, <1>2 DEF SeqNumbers
    <3> HIDE DEF gap
    <3>2. QED
      BY <3>1, FS_Interval
  <2>4. Cardinality(Missing') = Cardinality(Missing) + gap
    <3> HIDE DEF skipped, gap
    <3>1. Cardinality(Missing \union skipped)
            = Cardinality(Missing) + Cardinality(skipped) - Cardinality(Missing \intersect skipped)
      BY <2>2, <2>3, FS_Union
    <3>2. QED
      <4>1. Missing' = Missing \union skipped /\ Missing \intersect skipped = {}
        BY <2>1
      <4>2. Cardinality(Missing') = Cardinality(Missing) + Cardinality(skipped) - 0
        BY <3>1, <4>1, FS_EmptySet
      <4>3. Cardinality(skipped) = gap /\ Cardinality(Missing) \in Nat
        BY <2>2, <2>3
      <4>4. gap \in Int
        BY <1>3
      <4>5. QED
        BY <4>2, <4>3, <4>4
  <2>5. Cardinality(Missing) <= run.gaps /\ run.gaps <= Cardinality(Missing) + run.late
    BY <1>0, <1>2 DEF SeqInv, GapsCountLosses, Missing, SeqNumbers
  <2>6. run.gaps \in Nat /\ run.late \in Nat
    BY <1>0
  <2>7. QED
    BY <1>1, <1>3, <2>2, <2>4, <2>5, <2>6
<1>8. QED
  BY <1>1, <1>2, <1>3, <1>4, <1>6, <1>7

LEMMA LateOrDuplicateStep ==
  ASSUME SeqInv, NEW d \in network, LateOrDuplicate(d)
  PROVE  /\ RunInv' /\ NewestInv' /\ GapsCountLosses'
         /\ lastSeq' \in SeqNumbers /\ event' = [kind |-> "late-or-duplicate", gap |-> 0]
<1> USE SeqConstants
<1>0. /\ run \in [seen : SUBSET Datagram, base : SeqNumbers \union {None}, gaps : Nat, late : Nat]
      /\ lastSeq \in SeqNumbers /\ run.base \in SeqNumbers /\ run.base <= lastSeq
  BY DEF SeqInv, RunInv, LateOrDuplicate, SeqTypeOK, SeqNumbers
<1>1. /\ d.seq <= lastSeq /\ lastSeq' = lastSeq /\ event' = [kind |-> "late-or-duplicate", gap |-> 0]
      /\ run' = [seen |-> run.seen \union {d}, base |-> run.base, gaps |-> run.gaps, late |-> run.late + 1]
  BY <1>0 DEF LateOrDuplicate
<1>2. /\ d \in Datagram /\ d.seq \in SeqNumbers /\ d.place \in Nat /\ d.seq = d.place % SeqSpace
      /\ Comparable(run.seen \union {d}) => Comparable(run.seen) /\ d.seq = d.place
  BY ComparablePlaces DEF SeqInv, NetworkInv, Genuine
<1>3. RunInv'
  BY <1>0, <1>1, <1>2 DEF SeqInv, RunInv, SeqNumbers
<1>4. NewestInv'
  BY <1>0, <1>1, <1>2 DEF SeqInv, NewestInv, SeqNumbers
<1>5. GapsCountLosses'
  <2> SUFFICES ASSUME Comparable(run.seen \union {d})
               PROVE  Cardinality(Missing') <= run'.gaps /\ run'.gaps <= Cardinality(Missing') + run'.late
    BY <1>1 DEF GapsCountLosses, Missing
  <2>1. Missing' = Missing \ {d.place}
    BY <1>0, <1>1, <1>2 DEF Missing
  <2>2. /\ IsFiniteSet(Missing) /\ Cardinality(Missing) \in Nat
    <3>1. IsFiniteSet(run.base .. lastSeq)
      BY <1>0, FS_Interval DEF SeqNumbers
    <3>2. QED
      BY <3>1, FS_Subset, FS_CardinalityType DEF Missing
  <2>3. Cardinality(Missing') \in {Cardinality(Missing), Cardinality(Missing) - 1}
    BY <2>1, <2>2, FS_RemoveElement
  <2>4. Cardinality(Missing) <= run.gaps /\ run.gaps <= Cardinality(Missing) + run.late
    BY <1>0, <1>2 DEF SeqInv, GapsCountLosses, Missing, SeqNumbers
  <2>5. run.gaps \in Nat /\ run.late \in Nat
    BY <1>0
  <2>6. QED
    BY <1>1, <2>2, <2>3, <2>4, <2>5
<1>6. QED
  BY <1>0, <1>1, <1>3, <1>4, <1>5

\* The lives of the sender: a datagram of an old life costs two reports, its own and the
\* one of the next datagram of the new life.
LEMMA LivesStep ==
  ASSUME SeqInv, NEW d \in network, Observe(d), tracksRestarts' = tracksRestarts,
         event'.kind = "restart" => EpochChanged(d)
  PROVE  LivesInv' /\ lives'.newest \in 0 .. restarts
<1> USE SeqConstants
<1>1. /\ d.life \in Nat /\ d.life <= restarts /\ d.epoch = EpochOfLife(d.life)
  BY DEF SeqInv, NetworkInv, Genuine, Datagram
<1>2. /\ lives \in [newest : Nat, stale : Nat, reported : Nat] /\ lives.newest \in 0 .. restarts
      /\ lives.reported + OutOfDate <= lives.newest + 2 * lives.stale
      /\ restarts \in Nat /\ OutOfDate \in 0 .. 1
  BY DEF SeqInv, LivesInv, SeqTypeOK, OutOfDate
<1> DEFINE newest == IF d.life > lives.newest THEN d.life ELSE lives.newest
           stale == IF d.life < lives.newest THEN 1 ELSE 0
           reported == IF event'.kind = "restart" THEN 1 ELSE 0
<1>3. /\ lives' = [newest |-> newest, stale |-> lives.stale + stale, reported |-> lives.reported + reported]
      /\ lastEpoch' = d.epoch
  BY DEF Observe
<1>4. lives' \in [newest : Nat, stale : Nat, reported : Nat] /\ lives'.newest \in 0 .. restarts
  BY <1>1, <1>2, <1>3
<1>5. OutOfDate' = IF d.epoch \in {NoEpoch, EpochOfLife(newest)} THEN 0 ELSE 1
  BY <1>3 DEF OutOfDate, EpochOfLife
<1>6. reported = 1 => d.epoch # lastEpoch /\ lastEpoch # NoEpoch
  BY DEF EpochChanged
<1>7. lives.reported + reported + OutOfDate' <= newest + 2 * (lives.stale + stale)
  <2>0. reported \in 0 .. 1 /\ OutOfDate' \in 0 .. 1
    BY <1>5
  <2>1. CASE d.life < lives.newest
    BY <1>1, <1>2, <2>0, <2>1
  <2>2. CASE d.life = lives.newest
    <3>1. newest = lives.newest /\ stale = 0 /\ OutOfDate' = 0
      BY <1>1, <1>2, <1>5, <2>2
    <3>2. reported <= OutOfDate
      BY <1>1, <1>2, <1>6, <2>2 DEF OutOfDate
    <3>3. QED
      BY <1>2, <2>0, <3>1, <3>2
  <2>3. CASE d.life > lives.newest
    <3>1. newest = d.life /\ stale = 0 /\ OutOfDate' = 0
      BY <1>1, <1>2, <1>5, <2>3
    <3>2. QED
      BY <1>1, <1>2, <2>0, <2>3, <3>1
  <2>4. QED
    BY <1>1, <1>2, <2>1, <2>2, <2>3
<1>8. QED
  BY <1>3, <1>4, <1>7 DEF LivesInv

\* What observe makes of a datagram, one way or the other.
LEMMA ObserveStep ==
  ASSUME SeqInv, NEW d \in network, Observe(d)
  PROVE  /\ RunInv' /\ NewestInv' /\ GapsCountLosses'
         /\ lastSeq' \in SeqNumbers \union {None}
         /\ event'.kind \in {"restart", "first", "advanced", "late-or-duplicate"}
         /\ event'.gap \in 0 .. SeqSpace - 2
         /\ event'.kind = "restart" => EpochChanged(d)
<1>1. CASE Restarted(d)
  BY <1>1, RestartedStep, SeqConstants DEF Restarted
<1>2. CASE Unsequenced(d)
  BY <1>2, UnsequencedStep, SeqConstants
<1>3. CASE First(d)
  BY <1>3, FirstStep, SeqConstants
<1>4. CASE Advanced(d)
  BY <1>4, AdvancedStep
<1>5. CASE LateOrDuplicate(d)
  BY <1>5, LateOrDuplicateStep, SeqConstants
<1>6. QED
  BY <1>1, <1>2, <1>3, <1>4, <1>5 DEF Observe

LEMMA ReceiveStep == SeqInv /\ Receive => SeqInv'
<1> SUFFICES ASSUME SeqInv, Receive
             PROVE  SeqInv'
  OBVIOUS
<1> USE SeqConstants
<1>1. PICK d \in network :
        /\ Observe(d)
        /\ \/ network' = network \ {d} /\ UNCHANGED repeats
           \/ repeats < MaxRepeats /\ repeats' = repeats + 1 /\ UNCHANGED network
  BY DEF Receive
<1>2. /\ tracksRestarts' = tracksRestarts /\ count' = count /\ place' = place /\ restarts' = restarts
  BY DEF Receive, senderState
<1>3. lastEpoch' = d.epoch /\ arrivals' = arrivals + 1
  BY <1>1 DEF Observe
<1>4. /\ RunInv' /\ NewestInv' /\ GapsCountLosses'
      /\ lastSeq' \in SeqNumbers \union {None}
      /\ event'.kind \in {"restart", "first", "advanced", "late-or-duplicate"}
      /\ event'.gap \in 0 .. SeqSpace - 2
      /\ event'.kind = "restart" => EpochChanged(d)
  BY <1>1, ObserveStep
<1>5. LivesInv' /\ lives'.newest \in 0 .. restarts
  BY <1>1, <1>2, <1>4, LivesStep
<1>6. d.epoch \in Epochs
  BY DEF SeqInv, NetworkInv, Genuine, Datagram
<1>7. /\ count \in 0 .. MaxDatagrams /\ repeats \in 0 .. MaxRepeats /\ arrivals \in Nat
      /\ IsFiniteSet(network) /\ Cardinality(network) \in Nat /\ arrivals + Cardinality(network) <= count + repeats
  BY FS_CardinalityType DEF SeqInv, SeqTypeOK, NetworkInv
<1>8. /\ repeats' \in 0 .. MaxRepeats /\ Genuine(network)'
      /\ IsFiniteSet(network') /\ Cardinality(network') \in Nat
      /\ arrivals' + Cardinality(network') <= count + repeats'
  <2>1. Genuine(network)'
    BY <1>1, <1>2 DEF SeqInv, NetworkInv, Genuine, EpochOfLife
  <2>2. CASE network' = network \ {d} /\ UNCHANGED repeats
    <3>1. IsFiniteSet(network') /\ Cardinality(network') = Cardinality(network) - 1
      BY <1>7, <2>2, FS_RemoveElement
    <3>2. Cardinality(network') \in Nat
      BY <3>1, FS_CardinalityType
    <3>3. QED
      BY <1>3, <1>7, <2>1, <2>2, <3>1, <3>2
  <2>3. CASE repeats < MaxRepeats /\ repeats' = repeats + 1 /\ UNCHANGED network
    BY <1>3, <1>7, <2>1, <2>3
  <2>4. QED
    BY <1>1, <2>2, <2>3
<1>9. NetworkInv'
  BY <1>2, <1>8 DEF SeqInv, NetworkInv
<1>10. SeqTypeOK'
  <2>1. arrivals' \in 0 .. MaxDatagrams + MaxRepeats
    BY <1>3, <1>7, <1>8
  <2>2. QED
    BY <1>2, <1>3, <1>4, <1>5, <1>6, <1>8, <2>1 DEF SeqInv, SeqTypeOK, SeqNumbers, Epochs
<1>11. QED
  BY <1>4, <1>5, <1>9, <1>10 DEF SeqInv

LEMMA SeqInvStep == SeqInv /\ [SeqNext]_seqVars => SeqInv'
<1> SUFFICES ASSUME SeqInv, [SeqNext]_seqVars
             PROVE  SeqInv'
  OBVIOUS
<1>1. CASE SendSequenced
  BY <1>1, SendStep DEF SendSequenced
<1>2. CASE SendUnsequenced
  BY <1>2, SendStep DEF SendUnsequenced
<1>3. CASE UNCHANGED seqVars
  <2>1. UNCHANGED trackerState /\ UNCHANGED senderState /\ network' = network /\ repeats' = repeats
    BY <1>3 DEF seqVars
  <2>2. /\ tracksRestarts' = tracksRestarts /\ count' = count /\ place' = place /\ restarts' = restarts
        /\ lastSeq' = lastSeq /\ lastEpoch' = lastEpoch /\ event' = event /\ arrivals' = arrivals
        /\ lives' = lives
    BY <2>1 DEF senderState, trackerState
  <2>3. SeqTypeOK'
    BY <2>1, <2>2 DEF SeqInv, SeqTypeOK
  <2>4. NetworkInv'
    BY <2>1, <2>2 DEF SeqInv, NetworkInv, Genuine, EpochOfLife
  <2>5. QED
    BY <2>1, <2>2, <2>3, <2>4, TrackerUntouched DEF SeqInv
<1>4. QED
  BY <1>1, <1>2, <1>3, SenderRestartsStep, LoseStep, ReceiveStep DEF SeqNext

LEMMA NewerStep ==
  ASSUME SeqInv, [SeqNext]_seqVars, arrivals' # arrivals, latest'.place # 0, event'.kind # "restart",
         Comparable(run.seen \union {latest'})
  PROVE  event'.kind \in {"first", "advanced"} <=> \A d \in run.seen : d.place < latest'.place
<1> USE SeqConstants
<1>1. Receive
  BY DEF SeqNext, SendSequenced, SendUnsequenced, Send, SenderRestarts, Lose, seqVars, trackerState
<1>2. PICK d \in network : Observe(d)
  BY <1>1 DEF Receive
<1>3. latest' = d
  BY <1>2 DEF Observe
<1>4. /\ d.place \in Nat /\ d.seq = d.place /\ d.seq # 0 /\ d.seq \in SeqNumbers
      /\ Comparable(run.seen) /\ \A e \in run.seen : e.place \in Nat
  BY <1>3, ComparablePlaces
<1>5. lastSeq \in SeqNumbers \union {None}
  BY DEF SeqInv, SeqTypeOK, SeqNumbers
<1>6. ~Restarted(d) /\ ~Unsequenced(d)
  BY <1>4 DEF Restarted, Unsequenced
<1>7. CASE First(d)
  <2>1. event'.kind = "first" /\ \A e \in run.seen : e.place = 0
    BY <1>4, <1>7 DEF First, SeqInv, NewestInv
  <2>2. QED
    BY <1>3, <1>4, <2>1
<1>8. CASE Advanced(d)
  <2>1. /\ event'.kind = "advanced" /\ d.place > lastSeq /\ lastSeq \in Nat
        /\ \A e \in run.seen : e.place <= lastSeq
    BY <1>4, <1>5, <1>8 DEF Advanced, SeqInv, NewestInv, SeqNumbers
  <2>2. QED
    BY <1>3, <1>4, <2>1
<1>9. CASE LateOrDuplicate(d)
  <2>1. /\ event'.kind = "late-or-duplicate" /\ d.place <= lastSeq /\ lastSeq \in Nat
        /\ \E e \in run.seen : e.place = lastSeq
    BY <1>4, <1>5, <1>9 DEF LateOrDuplicate, SeqInv, NewestInv, SeqNumbers
  <2>2. QED
    BY <1>3, <1>4, <2>1
<1>10. QED
  BY <1>2, <1>6, <1>7, <1>8, <1>9 DEF Observe

(* The invariant of the tracker at the end of a channel that loses, repeats  *)
(* and reorders datagrams (SeqTracker::observe), for any ranges of the       *)
(* sequence numbers and epochs and any number of datagrams.                  *)
THEOREM SeqInvariant == SeqSpec => []SeqInv
BY SeqInvInit, SeqInvStep, PTL DEF SeqSpec

(* observe reports a datagram as newer exactly when it was sent after all    *)
(* that came before, in whatever order they come.                            *)
THEOREM NewerIsNewer == SeqSpec => NewerExactlyWhenNewer
<1>1. SeqInv /\ [SeqNext]_seqVars =>
        [(arrivals' # arrivals /\ latest'.place # 0 /\ event'.kind # "restart"
           /\ Comparable(run.seen \union {latest'}))
          => (event'.kind \in {"first", "advanced"}
              <=> \A d \in run.seen : d.place < latest'.place)]_seqVars
  BY NewerStep
<1>2. QED
  BY <1>1, SeqInvariant, PTL DEF SeqSpec, NewerExactlyWhenNewer

(* The gaps observe reports count the datagrams that have not come, and no   *)
(* others but those that come late.                                          *)
THEOREM GapsAreLosses == SeqSpec => []GapsCountLosses
<1>1. SeqInv => GapsCountLosses
  BY DEF SeqInv
<1>2. QED
  BY <1>1, SeqInvariant, PTL

(* Every restart that observe reports is one of the sender, but for two with *)
(* each datagram that outlives its sender (datagrams.rs:174).                *)
THEOREM RestartsAreReported == SeqSpec => []RestartsReported
<1>1. SeqInv => RestartsReported
  BY DEF SeqInv, LivesInv, OutOfDate, RestartsReported
<1>2. QED
  BY <1>1, SeqInvariant, PTL

-----------------------------------------------------------------------------
(* The three components side by side, as the run has them (MCTransports): a  *)
(* step of one leaves the variables of the others, so each keeps its         *)
(* invariant, and with it the types of its variables.                        *)
THEOREM TransportTypes == MCSpec => []TypeOK
<1> DEFINE Inv == StreamInv /\ CallsInv /\ SeqInv
<1>1. MCInit => Inv
  BY StreamInvInit, CallsInvInit, SeqInvInit DEF MCInit
<1>2. Inv /\ [MCNext]_allVars => Inv'
  <2> SUFFICES ASSUME Inv, [MCNext]_allVars
               PROVE  Inv'
    OBVIOUS
  <2>1. /\ [StreamNext]_streamVars
        /\ [CallsNext]_callVars
        /\ [SeqNext]_seqVars
    BY DEF MCNext, Stream, Overlapping, Datagrams, allVars
  <2>2. QED
    BY <2>1, StreamInvStep, CallsInvStep, SeqInvStep
<1>3. Inv => TypeOK
  BY DEF StreamInv, CallsInv, SeqInv, TypeOK
<1>4. QED
  BY <1>1, <1>2, <1>3, PTL DEF MCSpec
=============================================================================
