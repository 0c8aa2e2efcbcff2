------------------------ MODULE BreakingChangesProofs ------------------------
(***************************************************************************)
(* Proofs about BreakingChanges: what the detector and the check of the    *)
(* wire ids see of two versions and of one is enough for the ordinals to   *)
(* keep their meaning through every version, for any set of versions and   *)
(* whatever the types in them.                                             *)
(***************************************************************************)
EXTENDS BreakingChanges, TLAPS

(* The services and operations of the one version are in the other, with     *)
(* their ordinals and directions.                                            *)
Keeps(old, new) ==
  \A s \in Services(old) :
    /\ s \in Services(new) /\ Ordinal(old[s]) = Ordinal(new[s])
    /\ \A o \in DOMAIN old[s].operations :
         /\ o \in DOMAIN new[s].operations
         /\ Ordinal(old[s].operations[o]) = Ordinal(new[s].operations[o])
         /\ old[s].operations[o].direction = new[s].operations[o].direction

\* The report is about the two versions there are, both released ones have been
\* validated, and nothing has been lost since the first.
ReleasesInv ==
  /\ candidate # Absent => report = BreakingChangesOf(current, candidate)
  /\ ValidWireIds(base) /\ ValidWireIds(current)
  /\ Keeps(base, current)

-----------------------------------------------------------------------------
\* Where the detector reports nothing of a service, it has kept what it had.
LEMMA NothingReportedOfService ==
  ASSUME NEW old, NEW new, CompareServices(old, new) = {}
  PROVE  /\ Ordinal(old) = Ordinal(new)
         /\ \A o \in DOMAIN old.operations :
              o \in DOMAIN new.operations /\ SameSignature(old.operations[o], new.operations[o])
<1>1. Ordinal(old) = Ordinal(new)
  <2>1. CASE Ordinal(old) # Ordinal(new)
    <3>1. <<"ServiceWireIdChanged", "service">> \in CompareServices(old, new)
      BY <2>1 DEF CompareServices
    <3>2. QED
      BY <3>1
  <2>2. QED
    BY <2>1
<1>2. ASSUME NEW o \in DOMAIN old.operations
      PROVE  o \in DOMAIN new.operations
  <2>1. CASE o \notin DOMAIN new.operations
    <3>1. <<"ServiceOperationRemoved", o>> \in CompareServices(old, new)
      BY <2>1 DEF CompareServices
    <3>2. QED
      BY <3>1
  <2>2. QED
    BY <2>1
<1>3. ASSUME NEW o \in DOMAIN old.operations
      PROVE  SameSignature(old.operations[o], new.operations[o])
  <2>1. CASE ~SameSignature(old.operations[o], new.operations[o])
    <3>1. <<"ServiceOperationSignatureChanged", o>> \in CompareServices(old, new)
      BY <1>2, <2>1 DEF CompareServices
    <3>2. QED
      BY <3>1
  <2>2. QED
    BY <2>1
<1>4. QED
  BY <1>1, <1>2, <1>3

\* Where it reports nothing of two versions, it reports nothing of any rule.
LEMMA NothingReported ==
  ASSUME NEW old, NEW new, BreakingChangesOf(old, new) = {}, NEW r \in DOMAIN old
  PROVE  r \in DOMAIN new /\ CompareRules(old[r], new[r]) = {}
<1>1. r \in DOMAIN new
  <2>1. CASE r \notin DOMAIN new
    <3>1. <<"RuleRemoved", "rule", r>> \in BreakingChangesOf(old, new)
      BY <2>1 DEF BreakingChangesOf
    <3>2. QED
      BY <3>1
  <2>2. QED
    BY <2>1
<1>2. ASSUME NEW change \in CompareRules(old[r], new[r])
      PROVE  FALSE
  <2>1. <<change[1], change[2], r>> \in BreakingChangesOf(old, new)
    BY <1>1, <1>2 DEF BreakingChangesOf
  <2>2. QED
    BY <2>1
<1>3. QED
  BY <1>1, <1>2

LEMMA NothingReportedKeeps ==
  ASSUME NEW old, NEW new, BreakingChangesOf(old, new) = {}
  PROVE  Keeps(old, new)
<1> SUFFICES ASSUME NEW s \in Services(old)
             PROVE  /\ s \in Services(new) /\ Ordinal(old[s]) = Ordinal(new[s])
                    /\ \A o \in DOMAIN old[s].operations :
                         /\ o \in DOMAIN new[s].operations
                         /\ Ordinal(old[s].operations[o]) = Ordinal(new[s].operations[o])
                         /\ old[s].operations[o].direction = new[s].operations[o].direction
  BY DEF Keeps
<1>1. s \in DOMAIN old /\ old[s].is = "service"
  BY DEF Services
<1>2. s \in DOMAIN new /\ CompareRules(old[s], new[s]) = {}
  BY <1>1, NothingReported
<1>3. new[s].is = "service"
  BY <1>1, <1>2 DEF CompareRules
<1>4. CompareServices(old[s], new[s]) = {}
  BY <1>1, <1>2, <1>3 DEF CompareRules
<1>5. /\ Ordinal(old[s]) = Ordinal(new[s])
      /\ \A o \in DOMAIN old[s].operations :
           o \in DOMAIN new[s].operations /\ SameSignature(old[s].operations[o], new[s].operations[o])
  BY <1>4, NothingReportedOfService
<1>6. ASSUME NEW o \in DOMAIN old[s].operations
      PROVE  /\ o \in DOMAIN new[s].operations
             /\ Ordinal(old[s].operations[o]) = Ordinal(new[s].operations[o])
             /\ old[s].operations[o].direction = new[s].operations[o].direction
  <2>1. o \in DOMAIN new[s].operations /\ SameSignature(old[s].operations[o], new[s].operations[o])
    BY <1>5
  <2>2. QED
    BY <2>1, Zenon DEF SameSignature
<1>7. s \in Services(new)
  BY <1>2, <1>3 DEF Services
<1>8. QED
  BY <1>5, <1>6, <1>7, Zenon

\* What is kept from version to version is kept.
LEMMA KeepsTransitive ==
  ASSUME NEW old, NEW middle, NEW new, Keeps(old, middle), Keeps(middle, new)
  PROVE  Keeps(old, new)
BY DEF Keeps

-----------------------------------------------------------------------------
LEMMA ReleasesInvInit == ReleasesInit => ReleasesInv
BY DEF ReleasesInit, ReleasesInv, Keeps

LEMMA ReleasesInvStep == ReleasesInv /\ [ReleasesNext]_releaseVars => ReleasesInv'
<1> SUFFICES ASSUME ReleasesInv, [ReleasesNext]_releaseVars
             PROVE  ReleasesInv'
  OBVIOUS
<1>1. CASE Propose
  BY <1>1 DEF ReleasesInv, Propose
<1>2. CASE Release
  <2>1. BreakingChangesOf(current, candidate) = {} /\ ValidWireIds(candidate)
    BY <1>2 DEF ReleasesInv, Release
  <2>2. Keeps(current, candidate)
    BY <2>1, NothingReportedKeeps
  <2>3. Keeps(base, candidate)
    BY <2>2, KeepsTransitive DEF ReleasesInv
  <2>4. QED
    BY <1>2, <2>1, <2>3 DEF ReleasesInv, Release
<1>3. CASE UNCHANGED releaseVars
  BY <1>3 DEF ReleasesInv, releaseVars
<1>4. QED
  BY <1>1, <1>2, <1>3 DEF ReleasesNext

\* In a version with ordinals they are different, and none is missing.
LEMMA ValidOrdinals ==
  ASSUME NEW spec, ValidWireIds(spec), NEW s \in Services(spec), spec[s].wireId # Absent
  PROVE  /\ \A t \in Services(spec) :
              /\ spec[t].wireId = spec[s].wireId => t = s
              /\ spec[t].wireId \notin {Absent, Malformed}
              /\ \A o \in DOMAIN spec[t].operations :
                   spec[t].operations[o].wireId \notin {Absent, Malformed}
              /\ \A o, p \in DOMAIN spec[t].operations :
                   spec[t].operations[o].wireId = spec[t].operations[p].wireId => o = p
<1>1. spec[s].wireId \in WireIds(spec)
  BY DEF WireIds
<1>2. /\ WireIds(spec) \intersect {Absent, Malformed} = {}
      /\ DifferentWireIds([t \in Services(spec) |-> spec[t]])
      /\ \A t \in Services(spec) : DifferentWireIds(spec[t].operations)
  BY <1>1 DEF ValidWireIds
<1>3. ASSUME NEW t \in Services(spec), NEW o \in DOMAIN spec[t].operations
      PROVE  spec[t].operations[o].wireId \in WireIds(spec)
  BY DEF WireIds
<1>4. \A t \in Services(spec) : spec[t].wireId \in WireIds(spec)
  BY DEF WireIds
<1>5. \A t \in Services(spec) : spec[t].wireId = spec[s].wireId => t = s
  BY <1>2 DEF DifferentWireIds
<1>6. QED
  BY <1>2, <1>3, <1>4, <1>5 DEF DifferentWireIds

LEMMA ReleasesInvMeaning == ReleasesInv => OrdinalsKeepTheirMeaning
<1> SUFFICES ASSUME ReleasesInv, NEW s \in Services(base), base[s].wireId # Absent,
                    NEW o \in DOMAIN base[s].operations
             PROVE  /\ {call \in Services(current) \X UNION {DOMAIN current[t].operations : t \in Services(current)} :
                          /\ call[2] \in DOMAIN current[call[1]].operations
                          /\ current[call[1]].wireId = base[s].wireId
                          /\ current[call[1]].operations[call[2]].wireId = base[s].operations[o].wireId}
                         = {<<s, o>>}
                    /\ current[s].operations[o].direction = base[s].operations[o].direction
  BY DEF OrdinalsKeepTheirMeaning
<1>1. /\ base[s].wireId \notin {Absent, Malformed}
      /\ base[s].operations[o].wireId \notin {Absent, Malformed}
  BY ValidOrdinals DEF ReleasesInv
<1>2. /\ s \in Services(current) /\ o \in DOMAIN current[s].operations
      /\ Ordinal(base[s]) = Ordinal(current[s])
      /\ Ordinal(base[s].operations[o]) = Ordinal(current[s].operations[o])
      /\ current[s].operations[o].direction = base[s].operations[o].direction
  BY DEF ReleasesInv, Keeps
<1>3. /\ current[s].wireId = base[s].wireId
      /\ current[s].operations[o].wireId = base[s].operations[o].wireId
  BY <1>1, <1>2 DEF Ordinal
<1>4. ASSUME NEW t \in Services(current), NEW p \in DOMAIN current[t].operations,
             current[t].wireId = base[s].wireId,
             current[t].operations[p].wireId = base[s].operations[o].wireId
      PROVE  t = s /\ p = o
  <2>1. current[s].wireId # Absent /\ ValidWireIds(current)
    BY <1>1, <1>3 DEF ReleasesInv
  <2>2. t = s
    BY <1>2, <1>3, <1>4, <2>1, ValidOrdinals
  <2>3. QED
    BY <1>2, <1>3, <1>4, <2>1, <2>2, ValidOrdinals
<1>5. QED
  BY <1>2, <1>3, <1>4

-----------------------------------------------------------------------------
(* Whatever versions are proposed, those that detect_breaking_changes and    *)
(* validate_wire_ids let through keep the services, operations, ordinals and *)
(* directions of the first.                                                  *)
THEOREM ReleasesInvariant == ReleasesSpec => []ReleasesInv
BY ReleasesInvInit, ReleasesInvStep, PTL DEF ReleasesSpec

(* After any number of releases the ordinals of a first client lead to the   *)
(* operation they led to, and to no other.                                   *)
THEOREM OrdinalsAreKept == ReleasesSpec => []OrdinalsKeepTheirMeaning
BY ReleasesInvariant, ReleasesInvMeaning, PTL
=============================================================================
