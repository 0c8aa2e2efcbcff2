---------------------------- MODULE BreakingChanges ----------------------------
(***************************************************************************)
(* csilgen breaking (detect_breaking_changes of                            *)
(* crates/csilgen-core/src/breaking.rs) as the gate before a release, with *)
(* the check of the wire ids that csilgen validate makes (validate_wire_ids*)
(* of validator.rs): a new version of an interface is proposed, compared   *)
(* with the one in use, and takes its place when nothing is reported.      *)
(*                                                                         *)
(* A version is a function from the names of its rules to the rules.  What *)
(* the old and the new version mean is told apart by the messages they     *)
(* have: Wire gives the encodings of a type as the wire contract           *)
(* (docs/cbor-wire-contract.md) lays them down, independently of the       *)
(* detector.  Entries without a key, which build_field_map passes over,    *)
(* and the list of the non-breaking changes are left out.                  *)
(***************************************************************************)
EXTENDS Naturals, Sequences, FiniteSets

CONSTANTS
  Specs,            \* the versions that can be proposed
  TypeExpressions,  \* the type expressions in them, with their parts
  Absent,           \* no value
  Malformed,        \* a @wire-id without a proper ordinal
  MaxItems          \* bound: items of an array among the messages looked at

VARIABLES
  base,       \* the first version released
  current,    \* the version in use
  candidate,  \* the one proposed, Absent if there is none
  report      \* the breaking changes from current to candidate

releaseVars == <<base, current, candidate, report>>

-----------------------------------------------------------------------------
(* are_type_expressions_compatible *)

OccurrencesCompatible(old, new) == old = "?" \/ old = new

ArmsCompatible(compatible, old, new) ==
  \A i \in DOMAIN old : \E j \in DOMAIN new : compatible[<<old[i], new[j]>>]

(* An expression of another kind than these is compatible with nothing. *)
Compatible[pair \in TypeExpressions \X TypeExpressions] ==
  LET old == pair[1]
      new == pair[2]
  IN /\ old.is = new.is
     /\ \/ old.is \in {"builtin", "reference", "literal"} /\ old = new
        \/ /\ old.is = "array"
           /\ Compatible[<<old.element, new.element>>]
           /\ OccurrencesCompatible(old.occurrence, new.occurrence)
        \/ /\ old.is = "map"
           /\ Compatible[<<old.key, new.key>>] /\ Compatible[<<old.value, new.value>>]
           /\ OccurrencesCompatible(old.occurrence, new.occurrence)
        \/ old.is = "choice" /\ ArmsCompatible(Compatible, old.arms, new.arms)
        \/ /\ old.is = "tuple" /\ DOMAIN old.slots = DOMAIN new.slots
           /\ \A i \in DOMAIN old.slots :
                /\ Compatible[<<old.slots[i].type, new.slots[i].type>>]
                /\ OccurrencesCompatible(old.slots[i].occurrence, new.slots[i].occurrence)

-----------------------------------------------------------------------------
(* compare_rules, and what it compares the rules with.                       *)

Required(field) == field.occurrence \in {Absent, "+"}

LowerBounds == {"MinLength", "MinItems", "MinValue"}
UpperBounds == {"MaxLength", "MaxItems", "MaxValue"}

(* are_constraints_more_restrictive: a bound is compared with those there    *)
(* were, so that a new one is not more restrictive; a custom one is.         *)
MoreRestrictive(old, new) ==
  \E n \in new :
    \/ n.bound = "Custom" /\ n \notin old
    \/ \E o \in old : n.bound = o.bound /\ n.bound \in LowerBounds /\ n.value > o.value
    \/ \E o \in old : n.bound = o.bound /\ n.bound \in UpperBounds /\ n.value < o.value

VisibilityBreaks(old, new) ==
  <<old, new>> \in {<<"bidirectional", "send-only">>, <<"bidirectional", "receive-only">>,
                    <<"send-only", "receive-only">>, <<"receive-only", "send-only">>}

(* compare_field_entries and compare_field_metadata, for a field of both. *)
FieldChanges(old, new) ==
  {change \in {"FieldTypeChanged", "FieldMadeRequired", "FieldVisibilityChanged",
               "FieldDependencyChanged", "FieldConstraintChanged"} :
    \/ change = "FieldTypeChanged" /\ ~Compatible[<<old.type, new.type>>]
    \/ change = "FieldMadeRequired" /\ ~Required(old) /\ Required(new)
    \/ change = "FieldVisibilityChanged" /\ VisibilityBreaks(old.visibility, new.visibility)
    \/ change = "FieldDependencyChanged" /\ old.dependsOn # new.dependsOn
    \/ change = "FieldConstraintChanged" /\ MoreRestrictive(old.constraints, new.constraints)}

\* Mutant: a field that is new is not looked at.
CommonFieldsOnly(old, new) ==
  UNION {FieldChanges(old[f], new[f]) \X {f} : f \in DOMAIN old \intersect DOMAIN new}
    \union {"RequiredFieldRemoved"} \X {f \in DOMAIN old \ DOMAIN new : Required(old[f])}

CompareGroups(old, new) ==
  UNION {FieldChanges(old[f], new[f]) \X {f} : f \in DOMAIN old \intersect DOMAIN new}
    \union {"RequiredFieldRemoved"} \X {f \in DOMAIN old \ DOMAIN new : Required(old[f])}
    \union {"FieldMadeRequired"} \X {f \in DOMAIN new \ DOMAIN old : Required(new[f])}

(* wire_id(): an ordinal, or nothing. *)
Ordinal(item) == IF item.wireId = Malformed THEN Absent ELSE item.wireId

\* Mutant: the ordinal of an operation is not compared.
SameTypesAndDirection(old, new) ==
  /\ Compatible[<<old.input, new.input>>] /\ Compatible[<<old.output, new.output>>]
  /\ old.direction = new.direction

SameSignature(old, new) ==
  /\ Compatible[<<old.input, new.input>>] /\ Compatible[<<old.output, new.output>>]
  /\ old.direction = new.direction
  /\ Ordinal(old) = Ordinal(new)

CompareServices(old, new) ==
  {"ServiceWireIdChanged"} \X (IF Ordinal(old) # Ordinal(new) THEN {"service"} ELSE {})
    \union {"ServiceOperationRemoved"} \X (DOMAIN old.operations \ DOMAIN new.operations)
    \union {"ServiceOperationSignatureChanged"} \X
             {o \in DOMAIN old.operations \intersect DOMAIN new.operations :
                ~SameSignature(old.operations[o], new.operations[o])}

CompareRules(old, new) ==
  IF old.is # new.is THEN {<<"RuleTypeChanged", "rule">>}
  ELSE CASE old.is = "type" ->
              {"FieldTypeChanged"} \X (IF Compatible[<<old.type, new.type>>] THEN {} ELSE {"root"})
         [] old.is = "choice" ->
              {"FieldTypeChanged"} \X
                (IF ArmsCompatible(Compatible, old.arms, new.arms) THEN {} ELSE {"choice"})
         [] old.is = "group" -> CompareGroups(old.fields, new.fields)
         [] old.is = "groups" ->
              {"RuleTypeChanged"} \X (IF Len(old.options) = Len(new.options) THEN {} ELSE {"options"})
         [] old.is = "service" -> CompareServices(old, new)

(* detect_breaking_changes *)
BreakingChangesOf(old, new) ==
  {<<"RuleRemoved", "rule", r>> : r \in DOMAIN old \ DOMAIN new}
    \union UNION {{<<change[1], change[2], r>> : change \in CompareRules(old[r], new[r])} :
                    r \in DOMAIN old \intersect DOMAIN new}

-----------------------------------------------------------------------------
(* validate_wire_ids *)

Services(spec) == {s \in DOMAIN spec : spec[s].is = "service"}

WireIds(spec) ==
  {spec[s].wireId : s \in Services(spec)} \union
  UNION {{spec[s].operations[o].wireId : o \in DOMAIN spec[s].operations} : s \in Services(spec)}

DifferentWireIds(items) ==
  \A x, y \in DOMAIN items : items[x].wireId = items[y].wireId => x = y

(* All of them or none, 0 is not for a service, and they are different.      *)
ValidWireIds(spec) ==
  WireIds(spec) \subseteq {Absent} \/
    /\ WireIds(spec) \intersect {Absent, Malformed} = {}
    /\ \A s \in Services(spec) : spec[s].wireId # 0
    /\ DifferentWireIds([s \in Services(spec) |-> spec[s]])
    /\ \A s \in Services(spec) : DifferentWireIds(spec[s].operations)

-----------------------------------------------------------------------------
ReleasesInit ==
  /\ base \in {spec \in Specs : ValidWireIds(spec)}
  /\ current = base /\ candidate = Absent /\ report = {}

Propose ==
  /\ candidate' \in Specs
  /\ report' = BreakingChangesOf(current, candidate')
  /\ UNCHANGED <<base, current>>

(* The gate of examples/breaking-changes/README.md:60. *)
Release ==
  /\ candidate # Absent /\ report = {} /\ ValidWireIds(candidate)
  /\ current' = candidate
  /\ candidate' = Absent
  /\ UNCHANGED <<base, report>>

ReleasesNext == Propose \/ Release

ReleasesSpec == ReleasesInit /\ [][ReleasesNext]_releaseVars

-----------------------------------------------------------------------------
(* The wire contract. *)

Builtins == [int |-> {<<"int", 0>>, <<"int", 1>>}, text |-> {<<"text", "a">>, <<"text", "b">>}]

Lengths(occurrence) ==
  CASE occurrence = Absent -> {1}
    [] occurrence = "?" -> 0 .. 1
    [] occurrence = "*" -> 0 .. MaxItems
    [] occurrence = "+" -> 1 .. MaxItems

SequencesOf(items, lengths) == UNION {[1 .. n -> items] : n \in lengths}

(* A choice of literals is the bare literal; any other carries the number of *)
(* the arm, in the order of declaration (docs/cbor-wire-contract.md:157-165).*)
ArmsOnTheWire(wire, arms) ==
  IF \A i \in DOMAIN arms : arms[i].is = "literal"
  THEN UNION {wire[arms[i]] : i \in DOMAIN arms}
  ELSE UNION {{"arm"} \X {i} \X wire[arms[i]] : i \in DOMAIN arms}

WireOf(spec) ==
  LET wire[t \in TypeExpressions] ==
        CASE t.is = "builtin" -> Builtins[t.name]
          [] t.is = "literal" -> {<<"text", t.text>>}
          [] t.is = "array" -> {"array"} \X SequencesOf(wire[t.element], Lengths(t.occurrence))
          [] t.is = "map" -> {"map"} \X SequencesOf(wire[t.key] \X wire[t.value], Lengths(t.occurrence))
          [] t.is = "choice" -> ArmsOnTheWire(wire, t.arms)
          [] t.is = "tuple" ->
               {"array"} \X {s \in SequencesOf(UNION {wire[t.slots[i].type] : i \in DOMAIN t.slots},
                                               {Len(t.slots)}) :
                               \A i \in DOMAIN s : s[i] \in wire[t.slots[i].type]}
          [] t.is = "reference" /\ spec[t.name].is = "type" -> wire[spec[t.name].type]
          [] t.is = "reference" /\ spec[t.name].is = "choice" -> ArmsOnTheWire(wire, spec[t.name].arms)
  IN wire

(* What a message may have at a field: a value within the bounds, or nothing. *)
WithinBounds(value, constraints) ==
  \A c \in constraints :
    /\ (c.bound = "MinValue" /\ value[1] = "int") => value[2] >= c.value
    /\ (c.bound = "MaxValue" /\ value[1] = "int") => value[2] <= c.value

AtField(spec, field) ==
  {v \in WireOf(spec)[field.type] : WithinBounds(v, field.constraints)}
    \union (IF Required(field) THEN {} ELSE {Absent})

(* What a writer of the old version may put there, a reader of the new one   *)
(* takes.  A field the reader does not know is passed over.                  *)
GroupIsRead(old, new, r) ==
  \A f \in DOMAIN new[r].fields :
    (IF f \in DOMAIN old[r].fields THEN AtField(old, old[r].fields[f]) ELSE {Absent})
      \subseteq AtField(new, new[r].fields[f])

RuleIsRead(old, new, r) ==
  CASE old[r].is = "type" -> WireOf(old)[old[r].type] \subseteq WireOf(new)[new[r].type]
    [] old[r].is = "choice" ->
         ArmsOnTheWire(WireOf(old), old[r].arms) \subseteq ArmsOnTheWire(WireOf(new), new[r].arms)
    [] old[r].is = "group" -> GroupIsRead(old, new, r)
    [] OTHER -> TRUE

-----------------------------------------------------------------------------
(* getting-started.md:28: the detector says when changes would break         *)
(* existing clients.  Where it reports nothing, every message of the version *)
(* in use is one the proposed version reads.                                 *)
OldMessagesAreRead ==
  (candidate # Absent /\ report = {}) =>
    \A r \in DOMAIN current : RuleIsRead(current, candidate, r)

(* docs/csil-transport-conventions.md:144: ordinals are part of the wire     *)
(* contract.  After any number of releases, the ordinals by which a client   *)
(* of the first version calls an operation lead to that operation and to no  *)
(* other, with the direction it had; the detector sees neither an ordinal    *)
(* that is used twice nor any version but two, and validate_wire_ids only    *)
(* one.                                                                      *)
OrdinalsKeepTheirMeaning ==
  \A s \in Services(base) : base[s].wireId # Absent =>
    \A o \in DOMAIN base[s].operations :
      LET Addressed == {call \in Services(current) \X UNION {DOMAIN current[t].operations : t \in Services(current)} :
                          /\ call[2] \in DOMAIN current[call[1]].operations
                          /\ current[call[1]].wireId = base[s].wireId
                          /\ current[call[1]].operations[call[2]].wireId = base[s].operations[o].wireId}
      IN /\ Addressed = {<<s, o>>}
         /\ current[s].operations[o].direction = base[s].operations[o].direction
=============================================================================
